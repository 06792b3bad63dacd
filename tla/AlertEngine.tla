----------------------------- MODULE AlertEngine -----------------------------
(***************************************************************************)
(* The alert-rule engine, daemon/src/alerts/alert_engine.{hpp,cpp}, and    *)
(* the loop of main.cpp that feeds it: sampler_loop, on the main thread,   *)
(* with the reload of config.yaml that SIGHUP asks for.                    *)
(*                                                                         *)
(* A sample is the set of rules whose condition it meets; a metric that    *)
(* could not be read meets none.  The wall clock may move by any of Steps  *)
(* between two samples, backwards too.  Every sample is recorded in trace  *)
(* with the events evaluate() returned for it; the properties compare the  *)
(* events with what the samples alone say they should be.                  *)
(***************************************************************************)
EXTENDS Integers, Sequences

CONSTANTS
  Rules,                 \* rule names
  Readings,              \* the sets of rules that one sample may meet
  Duration, Cooldown,    \* duration_seconds and cooldown_seconds of a rule
  Critical,              \* the rules of severity "critical"
  Hours, StartHour, EndHour,   \* hours per day; quiet_hours
  Steps,                 \* what the wall clock may move by between samples
  Files,                 \* what config.yaml may hold: sets of rules, or Bad
  Bad,                   \* a file that load_config rejects
  MaxSamples, MaxEdits   \* bounds of the model, in the guards

ASSUME AlertEngineAssumption ==
  /\ Readings \subseteq SUBSET Rules /\ Critical \subseteq Rules
  /\ Duration \in [Rules -> Nat] /\ Cooldown \in [Rules -> Nat]
  /\ Hours \in Nat \ {0} /\ StartHour \in 0..Hours /\ EndHour \in 0..Hours
  /\ Steps \subseteq Int /\ Files \ {Bad} \subseteq SUBSET Rules
  /\ MaxSamples \in Nat /\ MaxEdits \in Nat

VARIABLES
  now,        \* std::time(nullptr), positive
  pc,         \* where sampler_loop is
  g_reload,   \* set by the SIGHUP handler
  file,       \* config.yaml on disk
  edits,      \* how often it was edited
  cfg,        \* the Config being loaded
  rules,      \* rules_ of the engine
  st,         \* state_ of the engine
  trace,      \* history: the samples and the events they caused
  born        \* history: Len(trace) when the engine was made

vars == <<now, pc, g_reload, file, edits, cfg, rules, st, trace, born>>
-----------------------------------------------------------------------------
RuleState == [since : Nat, firing : BOOLEAN, notified : BOOLEAN, last_fired : Nat]
\* The state of a rule that evaluate() sees for the first time.
NewState == [r \in Rules |->
  [since |-> 0, firing |-> FALSE, notified |-> FALSE, last_fired |-> 0]]

Init ==
  /\ now = Hours
  /\ pc = "top" /\ g_reload = FALSE
  /\ file \in Files \ {Bad} /\ edits = 0 /\ cfg = file
  /\ rules = file /\ st = NewState
  /\ trace = <<>> /\ born = 0

\* Mutant: the hour that ends the quiet time is still quiet.
InQuietHoursLong(t) ==
  LET h == t % Hours IN
  /\ StartHour # EndHour
  /\ IF StartHour < EndHour THEN h >= StartHour /\ h <= EndHour
                            ELSE h >= StartHour \/ h <= EndHour
\* in_quiet_hours, which may wrap past midnight.
InQuietHours(t) ==
  LET h == t % Hours IN
  /\ StartHour # EndHour
  /\ IF StartHour < EndHour THEN h >= StartHour /\ h < EndHour
                            ELSE h >= StartHour \/ h < EndHour

\* When the condition of r, met at t, was first met.
Since(r, t) == IF st[r].since = 0 THEN t ELSE st[r].since

\* Mutant: the cooldown is counted from the start of the episode.
FiresFromSince(r, t) ==
  /\ t - Since(r, t) >= Duration[r]
  /\ ~st[r].notified
  /\ st[r].last_fired = 0 \/ Since(r, t) - st[r].last_fired >= Cooldown[r]
\* evaluate: a rule whose condition is met emits a firing event.
Fires(r, t) ==
  /\ t - Since(r, t) >= Duration[r]
  /\ ~st[r].notified
  /\ st[r].last_fired = 0 \/ t - st[r].last_fired >= Cooldown[r]

Met(r, t) == [since      |-> Since(r, t),
              firing     |-> st[r].firing \/ t - Since(r, t) >= Duration[r],
              notified   |-> st[r].notified \/ Fires(r, t),
              last_fired |-> IF Fires(r, t) THEN t ELSE st[r].last_fired]

\* Mutant: a new episode starts as notified.
NotMetKept(r) == [st[r] EXCEPT !.since = 0, !.firing = FALSE]
NotMet(r) == [st[r] EXCEPT !.since = 0, !.firing = FALSE, !.notified = FALSE]

\* One sample: the metrics are read at time t and evaluate() runs over all rules.
Sample(t, reading) ==
  LET met       == reading \cap rules
      firing    == {r \in met : Fires(r, t)}
      recovered == {r \in rules \ met : st[r].notified}
  IN  /\ st' = [r \in Rules |-> IF r \in met THEN Met(r, t)
                                ELSE IF r \in rules THEN NotMet(r) ELSE st[r]]
      /\ trace' = Append(trace,
           [t |-> t, met |-> met, firing |-> firing, recovered |-> recovered,
            pushed |-> {r \in firing \cup recovered : r \in Critical \/ ~InQuietHours(t)}])

\* The second half of a turn of the loop, if the interval has passed.
TakeSample ==
  /\ pc = "sample" /\ Len(trace) < MaxSamples
  /\ \E d \in Steps, reading \in Readings :
       /\ now + d > 0
       /\ now' = now + d
       /\ Sample(now + d, reading)
  /\ pc' = "top"
  /\ UNCHANGED <<g_reload, file, edits, cfg, rules, born>>

\* The interval has not passed yet.
SkipSample ==
  /\ pc = "sample"
  /\ pc' = "top"
  /\ UNCHANGED <<now, g_reload, file, edits, cfg, rules, st, trace, born>>

\* The head of the loop: a pending reload is taken before the file is read.
LoopTop ==
  /\ pc = "top"
  /\ g_reload' = FALSE
  /\ pc' = IF g_reload THEN "load" ELSE "sample"
  /\ UNCHANGED <<now, file, edits, cfg, rules, st, trace, born>>

\* load_config; a file that does not parse leaves the engine as it is.
LoadConfig ==
  /\ pc = "load"
  /\ cfg' = file
  /\ pc' = IF file = Bad THEN "sample" ELSE "install"
  /\ UNCHANGED <<now, g_reload, file, edits, rules, st, trace, born>>

\* Mutant: g_reload is reset after the reload.
InstallThenReset ==
  /\ pc = "install"
  /\ rules' = cfg /\ st' = NewState /\ born' = Len(trace)
  /\ pc' = "sample" /\ g_reload' = FALSE
  /\ UNCHANGED <<now, file, edits, cfg, trace>>
\* A new AlertEngine takes the place of the old one and its state.
InstallEngine ==
  /\ pc = "install"
  /\ rules' = cfg /\ st' = NewState /\ born' = Len(trace)
  /\ pc' = "sample"
  /\ UNCHANGED <<now, g_reload, file, edits, cfg, trace>>

\* g_stop ends the loop.
Leave ==
  /\ pc = "top"
  /\ pc' = "done"
  /\ UNCHANGED <<now, g_reload, file, edits, cfg, rules, st, trace, born>>

\* The user edits config.yaml, and asks for a reload with SIGHUP.
Edit ==
  /\ edits < MaxEdits
  /\ file' \in Files \ {file}
  /\ edits' = edits + 1
  /\ UNCHANGED <<now, pc, g_reload, cfg, rules, st, trace, born>>

Sighup ==
  /\ ~g_reload
  /\ g_reload' = TRUE
  /\ UNCHANGED <<now, pc, file, edits, cfg, rules, st, trace, born>>

Turn == LoopTop \/ LoadConfig \/ InstallEngine \/ TakeSample \/ SkipSample
Next == Turn \/ Leave \/ Edit \/ Sighup \/ (pc = "done" /\ UNCHANGED vars)

Spec == Init /\ [][Next]_vars
\* The main thread keeps turning; nobody has to edit, signal or stop.
FairSpec == Spec /\ WF_vars(Turn)
-----------------------------------------------------------------------------
\* Every variable holds a value of what it stands for.
TypeOK ==
  /\ now \in Nat \ {0} /\ pc \in {"top", "load", "install", "sample", "done"}
  /\ g_reload \in BOOLEAN /\ file \in Files /\ edits \in 0..MaxEdits
  /\ cfg \in Files /\ rules \in SUBSET Rules /\ st \in [Rules -> RuleState]
  /\ born \in 0..Len(trace)
  /\ trace \in Seq([t : Nat, met : SUBSET Rules, firing : SUBSET Rules,
                    recovered : SUBSET Rules, pushed : SUBSET Rules])

\* The samples the engine in place has seen.
Mine == born + 1 .. Len(trace)

\* Samples k..i all meet r's condition and the one before k does not.
Streak(r, k, i) == /\ \A m \in k..i : r \in trace[m].met
                   /\ k = born + 1 \/ r \notin trace[k - 1].met

\* A rule fires exactly when its condition has held for its duration without a
\* break, it has not yet fired in that episode, and every earlier firing is at
\* least its cooldown ago: neither early, nor twice, nor forgotten because the
\* cooldown was still running when the duration was reached.
FiringIsExact ==
  \A i \in Mine, r \in rules :
    r \in trace[i].firing <=>
      /\ \E k \in born + 1 .. i :
           /\ Streak(r, k, i)
           /\ trace[i].t - trace[k].t >= Duration[r]
           /\ \A m \in k .. i - 1 : r \notin trace[m].firing
      /\ \A m \in born + 1 .. i - 1 :
           r \in trace[m].firing => trace[i].t - trace[m].t >= Cooldown[r]

\* A recovery is reported exactly once for every episode that fired, at the
\* first sample that no longer meets the condition.
RecoveryIsExact ==
  \A i \in Mine, r \in rules :
    r \in trace[i].recovered <=>
      /\ r \notin trace[i].met
      /\ \E k \in born + 1 .. i - 1 :
           /\ r \in trace[k].firing
           /\ \A m \in k + 1 .. i - 1 : r \in trace[m].met

\* Counting forward from StartHour, past midnight if need be, EndHour comes
\* after the hour of t.
QuietAt(t) ==
  LET length == IF StartHour <= EndHour THEN EndHour - StartHour
                                        ELSE EndHour - StartHour + Hours
  IN  \E k \in 0 .. length - 1 : (StartHour + k) % Hours = t % Hours

\* Critical events are always pushed, others exactly outside the quiet hours.
PushRespectsQuiet ==
  \A i \in DOMAIN trace : \A r \in trace[i].firing \cup trace[i].recovered :
    r \in trace[i].pushed <=> r \in Critical \/ ~QuietAt(trace[i].t)

\* "Reload config without restarting": once SIGHUP has arrived, what the file
\* holds then is what the engine gets, however signals and edits fall into a
\* reload that is under way; unless the file changes again or the loop ends.
ReloadApplied ==
  \A f \in Files \ {Bad} :
    g_reload /\ file = f ~> rules = f \/ file # f \/ pc = "done"
-----------------------------------------------------------------------------
(* What the documents promise and the code does not keep.                  *)

\* "Quiet hours (hold non-critical until morning)": a firing held back in the
\* quiet hours is pushed by the time a later sample finds the rule still firing
\* outside them.
HeldUntilMorning ==
  \A i \in Mine, r \in rules :
    r \in trace[i].firing =>
      \A k \in i + 1 .. Len(trace) :
        (\A m \in i .. k : r \in trace[m].met) /\ ~QuietAt(trace[k].t)
          => \E m \in i .. k : r \in trace[m].pushed
==============================================================================

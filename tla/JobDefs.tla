------------------------------- MODULE JobDefs -------------------------------
(***************************************************************************)
(* Where the daemon's definitions come from and what becomes of them: jobs *)
(* and rules of config.yaml (config/config.cpp), jobs added through the    *)
(* query API (ipc/api.cpp), the rows of table job_defs (db.cpp) and the    *)
(* job list of the scheduler (jobs/scheduler.cpp).  Scheduler.tla treats a *)
(* job as its name; this module is about everything else in it.  The calls *)
(* are atomic here: that they may be taken so is what Scheduler.tla shows. *)
(***************************************************************************)
EXTENDS Cron, Functions

CONSTANTS
  Names,     \* non-empty job names
  Absent,    \* a key that a mapping does not have
  Files,     \* what config.yaml may contain: [jobs, rules], sequences of nodes
  Bodies,    \* bodies of add_job requests
  Times      \* the times (in seconds) that the clock may show

\* A node or a body names a job or has no proper name, and no schedule is taken
\* for a missing one.
Sensible(node) ==
  /\ node.name \in Names \cup {Absent, ""}
  /\ node.schedule # Absent /\ Parses(node.schedule) => Parse(node.schedule) # Absent

\* The times are less than the horizon of a search apart.
ASSUME JobDefsAssumption ==
  /\ Absent # <<>> /\ Names \cap {Absent, ""} = {}
  /\ \A f \in Files : \A k \in DOMAIN f.jobs : Sensible(f.jobs[k])
  /\ \A body \in Bodies : Sensible(body)
  /\ Times \subseteq Nat /\ Times # {}
  /\ \A t, u \in Times : t - u <= 60 * (KMaxMinutes - 1)

VARIABLES
  file,      \* config.yaml as it is on disk
  table,     \* job_defs: a row or NoRow for every name
  up,        \* the daemon runs
  jobs,      \* Scheduler::jobs_, as a set
  rules,     \* AlertEngine::rules_
  next_run,  \* Scheduler::next_run_ (0: no entry)
  now        \* the time

vars == <<file, table, up, jobs, rules, next_run, now>>

NoRow == [name |-> "", command |-> "", schedule_expr |-> <<>>, policy |-> "none",
          timeout |-> 0, retries |-> 0]
-----------------------------------------------------------------------------
(* Job definitions.  A schedule is absent when the job has none.           *)

Policies == {"none", "run_on_wake", "run_now"}

\* missed_run_policy_from_string: anything unknown is none.
PolicyFromString(s) == IF s \in {"run_on_wake", "run_now"} THEN s ELSE "none"

Given(v, default) == IF v = Absent THEN default ELSE v

\* parse_job: what a node must satisfy for it not to throw, and the job.
ConfigJobOK(node) ==
  /\ node.name \notin {Absent, ""} /\ node.command \notin {Absent, ""}
  /\ node.schedule # Absent => Parses(node.schedule)
  /\ node.policy \in Policies \cup {Absent, ""}
  /\ Given(node.timeout, 0) >= 0 /\ Given(node.retries, 0) >= 0

ConfigJob(node) ==
  [name |-> node.name, command |-> node.command,
   schedule |-> IF node.schedule = Absent THEN Absent ELSE Parse(node.schedule),
   schedule_expr |-> Given(node.schedule, <<>>),
   policy |-> PolicyFromString(Given(node.policy, "none")),
   timeout |-> Given(node.timeout, 0), retries |-> Given(node.retries, 0),
   source |-> "config"]

\* parse_rule, with the thresholds left out.
RuleOK(node) ==
  /\ node.name \notin {Absent, ""} /\ node.metric # Absent
  /\ node.condition \in {"greater_than", ">", "less_than", "<", "at_least", ">="}
  /\ node.threshold # Absent
  /\ Given(node.duration, 0) >= 0 /\ Given(node.cooldown, 0) >= 0
RuleOf(node) == [name |-> node.name, metric |-> node.metric,
                 duration |-> Given(node.duration, 0),
                 cooldown |-> Given(node.cooldown, 0)]

Distinct(nodes) == \A i, k \in DOMAIN nodes : nodes[i].name = nodes[k].name => i = k
EachOf(nodes, Op(_)) == [k \in DOMAIN nodes |-> Op(nodes[k])]

\* load_config throws unless every node is right and no name comes twice.
Loads(f) == /\ \A k \in DOMAIN f.jobs : ConfigJobOK(f.jobs[k])
            /\ \A k \in DOMAIN f.rules : RuleOK(f.rules[k])
            /\ Distinct(f.jobs) /\ Distinct(f.rules)

\* The add_job command: str() and num() replace what is missing or of another
\* type (Absent) by a default; a bad schedule is refused.
RequestOK(body) ==
  /\ Given(body.name, "") # "" /\ Given(body.command, "") # ""
  /\ Given(body.schedule, <<>>) # <<>> => Parses(body.schedule)
RequestJob(body) ==
  LET expr == Given(body.schedule, <<>>) IN
  [name |-> body.name, command |-> body.command,
   schedule |-> IF expr = <<>> THEN Absent ELSE Parse(expr),
   schedule_expr |-> expr,
   policy |-> PolicyFromString(Given(body.policy, "")),
   timeout |-> Given(body.timeout, 0), retries |-> Given(body.retries, 0),
   source |-> "ui"]

\* Mutant: the schedule is not written.
DefUnscheduled(job) ==
  [name |-> job.name, command |-> job.command, schedule_expr |-> <<>>,
   policy |-> job.policy, timeout |-> job.timeout, retries |-> job.retries]
DefFromJob(job) ==
  [name |-> job.name, command |-> job.command, schedule_expr |-> job.schedule_expr,
   policy |-> job.policy, timeout |-> job.timeout, retries |-> job.retries]

\* A row whose schedule did not parse would become a job without one.
JobFromDef(def) ==
  [name |-> def.name, command |-> def.command,
   schedule |-> IF Parses(def.schedule_expr) THEN Parse(def.schedule_expr) ELSE Absent,
   schedule_expr |-> def.schedule_expr,
   policy |-> PolicyFromString(def.policy),
   timeout |-> def.timeout, retries |-> def.retries, source |-> "ui"]
-----------------------------------------------------------------------------
(* The table and the job list.                                             *)

UpsertJobDef(def) == table' = [table EXCEPT ![def.name] = def]
DeleteJobDef(n)   == table' = [table EXCEPT ![n] = NoRow]

\* load_job_defs and job_from_def, without the names that are taken.
LoadJobDefs(taken) == {JobFromDef(table[n]) : n \in {m \in Names \ taken : table[m] # NoRow}}

Known(n) == \E job \in jobs : job.name = n
ScheduleOf(n, S) == (CHOOSE job \in S : job.name = n /\ job.schedule # Absent).schedule

\* The entries of next_run_ for the jobs of S.
NextRuns(S) == [n \in Names |->
  IF \E job \in S : job.name = n /\ job.schedule # Absent
  THEN NextAfter(ScheduleOf(n, S), now) ELSE 0]

Init ==
  /\ file \in Files /\ table = [n \in Names |-> NoRow]
  /\ up = FALSE /\ jobs = {} /\ rules = <<>>
  /\ next_run = [n \in Names |-> 0]
  /\ now = First(Times)

\* Mutant: a row is loaded although config.yaml has a job of that name.
StartMerging ==
  /\ ~up /\ Loads(file)
  /\ up' = TRUE
  /\ jobs' = Range(EachOf(file.jobs, ConfigJob)) \cup LoadJobDefs({})
  /\ rules' = EachOf(file.rules, RuleOf)
  /\ next_run' = NextRuns(jobs')
  /\ UNCHANGED <<file, table, now>>
\* main: load_config and the constructors of Scheduler and AlertEngine.  If
\* load_config throws the daemon does not start.
Start ==
  /\ ~up /\ Loads(file)
  /\ up' = TRUE
  /\ jobs' = Range(EachOf(file.jobs, ConfigJob))
               \cup LoadJobDefs({file.jobs[k].name : k \in DOMAIN file.jobs})
  /\ rules' = EachOf(file.rules, RuleOf)
  /\ next_run' = NextRuns(jobs')
  /\ UNCHANGED <<file, table, now>>

\* Exit or crash: memory goes, the file and the table stay.
End ==
  /\ up /\ up' = FALSE
  /\ jobs' = {} /\ rules' = <<>> /\ next_run' = [n \in Names |-> 0]
  /\ UNCHANGED <<file, table, now>>

\* Somebody edits config.yaml.
Edit == file' \in Files \ {file} /\ UNCHANGED <<table, up, jobs, rules, next_run, now>>

\* SIGHUP: rules are read again, jobs are not; a file that does not load changes
\* nothing.
Reload ==
  /\ up /\ Loads(file)
  /\ rules' = EachOf(file.rules, RuleOf)
  /\ UNCHANGED <<file, table, up, jobs, next_run, now>>

AddJob(body) ==
  /\ up /\ RequestOK(body) /\ ~Known(body.name)
  /\ LET job == RequestJob(body) IN
       /\ UpsertJobDef(DefFromJob(job))
       /\ jobs' = jobs \cup {job}
       /\ next_run' = [next_run EXCEPT ![job.name] = NextRuns({job})[job.name]]
  /\ UNCHANGED <<file, up, rules, now>>

\* Mutant: the source is not checked.
RemoveAnyJob(n) ==
  /\ up /\ Known(n)
  /\ DeleteJobDef(n)
  /\ jobs' = {job \in jobs : job.name # n}
  /\ next_run' = [next_run EXCEPT ![n] = 0]
  /\ UNCHANGED <<file, up, rules, now>>
RemoveJob(n) ==
  /\ up /\ \E job \in jobs : job.name = n /\ job.source = "ui"
  /\ DeleteJobDef(n)
  /\ jobs' = {job \in jobs : job.name # n}
  /\ next_run' = [next_run EXCEPT ![n] = 0]
  /\ UNCHANGED <<file, up, rules, now>>

\* Time passes, and the scheduler's next tick moves on what is due by then.
Tick ==
  /\ now' \in {t \in Times : t > now}
  /\ next_run' = [n \in Names |->
       IF next_run[n] = 0 \/ next_run[n] > now' THEN next_run[n]
       ELSE NextAfter(ScheduleOf(n, jobs), now')]
  /\ UNCHANGED <<file, table, up, jobs, rules>>

Next == \/ Start \/ End \/ Edit \/ Reload \/ Tick
        \/ \E body \in Bodies : AddJob(body)
        \/ \E n \in Names : RemoveJob(n)

Spec == Init /\ [][Next]_vars
-----------------------------------------------------------------------------
\* A restart changes nothing about the jobs managed at run time: each one is,
\* in every field and in its parsed schedule, what its row will be read back
\* as, and a name without such a job has no row but one that config.yaml
\* shadows.
RestartKeepsJobs ==
  up => \A n \in Names :
    /\ \A job \in jobs : job.name = n /\ job.source = "ui" => job = JobFromDef(table[n])
    /\ table[n] # NoRow => Known(n)

\* Every name stands for one job or rule only, no job has lost the schedule it
\* shows, and what config.yaml defines has no negative limit.
DefinitionsSound ==
  /\ \A job, other \in jobs : job.name = other.name => job = other
  /\ Distinct(rules)
  /\ \A job \in jobs : job.schedule = Absent <=> job.schedule_expr = <<>>
  /\ \A job \in jobs : job.source = "config" => job.timeout >= 0 /\ job.retries >= 0

\* The row of a job that config.yaml shadows waits unchanged, whatever is
\* added, removed or reloaded meanwhile, until config.yaml gives the name back.
ShadowedRowKept ==
  [][\A job \in jobs : job.source = "config" => table'[job.name] = table[job.name]]_vars

\* The forward and the backward search agree: from now on, a missed occurrence
\* will be found at t exactly if next_run_ has come by then.
MissedMeetsNextRun ==
  \A job \in jobs : job.schedule # Absent =>
    \A t \in {u \in Times : u >= now} :
      DetectMissedRun(job.schedule, now, t) # 0 <=>
        next_run[job.name] # 0 /\ next_run[job.name] <= t
==============================================================================

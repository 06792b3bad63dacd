-------------------------- MODULE AlertEngineProofs --------------------------
(***************************************************************************)
(* What the alert engine does for any rules, clock and sequence of samples *)
(* and reloads.  The engine keeps four values per rule; EngineInv says     *)
(* what they tell about the samples it has seen, and that is what makes    *)
(* its decisions the ones that FiringIsExact and RecoveryIsExact ask for.  *)
(***************************************************************************)
EXTENDS AlertEngine, TLAPS

L == Len(trace)

\* since_: the time of the sample that began the streak which lasts until now.
SinceInv(r) ==
  /\ st[r].since # 0 <=> L > born /\ r \in trace[L].met
  /\ st[r].since # 0 => \E k \in Mine : Streak(r, k, L) /\ trace[k].t = st[r].since

\* notified: the rule fired during that streak.
NotifiedInv(r) ==
  st[r].notified <=> \E m \in Mine : r \in trace[m].firing /\ \A i \in m..L : r \in trace[i].met

\* last_fired: the time of the last firing, which is the latest one too.
LastInv(r) ==
  /\ \A m \in Mine : r \in trace[m].firing => trace[m].t <= st[r].last_fired
  /\ st[r].last_fired # 0 =>
       \E m \in Mine : r \in trace[m].firing /\ trace[m].t = st[r].last_fired

EngineInv == \A r \in rules : SinceInv(r) /\ NotifiedInv(r) /\ LastInv(r)

\* Samples are taken at positive times, and only what is met fires.
TraceInv == \A i \in DOMAIN trace : trace[i].t > 0 /\ trace[i].firing \subseteq trace[i].met

PcInv == pc = "install" => cfg # Bad

Inv == TypeOK /\ PcInv /\ TraceInv /\ EngineInv /\ FiringIsExact /\ RecoveryIsExact
-----------------------------------------------------------------------------
Event == [t : Nat, met : SUBSET Rules, firing : SUBSET Rules, recovered : SUBSET Rules,
          pushed : SUBSET Rules]

\* The rest of the state when no sample is taken and no engine is made.
LEMMA QuietStep ==
  ASSUME Inv, UNCHANGED <<rules, st, trace, born>>
  PROVE  TraceInv' /\ EngineInv' /\ FiringIsExact' /\ RecoveryIsExact'
  BY DEF Inv, TraceInv, EngineInv, SinceInv, NotifiedInv, LastInv, FiringIsExact,
     RecoveryIsExact,
     Mine, Streak, L

\* A sample appended to the trace.
LEMMA SampleFacts ==
  ASSUME TypeOK, NEW t \in Nat \ {0}, NEW reading \in Readings, Sample(t, reading)
  PROVE  /\ L \in Nat /\ L' = L + 1 /\ DOMAIN trace = 1..L /\ DOMAIN trace' = 1..(L + 1)
         /\ \A i \in 1..L : trace'[i] = trace[i]
         /\ trace'[L + 1].t = t
         /\ trace'[L + 1].met = reading \cap rules
         /\ trace'[L + 1].firing = {r \in reading \cap rules : Fires(r, t)}
         /\ trace'[L + 1].recovered = {r \in rules \ reading : st[r].notified}
         /\ trace'[L + 1].pushed =
              {r \in trace'[L + 1].firing \cup trace'[L + 1].recovered :
                 r \in Critical \/ ~InQuietHours(t)}
         /\ trace' \in Seq(Event)
PROOF
<1> DEFINE met == reading \cap rules
           firing == {r \in met : Fires(r, t)}
           recovered == {r \in rules \ met : st[r].notified}
           pushed == {r \in firing \cup recovered : r \in Critical \/ ~InQuietHours(t)}
           e == [t |-> t, met |-> met, firing |-> firing, recovered |-> recovered, pushed |-> pushed]
<1>1. trace' = Append(trace, e)
  BY Zenon DEF Sample
<1>2. met \subseteq Rules /\ firing \subseteq met /\ recovered \subseteq Rules /\ pushed \subseteq Rules
  BY AlertEngineAssumption DEF TypeOK
<1>3. /\ e.t = t /\ e.met = met /\ e.firing = firing /\ e.recovered = recovered /\ e.pushed = pushed
      /\ e \in Event
  <2> HIDE DEF met, firing, recovered, pushed
  <2> QED BY <1>2 DEF Event
<1>4. trace \in Seq(Event)
  BY DEF TypeOK, Event
<1>5. recovered = {r \in rules \ reading : st[r].notified}
  BY Zenon
<1> HIDE DEF e
<1>6. /\ L \in Nat /\ L' = L + 1 /\ DOMAIN trace = 1..L /\ DOMAIN trace' = 1..(L + 1)
      /\ \A i \in 1..L : trace'[i] = trace[i]
      /\ trace'[L + 1] = e
      /\ trace' \in Seq(Event)
  BY <1>1, <1>3, <1>4 DEF L
<1> QED BY <1>3, <1>5, <1>6

\* What a sample leaves in the state of a rule.
LEMMA StateFacts ==
  ASSUME TypeOK, NEW t \in Nat \ {0}, NEW reading \in Readings, Sample(t, reading),
         NEW r \in rules
  PROVE  /\ r \in reading => /\ st'[r].since = Since(r, t)
                             /\ st'[r].notified <=> st[r].notified \/ Fires(r, t)
                             /\ st'[r].last_fired = IF Fires(r, t) THEN t ELSE st[r].last_fired
         /\ r \notin reading => /\ st'[r].since = 0
                                /\ ~st'[r].notified
                                /\ st'[r].last_fired = st[r].last_fired
PROOF
<1>1. r \in Rules /\ DOMAIN st = Rules /\ st[r] \in RuleState
  BY DEF TypeOK
<1>2. st'[r] = IF r \in reading \cap rules THEN Met(r, t)
               ELSE IF r \in rules THEN NotMet(r) ELSE st[r]
  BY <1>1, Zenon DEF Sample
<1>3. CASE r \in reading
  <2> DEFINE f == st[r].firing \/ t - Since(r, t) >= Duration[r]
             n == st[r].notified \/ Fires(r, t)
             l == IF Fires(r, t) THEN t ELSE st[r].last_fired
  <2>1. st'[r] = [since |-> Since(r, t), firing |-> f, notified |-> n, last_fired |-> l]
    BY <1>2, <1>3, Zenon DEF Met
  <2> HIDE DEF f, n, l
  <2>2. st'[r].since = Since(r, t) /\ st'[r].notified = n /\ st'[r].last_fired = l
    BY <2>1
  <2> QED BY <1>3, <2>2, Zenon DEF n, l
<1>4. CASE r \notin reading
  <2>1. st'[r] = NotMet(r)
    BY <1>2, <1>4
  <2>2. ~st'[r].notified
    BY <1>1, <2>1, Zenon DEF NotMet, RuleState
  <2>3. st'[r].since = 0 /\ st'[r].last_fired = st[r].last_fired
    BY <1>1, <2>1, SMT DEF NotMet, RuleState
  <2> QED BY <1>4, <2>2, <2>3, Zenon
<1> QED BY <1>3, <1>4

LEMMA StateType ==
  ASSUME TypeOK, NEW t \in Nat \ {0}, NEW reading \in Readings, Sample(t, reading)
  PROVE  st' \in [Rules -> RuleState]
PROOF
<1>1. ASSUME NEW r \in Rules PROVE st[r] \in RuleState /\ Met(r, t) \in RuleState /\ NotMet(r) \in RuleState
  <2>1. st[r] \in RuleState
    BY DEF TypeOK
  <2>2. /\ st[r].since \in Nat /\ st[r].last_fired \in Nat
        /\ st[r] = [since |-> st[r].since, firing |-> st[r].firing, notified |-> st[r].notified,
                    last_fired |-> st[r].last_fired]
    BY <2>1 DEF RuleState
  <2>3. st[r].firing \in BOOLEAN /\ st[r].notified \in BOOLEAN
    BY <2>1, Zenon DEF RuleState
  <2>4. Since(r, t) \in Nat /\ (IF Fires(r, t) THEN t ELSE st[r].last_fired) \in Nat
    BY <2>2 DEF Since
  <2>5. /\ (st[r].firing \/ t - Since(r, t) >= Duration[r]) \in BOOLEAN
        /\ (st[r].notified \/ Fires(r, t)) \in BOOLEAN
    BY Zenon
  <2>6. Met(r, t) \in RuleState
    BY <2>4, <2>5, Zenon DEF Met, RuleState
  <2>7. NotMet(r) \in RuleState
    BY <2>1, Zenon DEF NotMet, RuleState
  <2> QED BY <2>1, <2>6, <2>7
<1>2. st' = [r \in Rules |-> IF r \in reading \cap rules THEN Met(r, t)
                             ELSE IF r \in rules THEN NotMet(r) ELSE st[r]]
  BY Zenon DEF Sample
<1> QED BY <1>1, <1>2, Zenon
-----------------------------------------------------------------------------
(* A sample, for one rule of the engine.  n is its index, and the samples  *)
(* before it are as they were.                                             *)

LEMMA SampleRule ==
  ASSUME Inv, NEW t \in Nat \ {0}, NEW reading \in Readings, Sample(t, reading),
         born' = born, rules' = rules, NEW r \in rules
  PROVE  /\ SinceInv(r)' /\ NotifiedInv(r)' /\ LastInv(r)'
         /\ r \in trace'[L + 1].firing <=>
              /\ \E k \in born + 1 .. L + 1 :
                   /\ Streak(r, k, L)'
                   /\ t - trace'[k].t >= Duration[r]
                   /\ \A m \in k .. L : r \notin trace'[m].firing
              /\ \A m \in Mine : r \in trace'[m].firing => t - trace'[m].t >= Cooldown[r]
         /\ r \in trace'[L + 1].recovered <=>
              /\ r \notin trace'[L + 1].met
              /\ \E k \in Mine : /\ r \in trace'[k].firing
                                 /\ \A m \in k + 1 .. L : r \in trace'[m].met
PROOF
<1> USE DEF L
<1>1. /\ Len(trace) \in Nat /\ Len(trace') = Len(trace) + 1 /\ DOMAIN trace = 1..Len(trace)
      /\ \A i \in 1..Len(trace) : trace'[i] = trace[i]
      /\ trace'[Len(trace) + 1].t = t
      /\ trace'[Len(trace) + 1].met = reading \cap rules
      /\ trace'[Len(trace) + 1].firing = {q \in reading \cap rules : Fires(q, t)}
      /\ trace'[Len(trace) + 1].recovered = {q \in rules \ reading : st[q].notified}
  BY SampleFacts DEF Inv
<1>2. born \in 0..Len(trace) /\ Duration[r] \in Nat /\ Cooldown[r] \in Nat
  BY AlertEngineAssumption DEF Inv, TypeOK
<1>3. \A i \in 1..Len(trace) : trace[i].t \in Nat \ {0} /\ trace[i].firing \subseteq trace[i].met
  <2>1. trace \in Seq(Event)
    BY DEF Inv, TypeOK, Event
  <2>2. \A i \in 1..Len(trace) : trace[i] \in Event
    BY <2>1
  <2>3. \A i \in 1..Len(trace) : trace[i].t \in Nat
    BY <2>2 DEF Event
  <2>4. TraceInv
    BY DEF Inv
  <2> QED BY <1>1, <2>3, <2>4 DEF TraceInv
<1>4. st[r].since \in Nat /\ st[r].last_fired \in Nat
  BY DEF Inv, TypeOK, RuleState
<1>5. SinceInv(r) /\ NotifiedInv(r) /\ LastInv(r)
  BY DEF Inv, EngineInv
<1>6. /\ r \in trace'[Len(trace) + 1].met <=> r \in reading
      /\ r \in trace'[Len(trace) + 1].firing <=> r \in reading /\ Fires(r, t)
      /\ r \in trace'[Len(trace) + 1].recovered <=> r \notin reading /\ st[r].notified
  BY <1>1, Zenon
<1>7. /\ r \in reading => /\ st'[r].since = Since(r, t)
                          /\ st'[r].notified <=> st[r].notified \/ Fires(r, t)
                          /\ st'[r].last_fired = IF Fires(r, t) THEN t ELSE st[r].last_fired
      /\ r \notin reading => /\ st'[r].since = 0
                             /\ ~st'[r].notified
                             /\ st'[r].last_fired = st[r].last_fired
  BY StateFacts DEF Inv
<1>8. SinceInv(r)'
  <2>1. CASE r \notin reading
    BY <1>1, <1>2, <1>6, <1>7, <2>1 DEF SinceInv
  <2>2. CASE r \in reading /\ st[r].since = 0
    <3>1. ~(Len(trace) > born /\ r \in trace[Len(trace)].met)
      BY <1>5, <2>2 DEF SinceInv
    <3>2. Streak(r, Len(trace), Len(trace))'
      BY <1>1, <1>2, <1>6, <2>2, <3>1 DEF Streak
    <3>3. st'[r].since = t
      BY <1>7, <2>2 DEF Since
    <3>4. Len(trace) + 1 \in Mine'
      BY <1>1, <1>2 DEF Mine
    <3> QED BY <1>1, <1>2, <1>6, <2>2, <3>2, <3>3, <3>4 DEF SinceInv
  <2>3. CASE r \in reading /\ st[r].since # 0
    <3>1. PICK k \in Mine : Streak(r, k, Len(trace)) /\ trace[k].t = st[r].since
      BY <1>5, <2>3 DEF SinceInv
    <3>2. Streak(r, k, Len(trace))'
      <4>1. \A m \in k..Len(trace) + 1 : m \in k..Len(trace) \/ m = Len(trace) + 1
        BY <1>1, <1>2, <3>1 DEF Mine
      <4>2. \A m \in k..Len(trace) + 1 : r \in trace'[m].met
        BY <1>1, <1>2, <1>6, <2>3, <3>1, <4>1 DEF Streak, Mine
      <4>3. k = born + 1 \/ r \notin trace'[k - 1].met
        BY <1>1, <1>2, <3>1 DEF Streak, Mine
      <4> QED BY <1>1, <4>2, <4>3 DEF Streak
    <3>3. k \in Mine' /\ trace'[k].t = st'[r].since
      BY <1>1, <1>2, <1>7, <2>3, <3>1 DEF Since, Mine
    <3>4. st'[r].since # 0
      BY <1>7, <2>3 DEF Since
    <3> QED BY <1>1, <1>2, <1>6, <2>3, <3>2, <3>3, <3>4 DEF SinceInv
  <2> QED BY <2>1, <2>2, <2>3
<1>9. NotifiedInv(r)'
  <2>1. CASE r \notin reading
    BY <1>1, <1>2, <1>6, <1>7, <2>1 DEF NotifiedInv, Mine
  <2>2. CASE r \in reading
    <3> DEFINE Held(m) == r \in trace[m].firing /\ \A i \in m..Len(trace) : r \in trace[i].met
               HeldNow(m) == /\ r \in trace'[m].firing
                             /\ \A i \in m..Len(trace) + 1 : r \in trace'[i].met
    <3>1. \A m \in Mine : HeldNow(m) <=> Held(m)
      BY <1>1, <1>2, <1>6, <2>2 DEF Mine
    <3>2. HeldNow(Len(trace) + 1) <=> Fires(r, t)
      BY <1>1, <1>2, <1>6, <2>2
    <3>3. st'[r].notified <=> (\E m \in Mine : Held(m)) \/ Fires(r, t)
      BY <1>5, <1>7, <2>2, Zenon DEF NotifiedInv
    <3>4. Mine' = Mine \cup {Len(trace) + 1}
      BY <1>1, <1>2 DEF Mine
    <3> HIDE DEF Held
    <3>5. st'[r].notified <=> \E m \in Mine' : HeldNow(m)
      <4> HIDE DEF HeldNow
      <4> QED BY <3>1, <3>2, <3>3, <3>4, Zenon
    <3> QED BY <1>1, <3>5, Zenon DEF NotifiedInv
  <2> QED BY <2>1, <2>2
<1>10. LastInv(r)'
  <2>1. CASE ~(r \in reading /\ Fires(r, t))
    <3>1. st'[r].last_fired = st[r].last_fired /\ r \notin trace'[Len(trace) + 1].firing
      BY <1>6, <1>7, <2>1
    <3>2. \A m \in Mine' : m \in Mine \/ m = Len(trace) + 1
      BY <1>1, <1>2 DEF Mine
    <3> QED BY <1>1, <1>2, <1>5, <3>1, <3>2 DEF LastInv, Mine
  <2>2. CASE r \in reading /\ Fires(r, t)
    <3>1. st'[r].last_fired = t /\ r \in trace'[Len(trace) + 1].firing
      BY <1>6, <1>7, <2>2
    <3>2. Len(trace) + 1 \in Mine' /\ \A m \in Mine' : m \in Mine \/ m = Len(trace) + 1
      BY <1>1, <1>2 DEF Mine
    <3>3. \A m \in Mine : r \in trace[m].firing => trace[m].t <= t
      BY SMTT(30), <1>1, <1>2, <1>3, <1>4, <1>5, <2>2, AlertEngineAssumption
         DEF LastInv, Fires, Mine
    <3> QED BY <1>1, <1>2, <3>1, <3>2, <3>3 DEF LastInv, Mine
  <2> QED BY <2>1, <2>2
<1>11. ASSUME r \in trace'[Len(trace) + 1].firing
       PROVE  /\ \E k \in born + 1 .. Len(trace) + 1 :
                   /\ Streak(r, k, Len(trace))'
                   /\ t - trace'[k].t >= Duration[r]
                   /\ \A m \in k .. Len(trace) : r \notin trace'[m].firing
              /\ \A m \in Mine : r \in trace'[m].firing => t - trace'[m].t >= Cooldown[r]
  <2>1. /\ r \in reading /\ t - Since(r, t) >= Duration[r]
        /\ st[r].last_fired = 0 \/ t - st[r].last_fired >= Cooldown[r]
    BY <1>6, <1>11 DEF Fires
  <2>2. ~st[r].notified
    BY <1>6, <1>11, Zenon DEF Fires
  <2>3. \A m \in Mine : r \in trace'[m].firing => t - trace'[m].t >= Cooldown[r]
    BY SMTT(30), <1>1, <1>2, <1>3, <1>4, <1>5, <2>1 DEF LastInv, Mine
  <2>4. PICK k \in Mine' : Streak(r, k, Len(trace))' /\ trace'[k].t = Since(r, t)
    <3>1. st'[r].since = Since(r, t) /\ Since(r, t) # 0
      BY <1>4, <1>7, <2>1 DEF Since
    <3> QED BY <1>1, <1>8, <3>1 DEF SinceInv
  <2>5. \A m \in Mine : r \in trace[m].firing => \E i \in m..Len(trace) : r \notin trace[i].met
    BY <1>5, <2>2, Zenon DEF NotifiedInv
  <2>6. \A m \in k .. Len(trace) : r \notin trace'[m].firing
    BY <1>1, <1>2, <2>4, <2>5 DEF Streak, Mine
  <2> QED BY <1>1, <1>2, <2>1, <2>3, <2>4, <2>6 DEF Mine
<1>12. ASSUME NEW k \in born + 1 .. Len(trace) + 1,
              Streak(r, k, Len(trace))',
              t - trace'[k].t >= Duration[r],
              \A m \in k .. Len(trace) : r \notin trace'[m].firing,
              \A m \in Mine : r \in trace'[m].firing => t - trace'[m].t >= Cooldown[r]
       PROVE  r \in trace'[Len(trace) + 1].firing
  <2>1. r \in reading
    BY <1>1, <1>2, <1>6, <1>12 DEF Streak
  <2>2. PICK j \in Mine' : Streak(r, j, Len(trace))' /\ trace'[j].t = Since(r, t)
    <3>1. st'[r].since = Since(r, t) /\ Since(r, t) # 0
      BY <1>4, <1>7, <2>1 DEF Since
    <3> QED BY <1>1, <1>8, <3>1 DEF SinceInv
  <2>3. j = k
    <3>1. /\ j \in born + 1 .. Len(trace) + 1
          /\ \A m \in k..Len(trace) + 1 : r \in trace'[m].met
          /\ \A m \in j..Len(trace) + 1 : r \in trace'[m].met
          /\ k = born + 1 \/ r \notin trace'[k - 1].met
          /\ j = born + 1 \/ r \notin trace'[j - 1].met
      BY <1>1, <1>12, <2>2 DEF Streak, Mine
    <3>2. ~(j < k)
      BY <1>1, <1>2, <3>1
    <3>3. ~(k < j)
      BY <1>1, <1>2, <3>1
    <3> QED BY <1>1, <1>2, <3>1, <3>2, <3>3
  <2>4. \A m \in Mine : r \in trace[m].firing => \E i \in m..Len(trace) : r \notin trace[i].met
    <3> SUFFICES ASSUME NEW m \in Mine, r \in trace[m].firing,
                        \A i \in m..Len(trace) : r \in trace[i].met
                 PROVE  FALSE
      OBVIOUS
    <3>1. m < k
      BY <1>1, <1>2, <1>12 DEF Mine
    <3>2. k # born + 1 /\ k - 1 \in m..Len(trace)
      BY <1>1, <1>2, <3>1 DEF Mine
    <3> QED BY <1>1, <1>2, <1>12, <3>2 DEF Streak, Mine
  <2>5. ~st[r].notified
    BY <1>5, <2>4, Zenon DEF NotifiedInv
  <2>6. st[r].last_fired = 0 \/ t - st[r].last_fired >= Cooldown[r]
    BY <1>1, <1>2, <1>5, <1>12 DEF LastInv, Mine
  <2>7. Fires(r, t)
    BY <1>12, <2>2, <2>3, <2>5, <2>6, Zenon DEF Fires
  <2> QED BY <1>6, <2>1, <2>7
<1>13. r \in trace'[Len(trace) + 1].recovered <=>
         /\ r \notin trace'[Len(trace) + 1].met
         /\ \E k \in Mine : /\ r \in trace'[k].firing
                            /\ \A m \in k + 1 .. Len(trace) : r \in trace'[m].met
  <2> DEFINE Held(k) == r \in trace[k].firing /\ \A m \in k..Len(trace) : r \in trace[m].met
             After(k) == r \in trace'[k].firing /\ \A m \in k + 1 .. Len(trace) : r \in trace'[m].met
  <2>1. ASSUME NEW k \in Mine PROVE Held(k) <=> After(k)
    <3>1. k \in 1..Len(trace) /\ k..Len(trace) = {k} \cup (k + 1 .. Len(trace))
      BY <1>1, <1>2 DEF Mine
    <3>2. \A m \in {k} \cup (k + 1 .. Len(trace)) : m \in 1..Len(trace)
      BY <1>1, <3>1
    <3> QED BY <1>1, <1>3, <3>1, <3>2
  <2>2. st[r].notified <=> \E k \in Mine : Held(k)
    BY <1>5, Zenon DEF NotifiedInv
  <2> HIDE DEF Held
  <2> QED BY <1>6, <2>1, <2>2, Zenon
<1> HIDE DEF L
<1> QED BY <1>8, <1>9, <1>10, <1>11, <1>12, <1>13 DEF L
-----------------------------------------------------------------------------
LEMMA SampleStep ==
  ASSUME Inv, NEW t \in Nat \ {0}, NEW reading \in Readings, Sample(t, reading),
         born' = born, rules' = rules
  PROVE  TraceInv' /\ EngineInv' /\ FiringIsExact' /\ RecoveryIsExact'
PROOF
<1>1. /\ L \in Nat /\ L' = L + 1 /\ DOMAIN trace = 1..L /\ DOMAIN trace' = 1..(L + 1)
      /\ \A i \in 1..L : trace'[i] = trace[i]
      /\ trace'[L + 1].t = t
      /\ trace'[L + 1].firing \subseteq trace'[L + 1].met
  BY SampleFacts DEF Inv
<1>2. TraceInv'
  BY <1>1 DEF Inv, TraceInv
<1>3. born \in 0..L
  BY DEF Inv, TypeOK, L
<1>4. Mine = born + 1 .. L /\ Mine' = born + 1 .. L + 1
  BY <1>1 DEF Mine, L
<1>5. EngineInv'
  BY SampleRule DEF EngineInv
<1>6. ASSUME NEW i \in born + 1 .. L, NEW k \in born + 1 .. i, NEW r
      PROVE  Streak(r, k, i) <=> /\ \A m \in k..i : r \in trace'[m].met
                                 /\ k = born + 1 \/ r \notin trace'[k - 1].met
  BY SMTT(30), <1>1, <1>3, <1>6 DEF Streak
<1>7. FiringIsExact'
  <2> SUFFICES ASSUME NEW i \in born + 1 .. L + 1, NEW r \in rules
               PROVE  r \in trace'[i].firing <=>
                        /\ \E k \in born + 1 .. i :
                             /\ \A m \in k..i : r \in trace'[m].met
                             /\ k = born + 1 \/ r \notin trace'[k - 1].met
                             /\ trace'[i].t - trace'[k].t >= Duration[r]
                             /\ \A m \in k .. i - 1 : r \notin trace'[m].firing
                        /\ \A m \in born + 1 .. i - 1 :
                             r \in trace'[m].firing => trace'[i].t - trace'[m].t >= Cooldown[r]
    BY SMTT(30), <1>1, <1>4 DEF FiringIsExact, Streak
  <2>1. CASE i \in born + 1 .. L
    <3>1. /\ i \in 1..L /\ \A m \in born + 1 .. i : m \in 1..L
          /\ \A m \in born + 1 .. i - 1 : m \in 1..L
          /\ \A k \in born + 1 .. i : \A m \in k .. i - 1 : m \in 1..L
      BY <1>1, <1>3, <2>1
    <3>2. r \in trace[i].firing <=>
            /\ \E k \in born + 1 .. i :
                 /\ Streak(r, k, i)
                 /\ trace[i].t - trace[k].t >= Duration[r]
                 /\ \A m \in k .. i - 1 : r \notin trace[m].firing
            /\ \A m \in born + 1 .. i - 1 :
                 r \in trace[m].firing => trace[i].t - trace[m].t >= Cooldown[r]
      BY <1>4, <2>1 DEF Inv, FiringIsExact
    <3>3. \A k \in born + 1 .. i :
            (\A m \in k .. i - 1 : r \notin trace[m].firing) <=>
              (\A m \in k .. i - 1 : r \notin trace'[m].firing)
      BY <1>1, <3>1
    <3>4. \A k \in born + 1 .. i : trace'[k] = trace[k]
      BY <1>1, <3>1
    <3>5. trace'[i] = trace[i] /\ \A m \in born + 1 .. i - 1 : trace'[m] = trace[m]
      BY <1>1, <3>1
    <3>6. \A k \in born + 1 .. i :
            /\ Streak(r, k, i)
            /\ trace[i].t - trace[k].t >= Duration[r]
            /\ \A m \in k .. i - 1 : r \notin trace[m].firing
            <=>
            /\ \A m \in k..i : r \in trace'[m].met
            /\ k = born + 1 \/ r \notin trace'[k - 1].met
            /\ trace'[i].t - trace'[k].t >= Duration[r]
            /\ \A m \in k .. i - 1 : r \notin trace'[m].firing
      BY <1>6, <2>1, <3>3, <3>4, <3>5
    <3> QED BY <3>2, <3>5, <3>6
  <2>2. CASE i = L + 1
    <3>1. r \in trace'[L + 1].firing <=>
            /\ \E k \in born + 1 .. L + 1 :
                 /\ Streak(r, k, L)'
                 /\ t - trace'[k].t >= Duration[r]
                 /\ \A m \in k .. L : r \notin trace'[m].firing
            /\ \A m \in Mine : r \in trace'[m].firing => t - trace'[m].t >= Cooldown[r]
      BY SampleRule
    <3>2. \A k \in born + 1 .. L + 1 :
            Streak(r, k, L)' <=> /\ \A m \in k .. L + 1 : r \in trace'[m].met
                                 /\ k = born + 1 \/ r \notin trace'[k - 1].met
      BY <1>1 DEF Streak
    <3>3. i - 1 = L
      BY <1>1, <2>2
    <3> QED BY <1>1, <1>4, <2>2, <3>1, <3>2, <3>3
  <2> QED BY <1>1, <1>3, <2>1, <2>2
<1>8. RecoveryIsExact'
  <2> SUFFICES ASSUME NEW i \in born + 1 .. L + 1, NEW r \in rules
               PROVE  r \in trace'[i].recovered <=>
                        /\ r \notin trace'[i].met
                        /\ \E k \in born + 1 .. i - 1 :
                             /\ r \in trace'[k].firing
                             /\ \A m \in k + 1 .. i - 1 : r \in trace'[m].met
    BY <1>1, <1>4 DEF RecoveryIsExact
  <2>1. CASE i \in born + 1 .. L
    <3>1. /\ i \in 1..L /\ \A m \in born + 1 .. i - 1 : m \in 1..L
          /\ \A k \in born + 1 .. i - 1 : \A m \in k + 1 .. i - 1 : m \in 1..L
      BY <1>1, <1>3, <2>1
    <3> QED BY <1>1, <1>4, <2>1, <3>1 DEF Inv, RecoveryIsExact
  <2>2. CASE i = L + 1
    <3>1. i - 1 = L
      BY <1>1, <2>2
    <3> QED BY <1>4, <2>2, <3>1, SampleRule
  <2> QED BY <1>1, <1>3, <2>1, <2>2
<1> QED BY <1>2, <1>5, <1>7, <1>8

LEMMA InitInv == Init => Inv
PROOF
<1> SUFFICES ASSUME Init PROVE Inv
  OBVIOUS
<1>1. st \in [Rules -> RuleState]
  <2>1. ASSUME NEW r \in Rules
        PROVE  [since |-> 0, firing |-> FALSE, notified |-> FALSE, last_fired |-> 0] \in RuleState
    BY Zenon, 0 \in Nat DEF RuleState
  <2> QED BY <2>1, Zenon DEF Init, NewState
<1>2. TypeOK
  <2>1. g_reload \in BOOLEAN
    BY Zenon DEF Init
  <2> QED BY <1>1, <2>1, AlertEngineAssumption DEF Init, TypeOK
<1>3. PcInv
  BY DEF Init, PcInv
<1>4. trace = <<>> /\ born = 0 /\ Len(trace) = 0 /\ Mine = {}
  BY DEF Init, Mine
<1>5. TraceInv /\ FiringIsExact /\ RecoveryIsExact
  BY <1>4 DEF TraceInv, FiringIsExact, RecoveryIsExact
<1>6. EngineInv
  <2> SUFFICES ASSUME NEW r \in rules PROVE SinceInv(r) /\ NotifiedInv(r) /\ LastInv(r)
    BY DEF EngineInv
  <2>1. st[r].since = 0 /\ st[r].last_fired = 0
    BY <1>2 DEF Init, NewState, TypeOK
  <2>2. ~st[r].notified
    BY <1>2, Zenon DEF Init, NewState, TypeOK
  <2>3. NotifiedInv(r)
    BY <1>4, <2>2, Zenon DEF NotifiedInv
  <2> QED BY <1>4, <2>1, <2>3 DEF SinceInv, LastInv, L
<1> QED BY <1>2, <1>3, <1>5, <1>6 DEF Inv

\* in_quiet_hours decides by comparing hours what counting forward says.
LEMMA QuietHours == ASSUME NEW t \in Nat PROVE InQuietHours(t) <=> QuietAt(t)
PROOF
<1> DEFINE h == t % Hours
<1>1. Hours \in Nat \ {0} /\ StartHour \in 0..Hours /\ EndHour \in 0..Hours
  BY AlertEngineAssumption
<1>2. h \in 0..Hours - 1
  BY <1>1
<1>3. \A x \in 0 .. 2 * Hours - 1 : x % Hours = IF x < Hours THEN x ELSE x - Hours
  BY <1>1
<1> DEFINE length == IF StartHour <= EndHour THEN EndHour - StartHour
                                            ELSE EndHour - StartHour + Hours
<1>4. QuietAt(t) <=> \E k \in 0 .. length - 1 : (StartHour + k) % Hours = h
  BY DEF QuietAt
<1> HIDE DEF h
<1>5. CASE StartHour <= EndHour
  <2>1. \A k \in 0 .. length - 1 : (StartHour + k) % Hours = StartHour + k
    BY <1>1, <1>3, <1>5
  <2>2. h >= StartHour /\ h < EndHour <=> h - StartHour \in 0 .. length - 1
    BY <1>1, <1>2, <1>5
  <2>3. QuietAt(t) <=> h - StartHour \in 0 .. length - 1
    <3> HIDE DEF length
    <3>1. ASSUME h - StartHour \in 0 .. length - 1 PROVE QuietAt(t)
      BY <1>1, <1>2, <1>4, <2>1, <3>1
    <3>2. ASSUME NEW k \in 0 .. length - 1, (StartHour + k) % Hours = h
          PROVE  k = h - StartHour
      BY <1>1, <1>2, <2>1, <3>2
    <3> QED BY <1>4, <3>1, <3>2
  <2> QED BY <1>1, <1>2, <1>5, <2>2, <2>3 DEF InQuietHours, h
<1>6. CASE StartHour > EndHour
  <2>1. \A k \in 0 .. length - 1 :
          (StartHour + k) % Hours = IF StartHour + k < Hours THEN StartHour + k
                                    ELSE StartHour + k - Hours
    BY <1>1, <1>3, <1>6
  <2>2. h >= StartHour <=> h - StartHour \in 0 .. length - 1
    BY <1>1, <1>2, <1>6
  <2>3. h < EndHour <=> h - StartHour + Hours \in 0 .. length - 1
    BY <1>1, <1>2, <1>6
  <2>4. QuietAt(t) <=> \/ h - StartHour \in 0 .. length - 1
                       \/ h - StartHour + Hours \in 0 .. length - 1
    <3> HIDE DEF length
    <3>1. ASSUME h - StartHour \in 0 .. length - 1 PROVE QuietAt(t)
      BY <1>1, <1>2, <1>4, <2>1, <3>1
    <3>2. ASSUME h - StartHour + Hours \in 0 .. length - 1 PROVE QuietAt(t)
      BY <1>1, <1>2, <1>4, <2>1, <3>2
    <3>3. ASSUME NEW k \in 0 .. length - 1, (StartHour + k) % Hours = h
          PROVE  k = h - StartHour \/ k = h - StartHour + Hours
      BY <1>1, <1>2, <2>1, <3>3
    <3> QED BY <1>4, <3>1, <3>2, <3>3
  <2> QED BY <1>1, <1>2, <1>6, <2>2, <2>3, <2>4 DEF InQuietHours, h
<1> QED BY <1>1, <1>5, <1>6
-----------------------------------------------------------------------------
LEMMA InvStep == Inv /\ [Next]_vars => Inv'
PROOF
<1> SUFFICES ASSUME Inv, [Next]_vars PROVE Inv'
  OBVIOUS
<1>1. TypeOK /\ PcInv
  BY DEF Inv
<1>2. ASSUME LoopTop \/ LoadConfig \/ SkipSample \/ Leave \/ Edit \/ Sighup \/ UNCHANGED vars
      PROVE  Inv'
  <2>1. UNCHANGED <<now, rules, st, trace, born>>
    BY <1>2, Zenon DEF LoopTop, LoadConfig, SkipSample, Leave, Edit, Sighup, vars
  <2>2. g_reload' \in BOOLEAN
    BY <1>1, <1>2, Zenon
       DEF TypeOK, LoopTop, LoadConfig, SkipSample, Leave, Edit, Sighup, vars
  <2>3. TypeOK'
    BY <1>1, <1>2, <2>1, <2>2, AlertEngineAssumption
       DEF TypeOK, LoopTop, LoadConfig, SkipSample, Leave, Edit, Sighup, vars
  <2>4. PcInv'
    BY <1>1, <1>2 DEF PcInv, LoopTop, LoadConfig, SkipSample, Leave, Edit, Sighup,
       vars
  <2> QED BY <2>1, <2>3, <2>4, QuietStep DEF Inv
<1>3. ASSUME InstallEngine PROVE Inv'
  <2>1. cfg \in SUBSET Rules /\ st' = NewState /\ trace' = trace /\ rules' = cfg
        /\ born' = Len(trace) /\ pc' = "sample"
    BY <1>1, <1>3, AlertEngineAssumption DEF TypeOK, PcInv, InstallEngine
  <2>2. Mine' = {} /\ L' = born' /\ Len(trace) \in Nat
    BY <1>1, <2>1 DEF Mine, L, TypeOK
  <2>3. st' \in [Rules -> RuleState]
    <3>1. ASSUME NEW r \in Rules
          PROVE  [since |-> 0, firing |-> FALSE, notified |-> FALSE, last_fired |-> 0] \in RuleState
      BY Zenon, 0 \in Nat DEF RuleState
    <3> QED BY <2>1, <3>1, Zenon DEF NewState
  <2>4. g_reload' \in BOOLEAN
    BY <1>1, <1>3, Zenon DEF TypeOK, InstallEngine
  <2>5. TypeOK'
    BY <1>1, <1>3, <2>1, <2>2, <2>3, <2>4 DEF TypeOK, InstallEngine
  <2>6. TraceInv' /\ PcInv'
    BY <2>1 DEF Inv, TraceInv, PcInv
  <2>7. FiringIsExact' /\ RecoveryIsExact'
    BY <2>2 DEF FiringIsExact, RecoveryIsExact
  <2>8. EngineInv'
    <3> SUFFICES ASSUME NEW r \in rules' PROVE SinceInv(r)' /\ NotifiedInv(r)' /\ LastInv(r)'
      BY DEF EngineInv
    <3>1. r \in Rules
      BY <2>1
    <3>2. st'[r].since = 0 /\ st'[r].last_fired = 0
      BY <2>1, <3>1 DEF NewState
    <3>3. ~st'[r].notified
      BY <2>1, <3>1, Zenon DEF NewState
    <3>4. NotifiedInv(r)'
      BY <2>2, <3>3, Zenon DEF NotifiedInv
    <3> QED BY <2>1, <2>2, <3>2, <3>4 DEF SinceInv, LastInv
  <2> QED BY <2>5, <2>6, <2>7, <2>8 DEF Inv
<1>4. ASSUME TakeSample PROVE Inv'
  <2>1. PICK d \in Steps, reading \in Readings :
          now + d > 0 /\ now' = now + d /\ Sample(now + d, reading)
    BY <1>4 DEF TakeSample
  <2>2. now' \in Nat \ {0} /\ Sample(now', reading)
    BY <1>1, <2>1, AlertEngineAssumption DEF TypeOK
  <2>3. pc' = "top" /\ UNCHANGED <<g_reload, file, edits, cfg, rules, born>>
    BY <1>4 DEF TakeSample
  <2>4. PICK t \in Nat \ {0} : t = now' /\ Sample(t, reading)
    BY <2>2
  <2>5. TraceInv' /\ EngineInv' /\ FiringIsExact' /\ RecoveryIsExact'
    BY <2>3, <2>4, SampleStep
  <2>6. st' \in [Rules -> RuleState]
    BY <1>1, <2>4, StateType
  <2>7. trace' \in Seq(Event) /\ Len(trace') = Len(trace) + 1 /\ Len(trace) \in Nat
    BY <1>1, <2>4, SampleFacts DEF L
  <2>8. g_reload' \in BOOLEAN
    BY <1>1, <2>3, Zenon DEF TypeOK
  <2>9. TypeOK' /\ PcInv'
    BY <1>1, <2>2, <2>3, <2>6, <2>7, <2>8 DEF TypeOK, PcInv, Event
  <2> QED BY <2>5, <2>9 DEF Inv
<1> QED BY <1>2, <1>3, <1>4, Zenon DEF Next, Turn

\* The state the engine keeps per rule always tells of the samples it has seen
\* what evaluate() takes it to tell.
THEOREM Inductive == Spec => []Inv
PROOF
<1>1. Init => Inv
  BY InitInv
<1>2. Inv /\ [Next]_vars => Inv'
  BY InvStep
<1> QED BY <1>1, <1>2, PTL DEF Spec

\* Every variable keeps its type: no clock step and no reload can break one.
THEOREM TypeCorrect == Spec => []TypeOK
PROOF
<1>1. Inv => TypeOK
  BY DEF Inv
<1> QED BY <1>1, Inductive, PTL

\* For any rules, clock, samples and reloads, a rule fires exactly when it should:
\* evaluate() needs no more than since, notified and last_fired to know.
THEOREM FiringExact == Spec => []FiringIsExact
PROOF
<1>1. Inv => FiringIsExact
  BY DEF Inv
<1> QED BY <1>1, Inductive, PTL

\* Every episode that fired, and no other, is followed by exactly one recovery.
THEOREM RecoveryExact == Spec => []RecoveryIsExact
PROOF
<1>1. Inv => RecoveryIsExact
  BY DEF Inv
<1> QED BY <1>1, Inductive, PTL

\* in_quiet_hours is right for every pair of hours, also past midnight, and it
\* holds back exactly the events that are not critical.
THEOREM QuietRespected == Spec => []PushRespectsQuiet
PROOF
<1>1. Init => PushRespectsQuiet
  BY DEF Init, PushRespectsQuiet
<1>2. Inv /\ PushRespectsQuiet /\ [Next]_vars => PushRespectsQuiet'
  <2> SUFFICES ASSUME Inv, PushRespectsQuiet, [Next]_vars PROVE PushRespectsQuiet'
    OBVIOUS
  <2>1. CASE TakeSample
    <3>1. PICK d \in Steps, reading \in Readings : now + d > 0 /\ Sample(now + d, reading)
      BY <2>1 DEF TakeSample
    <3>2. PICK t \in Nat \ {0} : Sample(t, reading)
      BY <3>1, AlertEngineAssumption DEF Inv, TypeOK
    <3>3. /\ L \in Nat /\ DOMAIN trace = 1..L /\ DOMAIN trace' = 1..(L + 1)
          /\ \A i \in 1..L : trace'[i] = trace[i]
          /\ trace'[L + 1].t = t
          /\ trace'[L + 1].pushed =
              {r \in trace'[L + 1].firing \cup trace'[L + 1].recovered :
                 r \in Critical \/ ~InQuietHours(t)}
      BY <3>2, SampleFacts DEF Inv
    <3>4. InQuietHours(t) <=> QuietAt(t)
      BY QuietHours
    <3> QED BY <3>3, <3>4 DEF PushRespectsQuiet
  <2>2. CASE UNCHANGED trace
    BY <2>2 DEF PushRespectsQuiet, QuietAt
  <2> QED BY <2>1, <2>2, Zenon DEF Next, Turn, LoopTop, LoadConfig, SkipSample,
             InstallEngine,
          Leave, Edit, Sighup, vars
<1> QED BY <1>1, <1>2, Inductive, PTL DEF Spec
==============================================================================

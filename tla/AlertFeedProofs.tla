--------------------------- MODULE AlertFeedProofs ---------------------------
(***************************************************************************)
(* What the app announces is recorded, announced once and what it shows,   *)
(* for any number of threads, requests under way, alerts and restarts and  *)
(* any cap of the ring.                                                    *)
(***************************************************************************)
EXTENDS AlertFeed, SequenceTheorems, WellFoundedInduction, TLAPS

\* Of the indices with a property there is a first one.
LEMMA LeastIndex ==
  ASSUME NEW S, S \subseteq Nat, S # {}
  PROVE  \E i \in S : \A k \in S : i <= k
<1> DEFINE R == OpToRel(<, Nat)
<1>1. \A i, k \in S : <<k, i>> \in R <=> k < i
  BY DEF OpToRel
<1>2. IsWellFoundedOn(R, Nat)
  BY NatLessThanWellFounded
<1> HIDE DEF R
<1>3. PICK i \in S : \A k \in S : ~(<<k, i>> \in R)
  BY Zenon, <1>2, WFMin
<1>4. \A k \in S : ~(k < i)
  BY Zenon, <1>1, <1>3
<1> QED BY <1>4

-----------------------------------------------------------------------------
(* What the steps do, once their sequences are computed.                   *)

\* A new alert comes after the others and leaves them as they are.
LEMMA RaiseStep ==
  ASSUME TypeOK, NEW p \in Threads, Raise(p)
  PROVE  /\ alert' \in Seq(Alert) /\ Len(alert') = Len(alert) + 1 /\ Len(alert) \in Nat
         /\ DOMAIN alert = 1..Len(alert) /\ DOMAIN alert' = 1..(Len(alert) + 1)
         /\ \A n \in DOMAIN alert : alert'[n] = alert[n]
         /\ Len(alert) < MaxAlerts
<1> DEFINE Timed == [ts : Now, rule : {"rule", "job"},
                     kind : {"firing", "recovered"}, notify : BOOLEAN]
<1>1. PICK a \in Timed : alert' = Append(alert, a)
  <2>1. /\ [ts : Now, rule : {"rule"}, kind : {"firing", "recovered"}, notify : {TRUE}] \subseteq Timed
        /\ [ts : Now, rule : {"rule"}, kind : {"firing"}, notify : {FALSE}] \subseteq Timed
        /\ [ts : Now, rule : {"job"}, kind : {"firing"}, notify : {TRUE}] \subseteq Timed
    BY ZenonT(30)
  <2> HIDE DEF Timed
  <2> QED BY ZenonT(30), <2>1 DEF Raise
<1>2. alert \in Seq(Alert)
  BY DEF TypeOK
<1>3. Now \subseteq Nat
  <2>1. CASE alert = <<>>
    BY <2>1 DEF Now
  <2>2. CASE alert # <<>>
    <3>1. Len(alert) \in DOMAIN alert
      BY <1>2, <2>2, EmptySeq, LenProperties
    <3>2. alert[Len(alert)].ts \in Nat
      <4>1. alert[Len(alert)] \in Alert
        BY SMTT(30), <1>2, <3>1
      <4> QED BY ZenonT(30), <4>1 DEF Alert
    <3> QED BY <2>2, <3>2 DEF Now
  <2> QED BY <2>1, <2>2
<1>4. a \in Alert
  BY ZenonT(30), <1>3 DEF Alert
<1> QED BY SMTT(30), <1>1, <1>2, <1>4 DEF Raise

\* A thread stores its alert and then publishes it.
LEMMA DoesStep ==
  ASSUME TypeOK, NEW p \in Threads
  PROVE  /\ InsertAlert(p) =>
              /\ job[p] \in [n : DOMAIN alert, todo : {Delivery}]
              /\ job' = [job EXCEPT ![p] = [n |-> job[p].n, todo |-> <<"ring">>]]
         /\ AddAlert(p) =>
              /\ job[p] \in [n : DOMAIN alert, todo : {<<"ring">>}]
              /\ job' = [job EXCEPT ![p] = NoJob]
<1>1. /\ Head(<<"row", "ring">>) = "row" /\ Len(<<"row", "ring">>) = 2
      /\ Tail(<<"row", "ring">>) = <<"ring">>
      /\ Head(<<"ring">>) = "ring" /\ Len(<<"ring">>) = 1
  BY SMTT(30)
<1>2. /\ job[p] \in {NoJob} \cup [n : DOMAIN alert, todo : {Delivery, <<"ring">>}]
      /\ job \in [Threads -> {NoJob} \cup [n : DOMAIN alert, todo : {Delivery, <<"ring">>}]]
  BY DEF TypeOK
<1>3. CASE InsertAlert(p)
  <2>1. job[p] # NoJob /\ Head(job[p].todo) = "row"
    BY <1>3 DEF InsertAlert, Does
  <2>2. job[p] \in [n : DOMAIN alert, todo : {Delivery}]
    BY SMTT(30), <1>1, <1>2, <2>1
  <2>3. job' = [job EXCEPT ![p] = IF Len(job[p].todo) = 1 THEN NoJob
                                   ELSE [n |-> job[p].n, todo |-> Tail(job[p].todo)]]
    BY <1>3 DEF InsertAlert, Does
  <2>4. job[p].todo = <<"row", "ring">>
    BY <2>2 DEF Delivery
  <2>6. job' = [job EXCEPT ![p] = [n |-> job[p].n, todo |-> <<"ring">>]]
    BY SMTT(30), <1>1, <2>3, <2>4
  <2>7. ~AddAlert(p)
    BY <2>1 DEF AddAlert, Does
  <2> QED BY <2>2, <2>6, <2>7
<1>4. CASE AddAlert(p)
  <2>1. job[p] # NoJob /\ Head(job[p].todo) = "ring"
    BY <1>4 DEF AddAlert, Does
  <2>2. job[p] \in [n : DOMAIN alert, todo : {<<"ring">>}]
    BY SMTT(30), <1>1, <1>2, <2>1 DEF Delivery
  <2>3. job' = [job EXCEPT ![p] = IF Len(job[p].todo) = 1 THEN NoJob
                                   ELSE [n |-> job[p].n, todo |-> Tail(job[p].todo)]]
    BY <1>4 DEF AddAlert, Does
  <2>4. job[p].todo = <<"ring">>
    BY <2>2
  <2>6. job' = [job EXCEPT ![p] = NoJob]
    BY ZenonT(30), <1>1, <2>3, <2>4
  <2>7. ~InsertAlert(p)
    BY <2>1 DEF InsertAlert, Does
  <2> QED BY <2>2, <2>6, <2>7
<1> QED BY <1>3, <1>4

\* add_alert puts the alert in front and cuts the ring to its cap.
LEMMA AddStep ==
  ASSUME TypeOK, NEW p \in Threads, AddAlert(p)
  PROVE  /\ ring' \in Seq(DOMAIN alert) /\ Len(ring') <= RingCap
         /\ Range(ring') \subseteq Range(ring) \cup {job[p].n}
<1>1. job[p].n \in DOMAIN alert /\ ring \in Seq(DOMAIN alert)
  BY DoesStep DEF TypeOK
<1> DEFINE all == <<job[p].n>> \o ring
           cut == IF Len(all) > RingCap THEN RingCap ELSE Len(all)
<1>2. ring' = SubSeq(all, 1, cut)
  BY DEF AddAlert
<1>3. /\ all \in Seq(DOMAIN alert) /\ Len(all) \in Nat
      /\ \A i \in 1..Len(all) : all[i] \in DOMAIN alert
      /\ Range(all) \subseteq Range(ring) \cup {job[p].n}
  <2>1. /\ <<job[p].n>> \in Seq(DOMAIN alert) /\ Range(<<job[p].n>>) = {job[p].n}
    BY SMTT(30), <1>1 DEF Range
  <2>2. Range(all) = Range(<<job[p].n>>) \cup Range(ring) /\ all \in Seq(DOMAIN alert)
    <3>1. \A S : \A s1, s2 \in Seq(S) :
             Range(s1 \o s2) = Range(s1) \cup Range(s2) /\ s1 \o s2 \in Seq(S)
      BY RangeConcatenation, ConcatProperties
    <3> QED BY ZenonT(30), <1>1, <2>1, <3>1
  <2>3. Len(all) \in Nat /\ \A i \in 1..Len(all) : all[i] \in DOMAIN alert
    BY ZenonT(30), <2>2, LenProperties, ElementOfSeq
  <2> QED BY ZenonT(30), <2>1, <2>2, <2>3
<1> HIDE DEF all
<1>4. cut \in Nat /\ cut <= RingCap /\ cut <= Len(all)
  BY <1>3, FeedAssumption
<1> HIDE DEF cut
<1>5. /\ SubSeq(all, 1, cut) \in Seq(DOMAIN alert) /\ Len(SubSeq(all, 1, cut)) = cut
      /\ \A i \in 1..cut : SubSeq(all, 1, cut)[i] = all[i]
  BY SMTT(30), <1>3, <1>4
<1>6. Range(SubSeq(all, 1, cut)) \subseteq Range(all)
  BY SMTT(30), <1>3, <1>4, <1>5 DEF Range
<1> QED BY <1>2, <1>3, <1>4, <1>5, <1>6

\* What applying a reply does to the app.
LEMMA ApplyStep ==
  ASSUME TypeOK, NEW k \in Polls, Apply(k)
  PROVE  /\ poll[k].stage = "reply" /\ poll[k].alerts \in Seq(DOMAIN alert)
         /\ Range(poll[k].alerts) \subseteq DOMAIN alert
         /\ poll' = [poll EXCEPT ![k] = NoPoll] /\ shown' = poll[k].alerts
         /\ UNCHANGED <<alert, job, rows, failed, ring, restarts>>
         /\ seededAlerts' = TRUE /\ connected' = TRUE
         /\ seenAlertIDs' = seenAlertIDs \cup {Id(n) : n \in Range(poll[k].alerts)}
         /\ backlog' = IF seededAlerts THEN backlog ELSE Range(poll[k].alerts)
<1>1. poll[k].alerts \in Seq(DOMAIN alert)
  BY DEF TypeOK
<1>2. Ids(poll[k].alerts) = {Id(n) : n \in Range(poll[k].alerts)}
  BY ZenonT(30) DEF Ids, Range
<1>3. Range(poll[k].alerts) \subseteq DOMAIN alert
  BY <1>1, RangeOfSeq
<1> QED BY <1>1, <1>2, <1>3 DEF Apply, NotifyNewAlerts, raiseVars

\* Which alerts a reply makes the app announce.
LEMMA PostStep ==
  ASSUME TypeOK, NEW k \in Polls, Apply(k)
  PROVE  /\ posted' \in [1..MaxAlerts -> Nat]
         /\ \A n \in 1..MaxAlerts :
              \/ posted'[n] = posted[n]
              \/ /\ posted'[n] = posted[n] + 1 /\ seededAlerts
                 /\ n \in Range(poll[k].alerts) /\ Id(n) \notin seenAlertIDs
<1> DEFINE Announces(n) ==
      /\ seededAlerts
      /\ \E i \in DOMAIN poll[k].alerts :
           poll[k].alerts[i] = n /\ \A j \in 1..(i - 1) : Id(poll[k].alerts[j]) # Id(n)
      /\ Id(n) \notin seenAlertIDs /\ alert[n].notify /\ alert[n].kind = "firing"
<1>1. posted' = [n \in 1..MaxAlerts |-> IF Announces(n) THEN posted[n] + 1 ELSE posted[n]]
  BY ZenonT(30) DEF Apply, NotifyNewAlerts
<1>2. \A n : Announces(n) => /\ seededAlerts /\ Id(n) \notin seenAlertIDs
                             /\ n \in Range(poll[k].alerts)
  BY ZenonT(30) DEF Range
<1>3. posted \in [1..MaxAlerts -> Nat]
  BY DEF TypeOK
<1> HIDE DEF Announces
<1> QED BY SMTT(30), <1>1, <1>2, <1>3

-----------------------------------------------------------------------------
(* Types.                                                                  *)

LEMMA TypeInit == Init => TypeOK
<1> SUFFICES ASSUME Init PROVE TypeOK
  OBVIOUS
<1>1. \A S : <<>> \in Seq(S) /\ Len(<<>>) = 0
  BY EmptySeq
<1>2. NoPoll \in [stage : {"idle", "asked", "reply"}, alerts : Seq(DOMAIN alert)]
  BY ZenonT(30), <1>1 DEF NoPoll
<1>3. Len(alert) <= MaxAlerts /\ Len(ring) <= RingCap /\ restarts \in 0..MaxRestarts
  BY SMTT(30), <1>1, FeedAssumption DEF Init
<1>4. posted \in [1..MaxAlerts -> Nat]
  BY SMTT(30) DEF Init
<1> QED BY ZenonT(30), <1>1, <1>2, <1>3, <1>4 DEF Init, TypeOK

LEMMA TypeStep == TypeOK /\ [Next]_vars => TypeOK'
<1> SUFFICES ASSUME TypeOK, [Next]_vars PROVE TypeOK'
  OBVIOUS
<1> DEFINE Jobs(d) == {NoJob} \cup [n : d, todo : {Delivery, <<"ring">>}]
           PollsOf(d) == [stage : {"idle", "asked", "reply"}, alerts : Seq(d)]
<1>9. poll \in [Polls -> PollsOf(DOMAIN alert)]
  BY DEF TypeOK
<1>0. NoPoll \in PollsOf(DOMAIN alert) /\ <<>> \in Seq(DOMAIN alert) /\ Len(<<>>) = 0
  BY SMTT(30), EmptySeq DEF NoPoll
<1>1. CASE UNCHANGED vars
  BY <1>1 DEF vars, raiseVars, appVars, TypeOK, Id
<1>2. ASSUME NEW p \in Threads, Raise(p) PROVE TypeOK'
  <2>1. UNCHANGED <<rows, failed, ring, poll, appVars, restarts>>
    BY <1>2 DEF Raise
  <2>2. DOMAIN alert \subseteq DOMAIN alert'
    BY <1>2, RaiseStep
  <2>3. Seq(DOMAIN alert) \subseteq Seq(DOMAIN alert')
    BY <2>2, SeqMonotonic
  <2>4. Len(alert)' <= MaxAlerts /\ alert' \in Seq(Alert)
    BY SMTT(30), <1>2, RaiseStep, FeedAssumption
  <2>5. job' \in [Threads -> Jobs(DOMAIN alert')]
    <3>1. Len(alert) + 1 \in DOMAIN alert' /\ job \in [Threads -> Jobs(DOMAIN alert)]
      BY SMTT(30), <1>2, RaiseStep DEF TypeOK
    <3>2. job' = [job EXCEPT ![p] = [n |-> Len(alert) + 1, todo |-> Delivery]]
      BY <1>2 DEF Raise
    <3> QED BY SMTT(30), <2>2, <3>1, <3>2
  <2>6. poll' \in [Polls -> PollsOf(DOMAIN alert')]
    BY SMTT(30), <2>1, <2>3 DEF TypeOK
  <2>7. {Id(n) : n \in DOMAIN alert} \subseteq {Id(n)' : n \in DOMAIN alert'}
    BY ZenonT(30), <1>2, <2>2, RaiseStep DEF Id
  <2>8. /\ seenAlertIDs' \subseteq {Id(n)' : n \in DOMAIN alert'}
        /\ backlog' \subseteq DOMAIN alert' /\ rows' \subseteq DOMAIN alert'
        /\ failed' \subseteq DOMAIN alert'
        /\ shown' \in Seq(DOMAIN alert') /\ ring' \in Seq(DOMAIN alert')
    BY ZenonT(30), <2>1, <2>2, <2>3, <2>7 DEF TypeOK, appVars
  <2> QED BY <2>1, <2>4, <2>5, <2>6, <2>8 DEF TypeOK, appVars
<1>3. ASSUME NEW p \in Threads, InsertAlert(p) \/ AddAlert(p) PROVE TypeOK'
  <2>1. UNCHANGED <<alert, poll, appVars, restarts>>
    BY <1>3 DEF InsertAlert, AddAlert, Does
  <2>2. job[p].n \in DOMAIN alert /\ job' \in [Threads -> Jobs(DOMAIN alert)]
    <3>1. job \in [Threads -> Jobs(DOMAIN alert)]
      BY DEF TypeOK
    <3>2. job[p].n \in DOMAIN alert
      BY <1>3, DoesStep
    <3>3. job' \in [Threads -> Jobs(DOMAIN alert)]
      <4>1. ASSUME NEW new \in Jobs(DOMAIN alert), job' = [job EXCEPT ![p] = new]
            PROVE  job' \in [Threads -> Jobs(DOMAIN alert)]
        BY SMTT(30), <3>1, <4>1
      <4>2. [n |-> job[p].n, todo |-> <<"ring">>] \in Jobs(DOMAIN alert)
        BY ZenonT(30), <3>2
      <4> HIDE DEF Jobs
      <4>3. NoJob \in Jobs(DOMAIN alert)
        BY DEF Jobs
      <4> QED BY <1>3, <4>1, <4>2, <4>3, DoesStep
    <3> QED BY <3>2, <3>3
  <2>3. rows' \subseteq DOMAIN alert /\ failed' \subseteq DOMAIN alert
    BY <1>3, <2>2 DEF InsertAlert, AddAlert, TypeOK
  <2>4. ring' \in Seq(DOMAIN alert) /\ Len(ring)' <= RingCap
    BY <1>3, AddStep DEF InsertAlert, TypeOK
  <2> QED BY <2>1, <2>2, <2>3, <2>4 DEF TypeOK, appVars, Id
<1>4. CASE RestartDaemon
  BY SMTT(30), <1>0, <1>4, FeedAssumption DEF RestartDaemon, TypeOK, appVars, Id
<1>5. ASSUME NEW k \in Polls, Refresh(k) \/ Status(k) \/ ApplyError(k) PROVE TypeOK'
  <2>1. UNCHANGED <<raiseVars, ring, seededAlerts, seenAlertIDs, backlog, shown, posted, restarts>>
    BY <1>5 DEF Refresh, Status, ApplyError, appVars
  <2>2. poll' \in [Polls -> PollsOf(DOMAIN alert)]
    <3>1. ring \in Seq(DOMAIN alert) /\ poll[k] \in PollsOf(DOMAIN alert)
      BY DEF TypeOK
    <3>2. CASE Refresh(k)
      <4>1. poll' = [poll EXCEPT ![k] = [stage |-> "asked", alerts |-> poll[k].alerts]]
        <5>1. [poll[k] EXCEPT !.stage = "asked"] = [stage |-> "asked", alerts |-> poll[k].alerts]
          BY SMTT(30), <3>1
        <5>2. poll' = [poll EXCEPT ![k] = [poll[k] EXCEPT !.stage = "asked"]]
          BY <3>2 DEF Refresh
        <5> QED BY ZenonT(30), <5>1, <5>2
      <4> QED BY SMTT(30), <1>9, <3>1, <4>1
    <3>3. CASE Status(k)
      BY SMTT(30), <1>9, <3>1, <3>3 DEF Status
    <3>4. CASE ApplyError(k)
      BY SMTT(30), <1>0, <1>9, <3>4 DEF ApplyError
    <3> QED BY <1>5, <3>2, <3>3, <3>4
  <2>3. connected' \in BOOLEAN
    BY ZenonT(30), <1>5 DEF Refresh, Status, ApplyError, TypeOK, appVars
  <2> QED BY <2>1, <2>2, <2>3 DEF TypeOK, raiseVars, Id
<1>6. ASSUME NEW k \in Polls, Apply(k) PROVE TypeOK'
  <2>1. poll' \in [Polls -> PollsOf(DOMAIN alert)]
    <3>1. poll' = [poll EXCEPT ![k] = NoPoll]
      BY <1>6, ApplyStep
    <3> QED BY SMTT(30), <1>0, <1>9, <3>1
  <2>2. seenAlertIDs' \subseteq {Id(n) : n \in DOMAIN alert} /\ backlog' \subseteq DOMAIN alert
    <3>1. /\ seenAlertIDs' = seenAlertIDs \cup {Id(n) : n \in Range(poll[k].alerts)}
          /\ backlog' = IF seededAlerts THEN backlog ELSE Range(poll[k].alerts)
          /\ Range(poll[k].alerts) \subseteq DOMAIN alert
      BY <1>6, ApplyStep
    <3> QED BY ZenonT(30), <3>1 DEF TypeOK
  <2>3. {Id(n) : n \in DOMAIN alert} = {Id(n)' : n \in DOMAIN alert'}
    BY <1>6, ApplyStep DEF Id
  <2>4. UNCHANGED <<alert, job, rows, failed, ring, restarts>> /\ shown' \in Seq(DOMAIN alert)
        /\ seededAlerts' = TRUE /\ connected' = TRUE
    BY <1>6, ApplyStep
  <2>5. posted' \in [1..MaxAlerts -> Nat]
    BY <1>6, PostStep
  <2> QED BY <2>1, <2>2, <2>3, <2>4, <2>5 DEF TypeOK
<1>7. CASE RestartApp
  <2>1. poll' \in [Polls -> PollsOf(DOMAIN alert)] /\ restarts' \in 0..MaxRestarts
    BY SMTT(30), <1>0, <1>7, FeedAssumption DEF RestartApp, TypeOK
  <2>2. /\ UNCHANGED <<raiseVars, ring, posted>> /\ shown' \in Seq(DOMAIN alert)
        /\ seededAlerts' = FALSE /\ connected' = FALSE /\ seenAlertIDs' = {} /\ backlog' = {}
    BY <1>0, <1>7 DEF RestartApp
  <2> QED BY <2>1, <2>2 DEF TypeOK, raiseVars
<1> QED BY ZenonT(30), <1>1, <1>2, <1>3, <1>4, <1>5, <1>6, <1>7 DEF Next

-----------------------------------------------------------------------------
(* Delivery: store, publish, poll.                                         *)

\* The alert of a thread is one of those raised.
LEMMA JobFacts ==
  ASSUME TypeOK, NEW p \in Threads
  PROVE  /\ job[p] # NoJob => job[p].n \in DOMAIN alert /\ job[p].n \in 1..MaxAlerts
         /\ job[p].n = 0 \/ job[p].n \in DOMAIN alert
         /\ DOMAIN alert \subseteq 1..MaxAlerts
         /\ NoJob.n = 0 /\ 0 \notin DOMAIN alert
         /\ \A n \in DOMAIN alert : \A t : [n |-> n, todo |-> t] # NoJob
<1>1. DOMAIN alert \subseteq 1..MaxAlerts /\ 0 \notin DOMAIN alert
  BY SMTT(30), FeedAssumption, LenProperties DEF TypeOK
<1>2. job[p] \in {NoJob} \cup [n : DOMAIN alert, todo : {Delivery, <<"ring">>}]
  BY DEF TypeOK
<1>3. NoJob.n = 0
  BY DEF NoJob
<1>4. job[p] # NoJob => job[p].n \in DOMAIN alert
  BY ZenonT(30), <1>2
<1>5. ASSUME NEW n \in DOMAIN alert, NEW t PROVE [n |-> n, todo |-> t] # NoJob
  <2>1. [n |-> n, todo |-> t].n = n
    OBVIOUS
  <2> QED BY <1>1, <1>3, <2>1
<1> QED BY ZenonT(30), <1>1, <1>3, <1>4, <1>5

\* A step that only passes on what was published already.
LEMMA DeliveryFrame ==
  ASSUME TypeOK, DeliveryInv, rows' = rows, failed' = failed,
         job' = job \/ job' = [p \in Threads |-> NoJob],
         \A n \in 1..MaxAlerts : Published(n)' => Published(n)
  PROVE  DeliveryInv'
<1>1. \A n \in 1..MaxAlerts : Published(n)' => n \in rows \cup failed
  BY DEF DeliveryInv
<1>2. CASE job' = job
  <2>1. ASSUME NEW p \in Threads, job[p] # NoJob
        PROVE  /\ job[p].todo = <<"ring">> => job[p].n \in rows \cup failed
               /\ ~Published(job[p].n)'
               /\ \A q \in Threads \ {p} : job[q].n # job[p].n
    <3>1. job[p].n \in 1..MaxAlerts
      BY <2>1, JobFacts
    <3>2. ~(Published(job[p].n))
      BY <2>1 DEF DeliveryInv
    <3>3. Published(job[p].n)' => Published(job[p].n)
      <4> DEFINE n == job[p].n
      <4>1. n' = n
        BY <1>2
      <4>2. \A x \in 1..MaxAlerts : Published(x)' => Published(x)
        OBVIOUS
      <4> QED BY ZenonT(30), <3>1, <4>1, <4>2 DEF Published
    <3> QED BY <2>1, <3>2, <3>3 DEF DeliveryInv
  <2> QED BY ZenonT(30), <1>1, <1>2, <2>1 DEF DeliveryInv
<1>3. CASE job' = [p \in Threads |-> NoJob]
  BY ZenonT(30), <1>1, <1>3 DEF DeliveryInv
<1> QED BY <1>2, <1>3

LEMMA RaiseDelivery ==
  ASSUME TypeOK, DeliveryInv, NEW p \in Threads, Raise(p)
  PROVE  DeliveryInv'
<1> DEFINE new == Len(alert) + 1
<1>1. /\ job' = [job EXCEPT ![p] = [n |-> new, todo |-> Delivery]]
      /\ rows' = rows /\ failed' = failed
      /\ \A n : Published(n)' <=> Published(n)
  BY ZenonT(30) DEF Raise, Published, appVars
<1>2. new \in 1..MaxAlerts /\ new \notin DOMAIN alert
  BY SMTT(30), RaiseStep, FeedAssumption
<1>3. job \in [Threads -> {NoJob} \cup [n : DOMAIN alert, todo : {Delivery, <<"ring">>}]]
  BY DEF TypeOK
<1>4. ~Published(new)
  <2>1. new \notin rows \cup failed
    BY <1>2 DEF TypeOK
  <2> HIDE DEF new
  <2> QED BY <1>2, <2>1 DEF DeliveryInv
<1>5. \A q \in Threads : job[q].n # new
  BY SMTT(30), <1>2, RaiseStep, JobFacts
<1> HIDE DEF new
<1>6. job'[p] = [n |-> new, todo |-> Delivery] /\ \A q \in Threads \ {p} : job'[q] = job[q]
  BY ZenonT(30), <1>1, <1>3
<1>7. Delivery # <<"ring">>
  <2>1. Len(<<"row", "ring">>) = 2 /\ Len(<<"ring">>) = 1
    BY SMTT(30)
  <2> QED BY <2>1 DEF Delivery
<1>8. ASSUME NEW q \in Threads, job'[q] # NoJob
      PROVE  /\ job'[q].todo = <<"ring">> => job'[q].n \in rows \cup failed
             /\ \E n : n = job'[q].n /\ ~Published(n)
             /\ \A r \in Threads \ {q} : job'[r].n # job'[q].n
  <2>1. CASE q = p
    <3>1. job'[q].n = new /\ job'[q].todo = Delivery
      BY SMTT(30), <1>6, <2>1
    <3>2. \A r \in Threads \ {q} : job'[r].n # new
      BY ZenonT(30), <1>5, <1>6, <2>1
    <3> QED BY <1>4, <1>7, <3>1, <3>2
  <2>2. CASE q # p
    <3>1. job'[q] = job[q] /\ job[q] # NoJob
      BY ZenonT(30), <1>6, <1>8, <2>2
    <3>2. \A r \in Threads \ {q} : job'[r].n # job[q].n
      <4>1. \A r \in Threads \ {q} : job[r].n # job[q].n
        BY ZenonT(30), <3>1 DEF DeliveryInv
      <4>2. job'[p].n # job[q].n
        BY SMTT(30), <1>5, <1>6
      <4> QED BY ZenonT(30), <1>6, <4>1, <4>2
    <3> QED BY ZenonT(30), <3>1, <3>2 DEF DeliveryInv
  <2> QED BY <2>1, <2>2
<1>9. ASSUME NEW q \in Threads, job'[q] # NoJob PROVE ~Published(job[q].n)'
  <2>1. PICK n : n = job'[q].n /\ ~Published(n)
    BY <1>8, <1>9
  <2>2. ~Published(n)'
    BY <1>1, <2>1
  <2> QED BY ZenonT(30), <2>1, <2>2 DEF Published
<1> QED BY ZenonT(30), <1>1, <1>8, <1>9 DEF DeliveryInv

LEMMA InsertDelivery ==
  ASSUME TypeOK, DeliveryInv, NEW p \in Threads, InsertAlert(p)
  PROVE  DeliveryInv'
<1>1. /\ rows' \cup failed' = (rows \cup failed) \cup {job[p].n}
      /\ \A n : Published(n)' <=> Published(n)
  BY ZenonT(30) DEF InsertAlert, Does, Published, appVars
<1>2. job[p].n \in DOMAIN alert /\ job[p] # NoJob
      /\ job' = [job EXCEPT ![p] = [n |-> job[p].n, todo |-> <<"ring">>]]
  BY DoesStep DEF InsertAlert, Does
<1>3. job \in [Threads -> {NoJob} \cup [n : DOMAIN alert, todo : {Delivery, <<"ring">>}]]
  BY DEF TypeOK
<1>4. /\ \A q \in Threads : job'[q].n = job[q].n
      /\ \A q \in Threads \ {p} : job'[q] = job[q]
  BY ZenonT(30), <1>2, <1>3
<1>5. \A q \in Threads : job'[q] # NoJob => job[q] # NoJob
  BY ZenonT(30), <1>2, <1>4
<1>6. ASSUME NEW q \in Threads, job'[q] # NoJob PROVE ~Published(job[q].n)'
  <2>1. ~Published(job[q].n) /\ job'[q].n = job[q].n
    BY ZenonT(30), <1>4, <1>5, <1>6 DEF DeliveryInv
  <2> QED BY ZenonT(30), <1>1, <2>1 DEF Published
<1>7. ASSUME NEW q \in Threads, job'[q] # NoJob
      PROVE  /\ job'[q].todo = <<"ring">> => job'[q].n \in rows' \cup failed'
             /\ \A r \in Threads \ {q} : job'[r].n # job'[q].n
  BY ZenonT(30), <1>1, <1>4, <1>5, <1>7 DEF DeliveryInv
<1> QED BY ZenonT(30), <1>1, <1>6, <1>7 DEF DeliveryInv

LEMMA AddDelivery ==
  ASSUME TypeOK, DeliveryInv, NEW p \in Threads, AddAlert(p)
  PROVE  DeliveryInv'
<1>1. rows' = rows /\ failed' = failed /\ UNCHANGED <<poll, shown, backlog, posted>>
  BY DEF AddAlert, Does, appVars
<1>2. /\ job[p].n \in DOMAIN alert /\ job[p] # NoJob /\ job[p].todo = <<"ring">>
      /\ job' = [job EXCEPT ![p] = NoJob]
  BY DoesStep DEF AddAlert, Does
<1>3. job \in [Threads -> {NoJob} \cup [n : DOMAIN alert, todo : {Delivery, <<"ring">>}]]
  BY DEF TypeOK
<1>4. job'[p] = NoJob /\ \A q \in Threads \ {p} : job'[q] = job[q]
  BY ZenonT(30), <1>2, <1>3
<1>5. \A n : Published(n)' => Published(n) \/ n = job[p].n
  BY ZenonT(30), <1>1, AddStep DEF Published
<1>6. job[p].n \in rows \cup failed
  BY ZenonT(30), <1>2 DEF DeliveryInv
<1>7. ASSUME NEW q \in Threads, job'[q] # NoJob
      PROVE  /\ q # p /\ job'[q] = job[q]
             /\ \A r \in Threads \ {q} : job'[r].n # job'[q].n
  <2>1. q # p /\ job'[q] = job[q]
    BY ZenonT(30), <1>4, <1>7
  <2>2. job[q].n \in DOMAIN alert /\ NoJob.n \notin DOMAIN alert
    BY ZenonT(30), <1>7, <2>1, JobFacts
  <2> QED BY ZenonT(30), <1>4, <1>7, <2>1, <2>2 DEF DeliveryInv
<1>8. ASSUME NEW q \in Threads, job'[q] # NoJob PROVE ~Published(job[q].n)'
  <2>1. ~Published(job[q].n) /\ job'[q].n = job[q].n /\ job[q].n # job[p].n
    BY ZenonT(30), <1>2, <1>7, <1>8 DEF DeliveryInv
  <2> QED BY ZenonT(30), <1>5, <2>1 DEF Published
<1>9. ASSUME NEW q \in Threads, job'[q] # NoJob, job'[q].todo = <<"ring">>
      PROVE  job'[q].n \in rows \cup failed
  BY ZenonT(30), <1>7, <1>9 DEF DeliveryInv
<1>10. ASSUME NEW n \in 1..MaxAlerts, Published(n)' PROVE n \in rows \cup failed
  BY ZenonT(30), <1>5, <1>6, <1>10 DEF DeliveryInv
<1> QED BY ZenonT(30), <1>1, <1>7, <1>8, <1>9, <1>10 DEF DeliveryInv

LEMMA DeliveryStep ==
  ASSUME TypeOK, DeliveryInv, [Next]_vars
  PROVE  DeliveryInv'
<1>1. CASE UNCHANGED vars
  BY <1>1, DeliveryFrame DEF vars, raiseVars, appVars, Published
<1>2. CASE RestartDaemon
  <2>1. Range(<<>>) = {}
    BY SMTT(30) DEF Range
  <2>2. \A n \in 1..MaxAlerts : Published(n)' => Published(n)
    BY ZenonT(30), <1>2, <2>1 DEF RestartDaemon, Published, appVars
  <2> QED BY <1>2, <2>2, DeliveryFrame DEF RestartDaemon
<1>3. CASE RestartApp
  <2>1. Range(<<>>) = {} /\ \A k \in Polls : poll'[k].alerts = <<>>
    BY SMTT(30), <1>3 DEF Range, RestartApp, NoPoll
  <2>2. \A n \in 1..MaxAlerts : Published(n)' => Published(n)
    BY ZenonT(30), <1>3, <2>1 DEF RestartApp, Published
  <2> QED BY <1>3, <2>2, DeliveryFrame DEF RestartApp, raiseVars
<1>4. ASSUME NEW k \in Polls, Refresh(k) \/ ApplyError(k) PROVE DeliveryInv'
  <2>1. UNCHANGED <<raiseVars, ring, shown, backlog, posted>>
    BY <1>4 DEF Refresh, ApplyError, appVars
  <2>2. Range(<<>>) = {} /\ poll \in [Polls -> [stage : {"idle", "asked", "reply"},
                                                alerts : Seq(DOMAIN alert)]]
    BY SMTT(30) DEF Range, TypeOK
  <2>3. \A l \in Polls : poll'[l].alerts \in {poll[l].alerts, <<>>}
    BY SMTT(30), <1>4, <2>2 DEF Refresh, ApplyError, NoPoll
  <2>4. \A n \in 1..MaxAlerts : Published(n)' => Published(n)
    BY ZenonT(30), <2>1, <2>2, <2>3 DEF Published
  <2> QED BY <2>1, <2>4, DeliveryFrame DEF raiseVars
<1>5. ASSUME NEW k \in Polls, Status(k) PROVE DeliveryInv'
  <2>1. poll \in [Polls -> [stage : {"idle", "asked", "reply"}, alerts : Seq(DOMAIN alert)]]
    BY DEF TypeOK
  <2>2. \A l \in Polls : poll'[l].alerts \in {poll[l].alerts, ring}
    BY SMTT(30), <1>5, <2>1 DEF Status
  <2>3. \A n \in 1..MaxAlerts : Published(n)' => Published(n)
    BY ZenonT(30), <1>5, <2>2 DEF Status, Published, appVars
  <2> QED BY <1>5, <2>3, DeliveryFrame DEF Status, raiseVars
<1>6. ASSUME NEW k \in Polls, Apply(k) PROVE DeliveryInv'
  <2>1. Range(<<>>) = {}
    BY SMTT(30) DEF Range
  <2>2. poll \in [Polls -> [stage : {"idle", "asked", "reply"}, alerts : Seq(DOMAIN alert)]]
        /\ poll' = [poll EXCEPT ![k] = NoPoll]
    BY <1>6, ApplyStep DEF TypeOK
  <2>3. \A l \in Polls : poll'[l].alerts \in {poll[l].alerts, <<>>}
    BY SMTT(30), <2>2 DEF NoPoll
  <2>4. /\ ring' = ring /\ shown' = poll[k].alerts
        /\ backlog' = IF seededAlerts THEN backlog ELSE Range(poll[k].alerts)
    BY <1>6, ApplyStep
  <2>5. \A n \in 1..MaxAlerts : posted'[n] > 0 => posted[n] > 0 \/ n \in Range(poll[k].alerts)
    BY ZenonT(30), <1>6, PostStep
  <2>6. ASSUME NEW n \in 1..MaxAlerts, Published(n)' PROVE Published(n)
    BY ZenonT(30), <2>1, <2>3, <2>4, <2>5, <2>6 DEF Published
  <2> QED BY <1>6, <2>6, ApplyStep, DeliveryFrame
<1> QED BY ZenonT(30), <1>1, <1>2, <1>3, <1>4, <1>5, <1>6, RaiseDelivery, InsertDelivery,
           AddDelivery DEF Next

-----------------------------------------------------------------------------
(* What the app has seen.                                                  *)

\* The first alert with a new id is announced; so a new id is on the backlog, is
\* announced, or is the id of two alerts.
LEMMA NewIdAnnounced ==
  ASSUME TypeOK, NEW k \in Polls, Apply(k), NEW n \in DOMAIN alert,
         alert[n].notify, alert[n].kind = "firing", Id(n) \notin seenAlertIDs,
         NEW x \in Range(poll[k].alerts), Id(x) = Id(n)
  PROVE  \/ n \in backlog' \/ posted'[n] > 0
         \/ \E m \in DOMAIN alert \ {n} : Id(m) = Id(n)
<1> DEFINE alerts == poll[k].alerts
           Same == {i \in DOMAIN alerts : Id(alerts[i]) = Id(n)}
<1>1. /\ alerts \in Seq(DOMAIN alert) /\ Range(alerts) \subseteq DOMAIN alert
      /\ DOMAIN alerts = 1..Len(alerts) /\ Len(alerts) \in Nat
  BY ApplyStep, LenProperties
<1>2. Same # {} /\ Same \subseteq Nat
  <2>1. \E i \in DOMAIN alerts : alerts[i] = x
    BY DEF Range
  <2> QED BY SMTT(30), <1>1, <2>1
<1>3. PICK i \in Same : \A j \in Same : i <= j
  <2> HIDE DEF Same
  <2> QED BY <1>2, LeastIndex
<1>4. i \in DOMAIN alerts /\ Id(alerts[i]) = Id(n) /\ alerts[i] \in DOMAIN alert
  BY <1>1 DEF Range
<1>5. \A j \in 1..(i - 1) : Id(alerts[j]) # Id(n)
  BY SMTT(30), <1>1, <1>3, <1>4
<1>6. CASE alerts[i] # n
  BY <1>4, <1>6
<1>7. CASE alerts[i] = n /\ ~seededAlerts
  BY <1>4, <1>7, ApplyStep DEF Range
<1>8. CASE alerts[i] = n /\ seededAlerts
  <2>1. n \in 1..MaxAlerts
    BY SMTT(30), FeedAssumption, LenProperties DEF TypeOK
  <2>2. posted' = [m \in 1..MaxAlerts |->
         IF /\ seededAlerts
            /\ \E l \in DOMAIN alerts :
                 alerts[l] = m /\ \A j \in 1..(l - 1) : Id(alerts[j]) # Id(m)
            /\ Id(m) \notin seenAlertIDs /\ alert[m].notify /\ alert[m].kind = "firing"
         THEN posted[m] + 1 ELSE posted[m]]
    BY ZenonT(30) DEF Apply, NotifyNewAlerts
  <2>3. \E l \in DOMAIN alerts :
          alerts[l] = n /\ \A j \in 1..(l - 1) : Id(alerts[j]) # Id(n)
    BY ZenonT(30), <1>4, <1>5, <1>8
  <2>4. posted'[n] = posted[n] + 1
    BY ZenonT(30), <1>8, <2>1, <2>2, <2>3
  <2> QED BY SMTT(30), <2>1, <2>4 DEF TypeOK
<1> QED BY <1>6, <1>7, <1>8

\* Old alerts keep their ids; a new one with an id the app knows shares it.
LEMMA RaiseSeen ==
  ASSUME TypeOK, SeenInv, NEW p \in Threads, Raise(p)
  PROVE  SeenInv'
<1> DEFINE new == Len(alert) + 1
<1>1. /\ DOMAIN alert \subseteq DOMAIN alert' /\ DOMAIN alert' = DOMAIN alert \cup {new}
      /\ new \notin DOMAIN alert
      /\ \A n \in DOMAIN alert : alert'[n] = alert[n]
  <2>1. /\ DOMAIN alert = 1..Len(alert) /\ DOMAIN alert' = 1..(Len(alert) + 1)
        /\ Len(alert) \in Nat /\ \A n \in DOMAIN alert : alert'[n] = alert[n]
    BY RaiseStep
  <2> QED BY SMTT(30), <2>1
<1>2. UNCHANGED appVars
  BY DEF Raise
<1>3. \A n \in DOMAIN alert : Id(n)' = Id(n)
  BY ZenonT(30), <1>1 DEF Id
<1>4. Range(shown) \cup backlog \subseteq DOMAIN alert
  BY RangeOfSeq DEF TypeOK
<1> HIDE DEF new
<1>5. /\ (~seededAlerts => seenAlertIDs = {} /\ backlog = {} /\ shown = <<>>)'
      /\ (\A n \in Range(shown) \cup backlog : Id(n) \in seenAlertIDs)'
  BY ZenonT(30), <1>2, <1>3, <1>4 DEF SeenInv, appVars
<1>6. ASSUME NEW n \in DOMAIN alert', Id(n)' \in seenAlertIDs,
             alert'[n].notify, alert'[n].kind = "firing"
      PROVE  \/ n \in backlog \/ posted[n] > 0
             \/ \E m \in DOMAIN alert' \ {n} : Id(m)' = Id(n)'
  <2>1. CASE n \in DOMAIN alert
    BY ZenonT(30), <1>1, <1>3, <1>6, <2>1 DEF SeenInv
  <2>2. CASE n = new
    <3>1. PICK m \in DOMAIN alert : Id(m) = Id(n)'
      BY ZenonT(30), <1>6 DEF TypeOK
    <3> QED BY ZenonT(30), <1>1, <1>3, <2>2, <3>1
  <2> QED BY <1>1, <2>1, <2>2
<1> QED BY ZenonT(30), <1>2, <1>5, <1>6 DEF SeenInv, appVars

LEMMA ApplySeen ==
  ASSUME TypeOK, SeenInv, NEW k \in Polls, Apply(k)
  PROVE  SeenInv'
<1> DEFINE alerts == poll[k].alerts
<1>1. /\ alert' = alert /\ seededAlerts' = TRUE /\ shown' = alerts
      /\ seenAlertIDs' = seenAlertIDs \cup {Id(n) : n \in Range(alerts)}
      /\ backlog' = IF seededAlerts THEN backlog ELSE Range(alerts)
      /\ Range(alerts) \subseteq DOMAIN alert
  BY ApplyStep
<1>2. \A n : Id(n)' = Id(n)
  BY <1>1 DEF Id
<1> HIDE DEF alerts
<1>3. (\A n \in Range(shown) \cup backlog : Id(n) \in seenAlertIDs)'
  BY ZenonT(30), <1>1, <1>2 DEF SeenInv
<1>4. ASSUME NEW n \in DOMAIN alert, Id(n) \in seenAlertIDs',
             alert[n].notify, alert[n].kind = "firing"
      PROVE  \/ n \in backlog' \/ posted'[n] > 0
             \/ \E m \in DOMAIN alert \ {n} : Id(m) = Id(n)
  <2>1. CASE Id(n) \in seenAlertIDs
    <3>1. seededAlerts
      BY <2>1 DEF SeenInv
    <3>2. n \in 1..MaxAlerts
      BY SMTT(30), FeedAssumption, LenProperties DEF TypeOK
    <3>3. posted[n] > 0 => posted'[n] > 0
      <4>1. posted'[n] \in {posted[n], posted[n] + 1} /\ posted[n] \in Nat
        BY ZenonT(30), <3>2, PostStep DEF TypeOK
      <4> QED BY <4>1
    <3> QED BY ZenonT(30), <1>1, <1>4, <2>1, <3>1, <3>3 DEF SeenInv
  <2>2. CASE Id(n) \notin seenAlertIDs
    <3>1. PICK x \in Range(alerts) : Id(x) = Id(n)
      BY ZenonT(30), <1>1, <1>4, <2>2
    <3> QED BY <1>4, <2>2, <3>1, NewIdAnnounced DEF alerts
  <2> QED BY <2>1, <2>2
<1> QED BY ZenonT(30), <1>1, <1>2, <1>3, <1>4 DEF SeenInv

LEMMA SeenStep ==
  ASSUME TypeOK, SeenInv, [Next]_vars
  PROVE  SeenInv'
<1>1. ASSUME UNCHANGED <<alert, seededAlerts, seenAlertIDs, backlog, shown, posted>>
      PROVE  SeenInv'
  BY <1>1 DEF SeenInv, Id
<1>2. CASE UNCHANGED vars
  BY <1>1, <1>2 DEF vars, raiseVars, appVars
<1>3. CASE RestartDaemon
  BY <1>1, <1>3 DEF RestartDaemon, appVars
<1>4. ASSUME NEW p \in Threads, InsertAlert(p) \/ AddAlert(p) PROVE SeenInv'
  BY <1>1, <1>4 DEF InsertAlert, AddAlert, Does, appVars
<1>5. ASSUME NEW k \in Polls, Refresh(k) \/ Status(k) \/ ApplyError(k) PROVE SeenInv'
  BY <1>1, <1>5 DEF Refresh, Status, ApplyError, raiseVars, appVars
<1>6. CASE RestartApp
  <2>1. Range(<<>>) = {}
    BY SMTT(30) DEF Range
  <2> QED BY ZenonT(30), <1>6, <2>1 DEF RestartApp, SeenInv
<1> QED BY ZenonT(30), <1>2, <1>3, <1>4, <1>5, <1>6, RaiseSeen, ApplySeen DEF Next

-----------------------------------------------------------------------------
(* What the app has announced.                                             *)

LEMMA AddAnnounced ==
  ASSUME TypeOK, DeliveryInv, AnnouncedInv, NEW p \in Threads, AddAlert(p)
  PROVE  AnnouncedInv'
<1>1. UNCHANGED <<alert, poll, seededAlerts, seenAlertIDs, posted>>
  BY DEF AddAlert, Does, appVars
<1>2. ~(posted[job[p].n] > 0)
  BY ZenonT(30) DEF AddAlert, Does, DeliveryInv, Published
<1>3. Range(ring') \subseteq Range(ring) \cup {job[p].n}
  BY AddStep
<1> QED BY ZenonT(30), <1>1, <1>2, <1>3 DEF AnnouncedInv, Id

LEMMA ApplyAnnounced ==
  ASSUME TypeOK, AnnouncedInv, NEW k \in Polls, Apply(k)
  PROVE  AnnouncedInv'
<1>1. /\ alert' = alert /\ ring' = ring /\ poll[k].stage = "reply"
      /\ seenAlertIDs' = seenAlertIDs \cup {Id(n) : n \in Range(poll[k].alerts)}
  BY ApplyStep
<1>2. \A n : Id(n)' = Id(n)
  BY <1>1 DEF Id
<1>3. Range(ring) \subseteq DOMAIN alert /\ DOMAIN alert \subseteq 1..MaxAlerts
  BY SMTT(30), FeedAssumption, LenProperties, RangeOfSeq DEF TypeOK
<1>4. ASSUME NEW n \in Range(ring), posted'[n] > 0 PROVE Id(n) \in seenAlertIDs'
  <2>1. CASE n \in Range(poll[k].alerts)
    BY <1>1, <2>1
  <2>2. CASE n \notin Range(poll[k].alerts)
    <3>1. posted'[n] = posted[n]
      BY ZenonT(30), <1>3, <2>2, PostStep
    <3> QED BY ZenonT(30), <1>1, <1>4, <2>2, <3>1 DEF AnnouncedInv
  <2> QED BY <2>1, <2>2
<1> QED BY ZenonT(30), <1>1, <1>2, <1>4 DEF AnnouncedInv

LEMMA AnnouncedStep ==
  ASSUME TypeOK, DeliveryInv, AnnouncedInv, [Next]_vars
  PROVE  AnnouncedInv'
<1>0. poll \in [Polls -> [stage : {"idle", "asked", "reply"}, alerts : Seq(DOMAIN alert)]]
  BY DEF TypeOK
<1>1. ASSUME UNCHANGED <<alert, ring, seededAlerts, seenAlertIDs, posted>>,
             \A k \in Polls : poll'[k].stage = "reply" => poll'[k].alerts \in {poll[k].alerts, ring},
             \A k \in Polls : poll'[k].stage = "reply" /\ poll'[k].alerts # ring =>
                                poll[k].stage = "reply"
      PROVE  AnnouncedInv'
  BY ZenonT(30), <1>1 DEF AnnouncedInv, Id
<1>2. CASE UNCHANGED vars
  BY <1>1, <1>2 DEF vars, raiseVars, appVars
<1>3. CASE RestartDaemon
  <2>1. Range(<<>>) = {}
    BY SMTT(30) DEF Range
  <2> QED BY ZenonT(30), <1>3, <2>1 DEF RestartDaemon, AnnouncedInv
<1>4. ASSUME NEW p \in Threads, Raise(p) PROVE AnnouncedInv'
  <2>1. Range(ring) \subseteq DOMAIN alert
    BY RangeOfSeq DEF TypeOK
  <2>2. \A n \in Range(ring) : Id(n)' = Id(n)
    BY ZenonT(30), <1>4, <2>1, RaiseStep DEF Id
  <2> QED BY ZenonT(30), <1>4, <2>2 DEF Raise, AnnouncedInv, appVars
<1>5. ASSUME NEW p \in Threads, InsertAlert(p) PROVE AnnouncedInv'
  BY <1>1, <1>5 DEF InsertAlert, Does, appVars
<1>6. ASSUME NEW k \in Polls, Refresh(k) \/ Status(k) \/ ApplyError(k) PROVE AnnouncedInv'
  <2>1. UNCHANGED <<alert, ring, seededAlerts, seenAlertIDs, posted>>
    BY <1>6 DEF Refresh, Status, ApplyError, raiseVars, appVars
  <2>2. \A l \in Polls : poll'[l].stage = "reply" =>
          \/ poll'[l].alerts = ring
          \/ poll'[l].alerts = poll[l].alerts /\ poll[l].stage = "reply"
    <3>1. \A l \in Polls \ {k} : poll'[l] = poll[l]
      BY ZenonT(30), <1>0, <1>6 DEF Refresh, Status, ApplyError
    <3>2. CASE Refresh(k) \/ ApplyError(k)
      <4>1. poll'[k].stage # "reply"
        BY SMTT(30), <1>0, <3>2 DEF Refresh, ApplyError, NoPoll
      <4> QED BY ZenonT(30), <3>1, <4>1
    <3>3. CASE Status(k)
      <4>1. poll'[k].alerts = ring
        BY SMTT(30), <1>0, <3>3 DEF Status
      <4> QED BY ZenonT(30), <3>1, <4>1
    <3> QED BY <1>6, <3>2, <3>3
  <2> QED BY ZenonT(30), <1>1, <2>1, <2>2
<1>7. CASE RestartApp
  <2>1. seededAlerts' = FALSE /\ \A k \in Polls : poll'[k].stage # "reply"
    BY SMTT(30), <1>7 DEF RestartApp, NoPoll
  <2> QED BY ZenonT(30), <2>1 DEF AnnouncedInv
<1> QED BY ZenonT(30), <1>2, <1>3, <1>4, <1>5, <1>6, <1>7, AddAnnounced, ApplyAnnounced DEF Next

-----------------------------------------------------------------------------
LEMMA InductiveInit == Init => Inductive
<1> SUFFICES ASSUME Init PROVE Inductive
  OBVIOUS
<1>1. Range(<<>>) = {} /\ NoPoll.alerts = <<>> /\ ~(0 > 0)
  BY SMTT(30) DEF Range, NoPoll
<1>2. /\ ring = <<>> /\ shown = <<>> /\ backlog = {} /\ alert = <<>> /\ seenAlertIDs = {}
      /\ \A p \in Threads : job[p] = NoJob
      /\ \A k \in Polls : poll[k].alerts = <<>>
      /\ \A n \in 1..MaxAlerts : posted[n] = 0
  BY ZenonT(30), <1>1 DEF Init
<1>3. \A n \in 1..MaxAlerts : ~Published(n)
  BY ZenonT(30), <1>1, <1>2 DEF Published
<1>4. DeliveryInv
  BY ZenonT(30), <1>2, <1>3 DEF DeliveryInv
<1>5. SeenInv /\ AnnouncedInv
  BY ZenonT(30), <1>1, <1>2 DEF SeenInv, AnnouncedInv
<1> QED BY <1>4, <1>5, TypeInit DEF Inductive

LEMMA InductiveStep == Inductive /\ [Next]_vars => Inductive'
BY TypeStep, DeliveryStep, SeenStep, AnnouncedStep DEF Inductive

\* What the parts of the program believe of an alert fits together: it is stored
\* before it is published, published once, seen before it is shown, and announced
\* by the time it is seen.
THEOREM FeedInductive == Spec => []Inductive
BY InductiveInit, InductiveStep, PTL DEF Spec

\* Whatever dies or is restarted, an announced alert is in the table, or its
\* insert failed.
THEOREM AnnouncedIsRecorded == Spec => []PostedIsRecorded
<1>1. Inductive => PostedIsRecorded
  BY ZenonT(30) DEF Inductive, TypeOK, DeliveryInv, Published, PostedIsRecorded
<1> QED BY <1>1, FeedInductive, PTL

\* No alert reaches the display of the app without a notification if it asks for
\* one, in whatever order the replies are applied.
THEOREM ShownIsAnnounced == Spec => []DisplayedIsPosted
<1>1. Inductive => DisplayedIsPosted
  <2> SUFFICES ASSUME TypeOK, SeenInv PROVE DisplayedIsPosted
    BY DEF Inductive
  <2>1. Range(shown) \subseteq DOMAIN alert
    BY RangeOfSeq DEF TypeOK
  <2> QED BY ZenonT(30), <2>1 DEF SeenInv, DisplayedIsPosted
<1> QED BY <1>1, FeedInductive, PTL

\* An alert is announced once, across restarts and replies out of order, as long
\* as it is in the ring; one of the backlog never.
THEOREM AnnouncedOnce == Spec => NoDoublePost
<1> DEFINE Once == \A n \in DOMAIN posted : posted'[n] # posted[n] =>
                     /\ seededAlerts /\ n \notin backlog
                     /\ posted[n] = 0 \/ n \notin Range(ring)
<1>1. Inductive /\ [Next]_vars => [Once]_vars
  <2> SUFFICES ASSUME TypeOK, SeenInv, AnnouncedInv, Next, NEW n \in DOMAIN posted,
                      posted'[n] # posted[n]
               PROVE  /\ seededAlerts /\ n \notin backlog
                      /\ posted[n] = 0 \/ n \notin Range(ring)
    BY DEF Inductive
  <2>1. PICK k \in Polls : Apply(k)
    BY ZenonT(30) DEF Next, RestartDaemon, RestartApp, Raise, InsertAlert, AddAlert, Does,
       Refresh, Status, ApplyError, appVars
  <2>2. posted[n] \in Nat /\ seededAlerts /\ Id(n) \notin seenAlertIDs
    BY ZenonT(30), <2>1, PostStep DEF TypeOK
  <2>3. n \notin backlog
    BY <2>2 DEF SeenInv
  <2>4. n \in Range(ring) => ~(posted[n] > 0)
    BY ZenonT(30), <2>2 DEF AnnouncedInv
  <2> QED BY <2>2, <2>3, <2>4
<1> QED BY <1>1, FeedInductive, PTL DEF Spec, NoDoublePost
==============================================================================

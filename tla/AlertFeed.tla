------------------------------ MODULE AlertFeed ------------------------------
(***************************************************************************)
(* How an alert travels: raised by the sampler (main.cpp) or by a thread   *)
(* of the scheduler (Scheduler::emit_alert), stored in the database,       *)
(* published in SharedState's ring, read by the accept thread for a status *)
(* request (ipc/api.cpp), polled by the menu-bar app (StatusStore.swift)   *)
(* and posted as a notification.  When the sampler raises one is           *)
(* AlertEngine.tla.                                                        *)
(***************************************************************************)
EXTENDS Integers, Sequences, FiniteSets, Functions

CONSTANTS
  Threads,    \* the sampler and threads of the scheduler that raise alerts
  Sampler,    \* the sampler
  Polls,      \* status requests of the app that are under way at the same time
  RingCap,    \* the cap of add_alert
  MaxAlerts, MaxRestarts    \* bounds: alerts, restarts of the two programs together

ASSUME FeedAssumption ==
  Sampler \in Threads /\ RingCap \in Nat \ {0} /\ MaxAlerts \in Nat /\ MaxRestarts \in Nat

VARIABLES
  alert,      \* the alerts raised so far; the other variables hold positions in it
  job,        \* job[p]: the alert that thread p delivers (0: none), and what is left to do
  rows,       \* table alerts
  failed,     \* alerts whose insert failed (a warning is logged)
  ring,       \* SharedState::alerts_
  poll,       \* poll[k]: a refresh of the app, and the alerts of its reply
  seededAlerts, seenAlertIDs,    \* StatusStore's
  backlog,    \* the alerts of the reply that seeded the app
  shown,      \* the alerts of StatusStore::status
  connected,  \* StatusStore::connected
  posted,     \* posted[n]: how many notifications the app posted for alert n
  restarts    \* how often the app or the daemon was restarted

raiseVars == <<alert, job, rows, failed>>
appVars   == <<seededAlerts, seenAlertIDs, backlog, shown, connected, posted>>
vars      == <<raiseVars, ring, poll, appVars, restarts>>

NoJob  == [n |-> 0, todo |-> <<>>]
NoPoll == [stage |-> "idle", alerts |-> <<>>]

\* AlertInfo.id of Models.swift.
Id(n) == <<alert[n].ts, alert[n].rule, alert[n].kind>>
Ids(alerts) == {Id(alerts[i]) : i \in DOMAIN alerts}

Init ==
  /\ alert = <<>> /\ job = [p \in Threads |-> NoJob]
  /\ rows = {} /\ failed = {} /\ ring = <<>>
  /\ poll = [k \in Polls |-> NoPoll]
  /\ seededAlerts = FALSE /\ seenAlertIDs = {} /\ backlog = {}
  /\ shown = <<>> /\ connected = FALSE /\ posted = [n \in 1..MaxAlerts |-> 0]
  /\ restarts = 0
-----------------------------------------------------------------------------
(* Raising and delivering.                                                 *)

\* Mutant: the alert is published before it is stored.
RingFirst == <<"ring", "row">>
\* Both threads store the alert, then publish it.  (The daemon's own
\* notification comes before the ring in the sampler and after it in
\* emit_alert; it changes nothing here but takes its time.)
Delivery == <<"row", "ring">>

\* The wall clock, in seconds: where it was, or later.
Now == IF alert = <<>> THEN {1} ELSE {alert[Len(alert)].ts, alert[Len(alert)].ts + 1}

\* The sampler has an event of engine->evaluate; emit_alert is called by a worker
\* whose job failed, or for a missed run.
Raise(p) ==
  /\ job[p] = NoJob /\ Len(alert) < MaxAlerts
  /\ \E a \in IF p = Sampler
              THEN [ts : Now, rule : {"rule"}, kind : {"firing", "recovered"}, notify : {TRUE}]
                   \cup [ts : Now, rule : {"rule"}, kind : {"firing"}, notify : {FALSE}]
              ELSE [ts : Now, rule : {"job"}, kind : {"firing"}, notify : {TRUE}] :
       alert' = Append(alert, a)
  /\ job' = [job EXCEPT ![p] = [n |-> Len(alert) + 1, todo |-> Delivery]]
  /\ UNCHANGED <<rows, failed, ring, poll, appVars, restarts>>

Does(p, what) ==
  /\ job[p] # NoJob /\ Head(job[p].todo) = what
  /\ job' = [job EXCEPT ![p] = IF Len(@.todo) = 1 THEN NoJob
                                    ELSE [n |-> @.n, todo |-> Tail(@.todo)]]
  /\ UNCHANGED <<alert, poll, appVars, restarts>>

\* insert_alert, or a DbError.
InsertAlert(p) ==
  /\ Does(p, "row")
  /\ \/ rows' = rows \cup {job[p].n} /\ UNCHANGED failed
     \/ failed' = failed \cup {job[p].n} /\ UNCHANGED rows
  /\ UNCHANGED ring

AddAlert(p) ==
  /\ Does(p, "ring")
  /\ LET all == <<job[p].n>> \o ring
     IN  ring' = SubSeq(all, 1, IF Len(all) > RingCap THEN RingCap ELSE Len(all))
  /\ UNCHANGED <<rows, failed>>

\* The daemon dies and is started again: the rows are all that is left.
RestartDaemon ==
  /\ restarts < MaxRestarts /\ restarts' = restarts + 1
  /\ job' = [p \in Threads |-> NoJob] /\ ring' = <<>>
  /\ UNCHANGED <<alert, rows, failed, poll, appVars>>
-----------------------------------------------------------------------------
(* Status requests and the app.                                            *)

\* refresh(): a detached task sends the request.
Refresh(k) ==
  /\ poll[k].stage = "idle"
  /\ poll' = [poll EXCEPT ![k].stage = "asked"]
  /\ UNCHANGED <<raiseVars, ring, appVars, restarts>>

\* Api::handle: the alerts of the reply are those of the ring.
Status(k) ==
  /\ poll[k].stage = "asked"
  /\ poll' = [poll EXCEPT ![k] = [stage |-> "reply", alerts |-> ring]]
  /\ UNCHANGED <<raiseVars, ring, appVars, restarts>>

\* send or decodeStatus throws: applyError.
ApplyError(k) ==
  /\ poll[k].stage = "asked"
  /\ connected' = FALSE /\ poll' = [poll EXCEPT ![k] = NoPoll]
  /\ UNCHANGED <<raiseVars, ring, seededAlerts, seenAlertIDs, backlog, shown, posted, restarts>>

\* Mutants: a rule is announced only once; the first reply is taken for news.
NotifyPerRule(alerts) ==
  /\ seededAlerts' = TRUE /\ seenAlertIDs' = seenAlertIDs \cup Ids(alerts)
  /\ backlog' = IF seededAlerts THEN backlog ELSE Range(alerts)
  /\ posted' = [n \in 1..MaxAlerts |->
       IF /\ seededAlerts /\ n \in Range(alerts) /\ alert[n].notify /\ alert[n].kind = "firing"
          /\ \A id \in seenAlertIDs : id[2] # alert[n].rule
       THEN posted[n] + 1 ELSE posted[n]]
NotifyBacklog(alerts) ==
  /\ seededAlerts' = TRUE /\ seenAlertIDs' = seenAlertIDs \cup Ids(alerts)
  /\ backlog' = IF seededAlerts THEN backlog ELSE Range(alerts)
  /\ posted' = [n \in 1..MaxAlerts |->
       IF n \in Range(alerts) /\ Id(n) \notin seenAlertIDs THEN posted[n] + 1 ELSE posted[n]]
\* notifyNewAlerts: the first reply is the backlog; later, of the alerts with a
\* new id the first one is posted if it is a firing one to be notified.
NotifyNewAlerts(alerts) ==
  /\ seededAlerts' = TRUE /\ seenAlertIDs' = seenAlertIDs \cup Ids(alerts)
  /\ backlog' = IF seededAlerts THEN backlog ELSE Range(alerts)
  /\ posted' = [n \in 1..MaxAlerts |->
       IF /\ seededAlerts
          /\ \E i \in DOMAIN alerts : alerts[i] = n /\ \A k \in 1..(i - 1) : Id(alerts[k]) # Id(n)
          /\ Id(n) \notin seenAlertIDs /\ alert[n].notify /\ alert[n].kind = "firing"
       THEN posted[n] + 1 ELSE posted[n]]

\* Mutant: only the first reply is applied.
ApplyOnce(k) ==
  /\ poll[k].stage = "reply"
  /\ \/ seededAlerts /\ UNCHANGED appVars
     \/ ~seededAlerts /\ NotifyNewAlerts(poll[k].alerts)
        /\ shown' = poll[k].alerts /\ connected' = TRUE
  /\ poll' = [poll EXCEPT ![k] = NoPoll]
  /\ UNCHANGED <<raiseVars, ring, restarts>>
\* apply, on the main actor, in whatever order the tasks get there.
Apply(k) ==
  /\ poll[k].stage = "reply"
  /\ NotifyNewAlerts(poll[k].alerts)
  /\ shown' = poll[k].alerts /\ connected' = TRUE
  /\ poll' = [poll EXCEPT ![k] = NoPoll]
  /\ UNCHANGED <<raiseVars, ring, restarts>>

\* The app is quit and opened again.
RestartApp ==
  /\ restarts < MaxRestarts /\ restarts' = restarts + 1
  /\ seededAlerts' = FALSE /\ seenAlertIDs' = {} /\ backlog' = {}
  /\ shown' = <<>> /\ connected' = FALSE
  /\ poll' = [k \in Polls |-> NoPoll]
  /\ UNCHANGED <<raiseVars, ring, posted>>
-----------------------------------------------------------------------------
Next == \/ RestartDaemon \/ RestartApp
        \/ \E p \in Threads : Raise(p) \/ InsertAlert(p) \/ AddAlert(p)
        \/ \E k \in Polls : Refresh(k) \/ Status(k) \/ ApplyError(k) \/ Apply(k)

Spec == Init /\ [][Next]_vars

\* The threads deliver, the timer goes off, requests and tasks get their turn.
Fairness == /\ \A p \in Threads : WF_vars(InsertAlert(p) \/ AddAlert(p))
            /\ \A k \in Polls : /\ WF_vars(Refresh(k)) /\ WF_vars(Status(k) \/ ApplyError(k))
                                /\ WF_vars(Apply(k))
FairSpec == Spec /\ Fairness
-----------------------------------------------------------------------------
\* The app announces an alert once, across its restarts and the daemon's and
\* whatever order replies are applied in, and never one of the reply that seeded
\* it ("so we don't notify for backlog").  The one exception is an alert that
\* has left the ring meanwhile: a reply that still has it may be applied late,
\* after a newer one has seeded the app.
NoDoublePost ==
  [][\A n \in DOMAIN posted : posted'[n] # posted[n] =>
       /\ seededAlerts /\ n \notin backlog
       /\ posted[n] = 0 \/ n \notin Range(ring)]_vars

\* Every alert on display that asks for a notification has had one, or was there
\* when the app was opened, or has the id of another alert (same rule, kind and
\* second: Models.swift).
DisplayedIsPosted ==
  \A n \in Range(shown) : alert[n].notify /\ alert[n].kind = "firing" =>
    \/ n \in backlog \/ posted[n] > 0
    \/ \E m \in DOMAIN alert \ {n} : Id(m) = Id(n)

\* What the app announced is in the database, even if the daemon died at once,
\* unless the insert failed.
PostedIsRecorded == \A n \in DOMAIN posted : posted[n] > 0 => n \in rows \cup failed

\* An alert in the ring comes to the attention of a connected app, unless newer
\* alerts or a restart push it out first.
PublishedIsSeen ==
  \A n \in 1..MaxAlerts :
    n \in Range(ring) /\ connected ~>
      ~connected \/ n \notin Range(ring) \/ Id(n) \in seenAlertIDs

\* Replies may be applied out of order, so the display may step back; but while
\* the app is connected it shows the ring as it is again and again.
DisplayCatchesUp == []<>(connected => shown = ring)
-----------------------------------------------------------------------------
(* The inductive invariant behind the safety properties above.             *)

Alert == [ts : Nat, rule : {"rule", "job"}, kind : {"firing", "recovered"}, notify : BOOLEAN]

\* The ring never holds more than add_alert's cap.
TypeOK ==
  /\ alert \in Seq(Alert) /\ Len(alert) <= MaxAlerts
  /\ job \in [Threads -> {NoJob} \cup [n : DOMAIN alert, todo : {Delivery, <<"ring">>}]]
  /\ rows \subseteq DOMAIN alert /\ failed \subseteq DOMAIN alert
  /\ ring \in Seq(DOMAIN alert) /\ Len(ring) <= RingCap
  /\ poll \in [Polls -> [stage : {"idle", "asked", "reply"}, alerts : Seq(DOMAIN alert)]]
  /\ seededAlerts \in BOOLEAN /\ connected \in BOOLEAN
  /\ seenAlertIDs \subseteq {Id(n) : n \in DOMAIN alert}
  /\ backlog \subseteq DOMAIN alert /\ shown \in Seq(DOMAIN alert)
  /\ posted \in [1..MaxAlerts -> Nat] /\ restarts \in 0..MaxRestarts

\* Alert n has been in the ring: it is there, in a reply, or in the app.
Published(n) ==
  \/ n \in Range(ring) \/ n \in Range(shown) \/ n \in backlog \/ posted[n] > 0
  \/ \E k \in Polls : n \in Range(poll[k].alerts)

\* A thread stores its alert before anyone can see it, publishes it once, and
\* shares it with no other thread.
DeliveryInv ==
  /\ \A n \in 1..MaxAlerts : Published(n) => n \in rows \cup failed
  /\ \A p \in Threads : job[p] # NoJob =>
       /\ job[p].todo = <<"ring">> => job[p].n \in rows \cup failed
       /\ ~Published(job[p].n)
       /\ \A q \in Threads \ {p} : job[q].n # job[p].n

\* What the app shows or was seeded with it has seen, and what it has seen it
\* has announced.
SeenInv ==
  /\ ~seededAlerts => seenAlertIDs = {} /\ backlog = {} /\ shown = <<>>
  /\ \A n \in Range(shown) \cup backlog : Id(n) \in seenAlertIDs
  /\ \A n \in DOMAIN alert :
       alert[n].notify /\ alert[n].kind = "firing" /\ Id(n) \in seenAlertIDs =>
         \/ n \in backlog \/ posted[n] > 0
         \/ \E m \in DOMAIN alert \ {n} : Id(m) = Id(n)

\* An announced alert that is still in the ring is known to the app, or will be
\* with its first reply, whichever of the replies under way that is.
AnnouncedInv ==
  \A n \in Range(ring) : posted[n] > 0 =>
    \/ Id(n) \in seenAlertIDs
    \/ /\ ~seededAlerts
       /\ \A k \in Polls : poll[k].stage = "reply" => n \in Range(poll[k].alerts)

Inductive == TypeOK /\ DeliveryInv /\ SeenInv /\ AnnouncedInv
==============================================================================

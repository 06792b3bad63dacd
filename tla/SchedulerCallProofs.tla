------------------------- MODULE SchedulerCallProofs -------------------------
(* Theorems about the operations that leave mutex_ and enter it again:     *)
(* add_job and remove_job when calls come one at a time, as they do from   *)
(* the accept thread of the socket server, the refinement of JobStore, and *)
(* scan_missed.                                                            *)
EXTENDS SchedulerProofs, SchedulerStore

OneCaller == \A a, b \in Apis : a = b

\* A step of another thread: calls, job set, table job_defs and the process stay.
LEMMA CallsFrame ==
  ASSUME CallsInv, UNCHANGED <<config, ui, api, db_defs, acked>>, Up' => Up
  PROVE  CallsInv'
BY Zenon DEF CallsInv, AllSettled, Settled, AckKept, InCall, Known

\* Process death: calls under way get no reply, job_defs keeps what it has.
LEMMA DieCalls ==
  ASSUME IndInv, CallsInv, Die
  PROVE  CallsInv'
<1>1. /\ \A j \in Jobs : acked'[j] = IF \E a \in Apis : Changing(a) /\ api[a].job = j
                                     THEN "unknown" ELSE acked[j]
      /\ \A a \in Apis : api'[a] = IdleApi
      /\ ui' = {} /\ db_defs' = db_defs /\ ~Up'
  BY Zenon DEF Die, Up, db
<1>2. ASSUME NEW a \in Apis, api[a].job \in Jobs, ~Changing(a)
      PROVE  Settled(api[a].job)
  <2>1. api[a] \in ApiState
    BY Zenon DEF IndInv, TypeOK, DataOK
  <2>2. api[a].pc # "idle"
    BY SMTT(30), <1>2, SchedulerAssumption DEF CallsInv, IdleApi
  <2>3. api[a].pc = "enqueue"
    BY Zenon, <1>2, <2>1, <2>2 DEF CallsInv, Changing, ApiState, ApiPcs
  <2> QED BY Zenon, <2>3 DEF CallsInv
<1>3. AllSettled'
  <2> SUFFICES ASSUME NEW j \in Jobs PROVE Settled(j)'
    BY Zenon DEF AllSettled
  <2>1. CASE \E a \in Apis : Changing(a) /\ api[a].job = j
    BY Zenon, <1>1, <2>1 DEF Settled, AckKept
  <2>2. CASE ~\E a \in Apis : Changing(a) /\ api[a].job = j
    <3>1. Settled(j)
      BY SMTT(30), <1>2, <2>2 DEF CallsInv, AllSettled, InCall
    <3> QED BY SMTT(30), <1>1, <2>2, <3>1 DEF Settled, AckKept
  <2> QED BY Zenon, <2>1, <2>2
<1> QED BY <1>1, <1>3 DEF CallsInv, IdleApi

\* A start reads job_defs back, so what was acknowledged is there again.
LEMMA BootCalls ==
  ASSUME IndInv, CallsInv, Boot
  PROVE  CallsInv'
<1>1. PICK c \in Configs : config' = c /\ ui' = db_defs \ c
  BY Zenon DEF Boot
<1>2. \A a \in Apis : api[a].pc = "idle"
  BY Zenon DEF Boot, IndInv, ThreadsInv
<1>3. UNCHANGED <<api, db_defs, acked>>
  BY SMTT(30) DEF Boot, db
<1>4. AllSettled'
  BY Zenon, <1>1, <1>3 DEF AllSettled, Settled, AckKept, InCall, CallsInv, Known
<1> QED BY Zenon, <1>2, <1>3, <1>4 DEF CallsInv

\* The steps of the only caller.
LEMMA ApiCalls ==
  ASSUME OneCaller, IndInv, CallsInv, NEW a \in Apis, ApiCall(a) \/ ApiStep(a)
  PROVE  CallsInv'
<1>0. PICK j : /\ j = api[a].job
               /\ api \in [Apis -> ApiState] /\ api[a] \in ApiState /\ Apis = {a}
               /\ acked \in [Jobs -> {"none", "added", "removed", "unknown"}]
  BY DEF OneCaller, IndInv, TypeOK, DataOK
<1>1. UNCHANGED <<phase, config>> /\ (Up' <=> Up)
  BY ZenonT(30) DEF ApiCall, RunCheck, AddCheck, RemoveCheck, Accept, ApiStep,
     RunEnqueue,
     AddUpsert, AddPush, RemoveDelete, RemoveErase, ApiSnapshot, ApiPublish, ApiFrame, Up
<1>2. ASSUME NEW k \in Jobs, AllSettled', api'[a].job = k,
             api'[a].pc # "idle",
             api'[a].pc = "enqueue" => api'[a].op = "run",
             api'[a].pc = "delete" => k \in ui',
             api'[a].pc \in {"enqueue", "upsert", "delete"} => Settled(k)',
             api'[a].pc \in {"upsert", "push"} => api'[a].op = "add" /\ k \notin Known',
             api'[a].pc \in {"delete", "erase"} => api'[a].op = "remove",
             api'[a].pc = "push" => k \in db_defs',
             api'[a].pc = "erase" => k \notin db_defs',
             api'[a].pc \in {"snapshot", "publish"} =>
               \/ api'[a].op = "add" /\ k \in db_defs' /\ k \in ui'
               \/ api'[a].op = "remove" /\ k \notin db_defs' /\ k \notin ui'
      PROVE  CallsInv'
  BY SMTT(30), <1>0, <1>2 DEF CallsInv
<1>3. ASSUME api'[a] = IdleApi, AllSettled' PROVE CallsInv'
  BY SMTT(30), <1>0, <1>3 DEF CallsInv, IdleApi
<1>4. \A k \in Jobs : k # j => ~InCall(k) /\ Settled(k)
  BY Zenon, <1>0 DEF CallsInv, AllSettled, InCall
<1>5. CASE ApiCall(a)
  <2>1. PICK k \in Jobs : RunCheck(a, k) \/ AddCheck(a, k) \/ RemoveCheck(a, k)
    BY Zenon, <1>0, <1>5 DEF ApiCall
  <2>2. UNCHANGED <<ui, db_defs, acked>> /\ api[a].pc = "idle"
    BY SMTT(30), <1>0, <2>1 DEF RunCheck, AddCheck, RemoveCheck, Accept
  <2>3. j = NoJob /\ \A m \in Jobs : Settled(m)
    BY SMTT(30), <1>0, <1>4, <2>2, SchedulerAssumption DEF CallsInv, IdleApi
  <2>4. \A m \in Jobs : Settled(m)'
    BY SMTT(30), <1>0, <1>1, <2>2, <2>3 DEF Settled, AckKept, Known
  <2>5. CASE RunCheck(a, k)
    <3>1. api'[a].pc = "enqueue" /\ api'[a].op = "run" /\ api'[a].job = k
      BY SMTT(30), <1>0, <2>5 DEF RunCheck, Accept, IdleApi
    <3> QED BY Zenon, <1>0, <1>2, <2>4, <3>1 DEF AllSettled
  <2>6. CASE AddCheck(a, k)
    <3>1. api'[a].pc = "upsert" /\ api'[a].job = k /\ api'[a].op = "add" /\ k \notin Known
      BY SMTT(30), <1>0, <2>6 DEF AddCheck, Accept, IdleApi
    <3> QED BY SMTT(30), <1>0, <1>1, <1>2, <2>2, <2>4, <3>1 DEF AllSettled, Known
  <2>7. CASE RemoveCheck(a, k)
    <3>1. api'[a].pc = "delete" /\ api'[a].job = k /\ api'[a].op = "remove" /\ k \in ui'
      BY Zenon, <1>0, <2>2, <2>7 DEF RemoveCheck, Accept, IdleApi
    <3> QED BY Zenon, <1>0, <1>2, <2>4, <3>1 DEF AllSettled
  <2> QED BY Zenon, <2>1, <2>5, <2>6, <2>7
<1>6. CASE ApiStep(a)
  <2>1. api[a].pc # "idle" /\ j \in Jobs
    BY Zenon, <1>0, <1>6 DEF ApiStep, RunEnqueue, AddUpsert, AddPush, RemoveDelete,
       RemoveErase,
       ApiSnapshot, ApiPublish, IndInv, ThreadsInv
  \* The jobs that are not called keep what was acknowledged about them.
  <2>2. ASSUME NEW k \in Jobs, k # j, acked'[k] = acked[k],
               k \in ui' <=> k \in ui, k \in db_defs' <=> k \in db_defs
        PROVE  Settled(k)'
    <3>1. Settled(k)
      BY Zenon, <1>4, <2>2
    <3>2. k \in Known' <=> k \in Known
      BY Zenon, <1>1, <2>2 DEF Known
    <3> QED BY Zenon, <1>1, <2>2, <3>1, <3>2 DEF Settled, AckKept
  <2>3. CASE RunEnqueue(a)
    <3>1. UNCHANGED <<ui, db_defs, acked>> /\ api'[a] = IdleApi /\ Settled(j)
      BY SMTT(30), <1>0, <2>3 DEF RunEnqueue, CallsInv
    <3>2. Settled(j)'
      BY SMTT(30), <1>0, <1>1, <3>1 DEF Settled, AckKept, Known
    <3> QED BY SMTT(30), <1>0, <1>3, <2>2, <3>1, <3>2 DEF AllSettled
  <2>4. CASE AddUpsert(a)
    <3>1. /\ UNCHANGED <<ui, acked>>
          /\ Settled(j) /\ j \notin Known /\ api[a].op = "add"
      BY Zenon, <1>0, <2>4 DEF AddUpsert, CallsInv
    <3>2. CASE db_defs' = db_defs /\ api' = [api EXCEPT ![a] = IdleApi]
      <4>1. Settled(j)' /\ api'[a] = IdleApi
        BY SMTT(30), <1>0, <1>1, <3>1, <3>2 DEF Settled, AckKept, Known
      <4> QED BY SMTT(30), <1>0, <1>3, <2>2, <3>1, <3>2, <4>1 DEF AllSettled
    <3>3. CASE db_defs' = db_defs \cup {j} /\ Goto(a, "push")
      <4>1. api'[a].pc = "push" /\ api'[a].job = j /\ api'[a].op = "add"
        BY SMTT(30), <1>0, <3>1, <3>3 DEF Goto, ApiState
      <4>2. InCall(j)' /\ j \notin Known'
        BY SMTT(30), <1>0, <1>1, <3>1, <4>1 DEF InCall, Known
      <4> QED BY SMTT(30), <1>0, <1>2, <2>1, <2>2, <3>1, <3>3, <4>1, <4>2
                 DEF AllSettled
    <3> QED BY SMTT(30), <1>0, <2>4, <3>2, <3>3 DEF AddUpsert
  <2>5. CASE AddPush(a)
    <3>1. /\ UNCHANGED <<db_defs, acked>> /\ ui' = ui \cup {j}
          /\ j \in db_defs /\ api[a].op = "add"
      BY Zenon, <1>0, <2>5 DEF AddPush, CallsInv
    <3>2. api'[a].pc = "snapshot" /\ api'[a].job = j /\ api'[a].op = "add"
      BY SMTT(30), <1>0, <2>5, <3>1 DEF AddPush, Goto, ApiState
    <3>3. InCall(j)'
      BY Zenon, <1>0, <3>2 DEF InCall
    <3> QED BY SMTT(30), <1>0, <1>2, <2>1, <2>2, <3>1, <3>2, <3>3 DEF AllSettled
  <2>6. CASE RemoveDelete(a)
    <3>1. UNCHANGED <<ui, acked>> /\ Settled(j) /\ api[a].op = "remove"
      BY SMTT(30), <1>0, <2>6 DEF RemoveDelete, CallsInv
    <3>2. CASE db_defs' = db_defs /\ api' = [api EXCEPT ![a] = IdleApi]
      <4>1. Settled(j)' /\ api'[a] = IdleApi
        BY SMTT(30), <1>0, <1>1, <3>1, <3>2 DEF Settled, AckKept, Known
      <4> QED BY SMTT(30), <1>0, <1>3, <2>2, <3>1, <3>2, <4>1 DEF AllSettled
    <3>3. CASE db_defs' = db_defs \ {j} /\ Goto(a, "erase")
      <4>1. api'[a].pc = "erase" /\ api'[a].job = j /\ api'[a].op = "remove"
        BY SMTT(30), <1>0, <3>1, <3>3 DEF Goto, ApiState
      <4>2. InCall(j)'
        BY SMTT(30), <1>0, <4>1 DEF InCall
      <4> QED BY SMTT(30), <1>0, <1>2, <2>1, <2>2, <3>1, <3>3, <4>1, <4>2
                 DEF AllSettled
    <3> QED BY SMTT(30), <1>0, <2>6, <3>2, <3>3 DEF RemoveDelete
  <2>7. CASE RemoveErase(a)
    <3>1. /\ UNCHANGED <<db_defs, acked>> /\ ui' = ui \ {j}
          /\ j \notin db_defs /\ api[a].op = "remove"
      BY Zenon, <1>0, <2>7 DEF RemoveErase, CallsInv
    <3>2. api'[a].pc = "snapshot" /\ api'[a].job = j /\ api'[a].op = "remove"
      BY SMTT(30), <1>0, <2>7, <3>1 DEF RemoveErase, Goto, ApiState
    <3>3. InCall(j)'
      BY SMTT(30), <1>0, <3>2 DEF InCall
    <3> QED BY SMTT(30), <1>0, <1>2, <2>1, <2>2, <3>1, <3>2, <3>3 DEF AllSettled
  <2>8. CASE ApiSnapshot(a)
    <3>1. UNCHANGED <<ui, db_defs, acked>>
      BY Zenon, <1>0, <2>8 DEF ApiSnapshot
    <3>2. api'[a].pc = "publish" /\ api'[a].job = j /\ api'[a].op = api[a].op
      BY SMTT(30), <1>0, <2>8 DEF ApiSnapshot, ApiState
    <3>3. InCall(j)'
      BY Zenon, <1>0, <3>2 DEF InCall
    <3>4. \/ api[a].op = "add" /\ j \in db_defs /\ j \in ui
          \/ api[a].op = "remove" /\ j \notin db_defs /\ j \notin ui
      BY SMTT(30), <1>0, <2>8 DEF ApiSnapshot, CallsInv
    <3> QED BY SMTT(30), <1>0, <1>2, <2>1, <2>2, <3>1, <3>2, <3>3, <3>4 DEF AllSettled
  <2>9. CASE ApiPublish(a)
    <3>1. /\ UNCHANGED <<ui, db_defs>> /\ api'[a] = IdleApi
          /\ \/ api[a].op = "add" /\ j \in db_defs /\ j \in ui
             \/ api[a].op = "remove" /\ j \notin db_defs /\ j \notin ui
      BY Zenon, <1>0, <2>9 DEF ApiPublish, CallsInv
    <3>2. /\ \A k \in Jobs \ {j} : acked'[k] = acked[k]
          /\ acked'[j] = IF api[a].op = "add" THEN "added" ELSE "removed"
      BY SMTT(30), <1>0, <2>1, <2>9 DEF ApiPublish
    <3>3. Settled(j)'
      BY Zenon, <1>0, <1>1, <3>1, <3>2 DEF Settled, AckKept, Known
    <3> QED BY SMTT(30), <1>0, <1>3, <2>2, <3>1, <3>2, <3>3 DEF AllSettled
  <2> QED BY SMTT(30), <1>6, <2>3, <2>4, <2>5, <2>6, <2>7, <2>8, <2>9 DEF ApiStep
<1> QED BY Zenon, <1>5, <1>6

\* Every step of every thread keeps the account of the calls.
LEMMA NextCalls ==
  ASSUME OneCaller, IndInv, CallsInv, [Next]_vars
  PROVE  CallsInv'
<1> USE DEF memory, flags, loop, db
<1>1. CASE Tick \/ StopServer \/ Joins \/ NotifyWake \/ Halted \/ UNCHANGED vars
  BY Zenon, <1>1, CallsFrame DEF Tick, StopServer, Joins, Stop, JoinLoop, JoinWorkers,
     NotifyWake, Halted, vars, Up
<1>2. CASE LoopStep
  <2>1. ASSUME NEW j \in Jobs, Launch(j) PROVE CallsInv'
    <3>1. CASE Die
      BY Zenon, <3>1, DieCalls
    <3>2. CASE ~Die
      BY SMTT(30), <2>1, <3>2, CallsFrame DEF Launch, Up
    <3> QED BY Zenon, <3>1, <3>2
  <2>2. CASE LoopTop \/ LoopExit \/ Dispatch \/ LaunchedAll \/ LoopSnapshot \/ LoopPublish
    BY Zenon, <2>2, CallsFrame DEF LoopTop, LoopExit, Dispatch, LaunchedAll, LoopSnapshot,
       LoopPublish, LoopFrame, Up
  <2> QED BY Zenon, <1>2, <2>1, <2>2 DEF LoopStep
<1>3. ASSUME NEW p \in Scanners, ScanStep(p) PROVE CallsInv'
  <2>1. UNCHANGED <<config, ui, api, db_defs, acked>>
    BY ZenonT(30), <1>3 DEF ScanStep, ScanBegin, ScanRead, ScanMark, ScanAlert,
       ScanEnqueue, ScanEnd,
       ScanFrame
  <2>2. Up' => Up
    <3>1. CASE ScanEnd(p)
      BY SMTT(30), <3>1 DEF ScanEnd, Up, IndInv, ThreadsInv
    <3> QED BY ZenonT(30), <1>3, <3>1 DEF ScanStep, ScanBegin, ScanRead, ScanMark,
               ScanAlert,
         ScanEnqueue, Up
  <2> QED BY SMTT(30), <2>1, <2>2, CallsFrame
<1>4. ASSUME NEW t \in Tasks, WorkerStep(t) PROVE CallsInv'
  BY Zenon, <1>4, CallsFrame DEF WorkerStep, WorkerCheck, CommandEnds, WorkerPersist,
     InsertRun,
     WorkerRecord, WorkerReport, WorkerFinish, WorkerFrame, Up
<1> QED BY SMTT(30), <1>1, <1>2, <1>3, <1>4, BootCalls, DieCalls, ApiCalls DEF Next,
           Crash

\* With one caller, CallsInv holds in every reachable state.
LEMMA CallsInvariant == ASSUME OneCaller PROVE Spec => []CallsInv
<1>1. Init => CallsInv
  BY SchedulerAssumption DEF Init, CallsInv, AllSettled, Settled, AckKept, InCall,
     IdleApi, Up
<1>2. IndInv /\ CallsInv /\ [Next]_vars => CallsInv'
  BY Zenon, NextCalls
<1> QED BY <1>1, <1>2, Inductive, PTL DEF Spec

\* An acknowledged add_job or remove_job survives database errors, crashes at
\* any point and restarts.
THEOREM AcksAreDurable == ASSUME OneCaller PROVE Spec => []AckDurable
<1>1. CallsInv => AckDurable
  BY SMTT(30) DEF CallsInv, AllSettled, Settled, AckDurable
<1> QED BY <1>1, CallsInvariant, PTL

-----------------------------------------------------------------------------
(* With one caller at a time the scheduler implements JobStore.            *)

\* A step that touches neither a call nor the table is a stutter of JobStore.
LEMMA StoreFrame ==
  ASSUME UNCHANGED <<api, db_defs, acked>> PROVE UNCHANGED Store!vars
BY SMTT(30) DEF Store!vars, StoreCall, Changing

\* The death of the process is JobStore's crash.
LEMMA DieStore ==
  ASSUME Die PROVE Store!Crash
<1>1. StoreCall' = [a \in Apis |-> Store!NoCall]
  BY SMTT(30) DEF Die, IdleApi, StoreCall, Changing, Store!NoCall
<1>2. ASSUME NEW j \in Jobs
      PROVE  (\E a \in Apis : StoreCall[a].name = j) <=>
             (\E a \in Apis : Changing(a) /\ api[a].job = j)
  BY SMTT(30), SchedulerAssumption DEF StoreCall
<1>3. acked' = [j \in Jobs |-> IF \E a \in Apis : StoreCall[a].name = j
                               THEN "unknown" ELSE acked[j]]
  BY Zenon, <1>2 DEF Die
<1> QED BY SMTT(30), <1>1, <1>3 DEF Die, db, Store!Crash

\* The steps of a call: the first check begins it, the write of the table is its
\* effect, a DbError rejects it, the end of publish_status replies.
LEMMA ApiStore ==
  ASSUME IndInv, CallsInv, NEW a \in Apis, ApiCall(a) \/ ApiStep(a)
  PROVE  Store!Next \/ UNCHANGED Store!vars
<1>0. /\ api \in [Apis -> ApiState] /\ api[a] \in ApiState
      /\ api[a].pc # "idle" => api[a].job \in Jobs /\ Up
  BY SMTT(30) DEF IndInv, TypeOK, DataOK, ThreadsInv, Up
<1> DEFINE Done == {"push", "erase", "snapshot", "publish"}
           Rec(s) == [op |-> api[a].op, name |-> api[a].job, stage |-> s]
<1>1. /\ ~Changing(a) => StoreCall[a] = Store!NoCall
      /\ Changing(a) /\ api[a].pc \in Done => StoreCall[a] = Rec("done")
      /\ Changing(a) /\ api[a].pc \in {"upsert", "delete"} => StoreCall[a] = Rec("asked")
  BY SMTT(30) DEF StoreCall, Store!NoCall
<1>2. \A b \in Apis \ {a} : api'[b] = api[b]
  BY ZenonT(30), <1>0 DEF ApiCall, RunCheck, AddCheck, RemoveCheck, Accept, ApiStep,
     RunEnqueue,
     AddUpsert, AddPush, RemoveDelete, RemoveErase, ApiSnapshot, ApiPublish, Goto
<1>3. /\ ~Changing(a)' => StoreCall' = [StoreCall EXCEPT ![a] = Store!NoCall]
      /\ Changing(a)' /\ api'[a].pc \in Done =>
           StoreCall' = [StoreCall EXCEPT ![a] =
                           [op |-> api'[a].op, name |-> api'[a].job, stage |-> "done"]]
      /\ Changing(a)' /\ api'[a].pc \in {"upsert", "delete"} =>
           StoreCall' = [StoreCall EXCEPT ![a] =
                           [op |-> api'[a].op, name |-> api'[a].job, stage |-> "asked"]]
  BY ZenonT(30), <1>2 DEF StoreCall, Changing, Store!NoCall
<1>4. CASE ApiCall(a)
  <2>1. PICK j \in Jobs : RunCheck(a, j) \/ AddCheck(a, j) \/ RemoveCheck(a, j)
    BY Zenon, <1>4 DEF ApiCall
  <2>2. UNCHANGED <<db_defs, acked>> /\ api[a].pc = "idle"
    BY Zenon, <2>1 DEF RunCheck, AddCheck, RemoveCheck, Accept
  <2>3. StoreCall[a] = Store!NoCall
    BY <1>1, <2>2 DEF CallsInv, IdleApi, Changing
  <2>4. CASE RunCheck(a, j)
    <3>1. ~Changing(a)'
      BY SMTT(30), <1>0, <2>4 DEF RunCheck, Accept, IdleApi, Changing
    <3>2. StoreCall' = StoreCall
      BY ZenonT(30), <1>3, <2>3, <3>1 DEF StoreCall
    <3> QED BY Zenon, <2>2, <3>2 DEF Store!vars
  <2>5. CASE AddCheck(a, j)
    <3>1. api'[a].op = "add" /\ api'[a].job = j /\ api'[a].pc = "upsert"
      BY Zenon, <1>0, <2>5 DEF AddCheck, Accept, IdleApi
    <3>2. StoreCall' = [StoreCall EXCEPT ![a] = [op |-> "add", name |-> j, stage |-> "asked"]]
      BY Zenon, <1>3, <3>1 DEF Changing
    <3> QED BY Zenon, <2>2, <2>3, <3>2 DEF Store!Next, Store!Begin
  <2>6. CASE RemoveCheck(a, j)
    <3>1. api'[a].op = "remove" /\ api'[a].job = j /\ api'[a].pc = "delete"
      BY Zenon, <1>0, <2>6 DEF RemoveCheck, Accept, IdleApi
    <3>2. StoreCall' = [StoreCall EXCEPT ![a] = [op |-> "remove", name |-> j, stage |-> "asked"]]
      BY Zenon, <1>3, <3>1 DEF Changing
    <3> QED BY ZenonT(30), <2>2, <2>3, <3>2 DEF Store!Next, Store!Begin
  <2> QED BY Zenon, <2>1, <2>4, <2>5, <2>6
\* A DbError, and the write of the table.
<1>5. ASSUME api' = [api EXCEPT ![a] = IdleApi], UNCHANGED <<db_defs, acked>>,
             Changing(a), api[a].pc \in {"upsert", "delete"}
      PROVE  Store!Reject(a)
  <2>1. ~Changing(a)'
    BY Zenon, <1>0, <1>5 DEF IdleApi, Changing
  <2>2. StoreCall[a].stage = "asked"
    BY <1>1, <1>5
  <2> QED BY Zenon, <1>3, <1>5, <2>1, <2>2 DEF Store!Reject
<1>6. ASSUME NEW pc \in {"push", "erase"}, Goto(a, pc), Changing(a), UNCHANGED acked,
             api[a].pc \in {"upsert", "delete"},
             \/ /\ api[a].op = "add" /\ api[a].job \notin db_defs
                /\ db_defs' = db_defs \cup {api[a].job}
             \/ /\ api[a].op = "remove" /\ api[a].job \in db_defs
                /\ db_defs' = db_defs \ {api[a].job}
      PROVE  Store!Effect(a)
  <2>1. api'[a].op = api[a].op /\ api'[a].job = api[a].job /\ api'[a].pc = pc
    BY SMTT(30), <1>0, <1>6 DEF Goto, ApiState
  <2>2. StoreCall' = [StoreCall EXCEPT ![a] = Rec("done")]
    BY SMTT(30), <1>3, <1>6, <2>1 DEF Changing
  <2>3. StoreCall[a] = Rec("asked")
    BY Zenon, <1>1, <1>6
  <2>4. [StoreCall[a] EXCEPT !.stage = "done"] = Rec("done")
    BY <2>3
  <2>5. StoreCall' = [StoreCall EXCEPT ![a].stage = "done"]
    BY Zenon, <2>2, <2>4
  <2> QED BY <1>6, <2>3, <2>5 DEF Store!Effect
<1>7. CASE RunEnqueue(a)
  <2>1. ~Changing(a) /\ ~Changing(a)' /\ UNCHANGED <<db_defs, acked>>
    BY Zenon, <1>0, <1>7 DEF RunEnqueue, CallsInv, Changing, IdleApi
  <2>2. StoreCall' = StoreCall
    BY ZenonT(30), <1>1, <1>3, <2>1 DEF StoreCall
  <2> QED BY Zenon, <2>1, <2>2 DEF Store!vars
<1>8. CASE AddUpsert(a)
  <2>1. Changing(a) /\ api[a].op = "add" /\ api[a].job \notin db_defs
    BY Zenon, <1>0, <1>8 DEF AddUpsert, CallsInv, Changing, Settled
  <2> QED BY Zenon, <1>5, <1>6, <1>8, <2>1 DEF AddUpsert, Store!Next
<1>9. CASE RemoveDelete(a)
  <2>1. Changing(a) /\ api[a].op = "remove" /\ api[a].job \in db_defs
    BY SMTT(30), <1>0, <1>9 DEF RemoveDelete, CallsInv, Changing, Settled
  <2> QED BY Zenon, <1>5, <1>6, <1>9, <2>1 DEF RemoveDelete, Store!Next
<1>10. CASE AddPush(a) \/ RemoveErase(a) \/ ApiSnapshot(a)
  <2>1. /\ UNCHANGED <<db_defs, acked>> /\ api'[a].op = api[a].op /\ api'[a].job = api[a].job
        /\ api'[a].pc \in Done /\ api[a].pc \in Done
    BY SMTT(30), <1>0, <1>10 DEF AddPush, RemoveErase, ApiSnapshot, Goto, ApiState
  <2>2. Changing(a) /\ Changing(a)'
    BY SMTT(30), <1>10, <2>1 DEF Changing, CallsInv, AddPush, RemoveErase, ApiSnapshot
  <2>3. StoreCall' = [StoreCall EXCEPT ![a] = Rec("done")] /\ StoreCall[a] = Rec("done")
    BY Zenon, <1>1, <1>3, <2>1, <2>2
  <2> QED BY Zenon, <2>1, <2>3 DEF StoreCall, Store!vars
<1>11. CASE ApiPublish(a)
  <2>1. Changing(a) /\ ~Changing(a)' /\ api[a].pc \in Done
    BY SMTT(30), <1>0, <1>11 DEF ApiPublish, CallsInv, Changing, IdleApi
  <2>2. StoreCall[a] = Rec("done") /\ StoreCall' = [StoreCall EXCEPT ![a] = Store!NoCall]
    BY SMTT(30), <1>1, <1>3, <2>1
  <2>3. Store!Reply(a)
    BY <1>11, <2>2 DEF ApiPublish, Store!Reply
  <2> QED BY SMTT(30), <2>3 DEF Store!Next
<1> QED BY SMTT(30), <1>4, <1>7, <1>8, <1>9, <1>10, <1>11 DEF ApiStep

\* Every step of the scheduler is a step of JobStore or a stutter.
LEMMA NextStore ==
  ASSUME IndInv, CallsInv, [Next]_vars
  PROVE  [Store!Next]_(Store!vars)
<1> USE DEF memory, flags, loop, db
<1>1. CASE Tick \/ Boot \/ StopServer \/ Joins \/ NotifyWake \/ Halted \/ UNCHANGED vars
  BY Zenon, <1>1, StoreFrame DEF Tick, Boot, StopServer, Joins, Stop, JoinLoop, JoinWorkers,
     NotifyWake, Halted, vars
<1>2. CASE LoopStep
  <2>1. ASSUME NEW j \in Jobs, Launch(j) PROVE [Store!Next]_(Store!vars)
    <3>1. CASE Die
      BY Zenon, <3>1, DieStore DEF Store!Next
    <3>2. CASE ~Die
      BY SMTT(30), <2>1, <3>2, StoreFrame DEF Launch
    <3> QED BY Zenon, <3>1, <3>2
  <2>2. CASE LoopTop \/ LoopExit \/ Dispatch \/ LaunchedAll \/ LoopSnapshot \/ LoopPublish
    BY Zenon, <2>2, StoreFrame DEF LoopTop, LoopExit, Dispatch, LaunchedAll, LoopSnapshot,
       LoopPublish, LoopFrame
  <2> QED BY Zenon, <1>2, <2>1, <2>2 DEF LoopStep
<1>3. ASSUME NEW p \in Scanners, ScanStep(p) PROVE [Store!Next]_(Store!vars)
  <2>1. UNCHANGED <<api, db_defs, acked>>
    BY <1>3, ZenonT(30) DEF ScanStep, ScanBegin, ScanRead, ScanMark, ScanAlert,
       ScanEnqueue, ScanEnd, ScanFrame
  <2> QED BY Zenon, <2>1, StoreFrame
<1>4. ASSUME NEW t \in Tasks, WorkerStep(t) PROVE [Store!Next]_(Store!vars)
  BY SMTT(30), <1>4, StoreFrame DEF WorkerStep, WorkerCheck, CommandEnds,
     WorkerPersist, InsertRun,
     WorkerRecord, WorkerReport, WorkerFinish, WorkerFrame
<1>5. CASE Crash
  BY Zenon, <1>5, DieStore DEF Crash, Store!Next
<1>6. ASSUME NEW a \in Apis, ApiCall(a) \/ ApiStep(a) PROVE [Store!Next]_(Store!vars)
  BY Zenon, <1>6, ApiStore
<1> QED BY SMTT(30), <1>1, <1>2, <1>3, <1>4, <1>5, <1>6 DEF Next

\* With one caller the scheduler implements the durable, atomic set of jobs of
\* JobStore: a crash between any two of its critical sections included.
THEOREM SchedulerRefinesJobStore == ASSUME OneCaller PROVE Spec => ImplementsJobStore
<1>1. Init => Store!Init
  BY DEF Init, Store!Init, StoreCall, Changing, IdleApi, Store!NoCall
<1>2. IndInv /\ CallsInv /\ [Next]_vars => [Store!Next]_(Store!vars)
  BY Zenon, NextStore
<1> QED BY <1>1, <1>2, Inductive, CallsInvariant, PTL DEF Spec, ImplementsJobStore,
           Store!Spec

-----------------------------------------------------------------------------
(* A scan accounts for every job it was to look at.                        *)

\* The steps of a scan leave no job out.
LEMMA OwnScan ==
  ASSUME IndInv, RunsInv, ScanInv, [Next]_vars, Up, Up', NEW p \in Scanners, ScanStep(p),
         scan'[p].pc \notin {"idle", "begin"}, NEW j \in config \cap Recover
  PROVE  \/ j \in scan'[p].cands
         \/ /\ scan'[p].pc = "mark" /\ scan'[p].job = j
            /\ scan'[p].missed = PrevIn(Occ[j], scan'[p].now)
         \/ Covered(p, j)'
<1>0. /\ DataOK /\ scan[p] \in ScanState /\ ThreadsInv /\ DataOK'
      /\ j \in Jobs /\ j \in config /\ j \in Recover
  BY Zenon, NextType DEF IndInv, TypeOK, DataOK
<1>1. CASE ScanBegin(p)
  <2>1. scan'[p].cands = {k \in Known \cap Recover : Occ[k] # {}}
    BY SMTT(30), <1>0, <1>1 DEF ScanBegin, NoScan, DataOK
  <2>2. CASE Occ[j] = {}
    <3>1. PrevIn(Occ[j], scan'[p].now) = 0
      BY <2>2, Zenon DEF PrevIn
    <3>2. last_runs'[j] \in Nat
      BY SMTT(30), <1>0 DEF DataOK
    <3>3. 0 <= last_runs'[j]
      BY <3>2
    <3> QED BY <3>1, <3>3, Zenon DEF Covered
  <2>3. CASE Occ[j] # {}
    BY <1>0, <2>1, <2>3, Zenon DEF Known
  <2> QED BY Zenon, <2>2, <2>3
<1>2. CASE ScanRead(p)
  <2>1. PICK k \in scan[p].cands :
          scan' = [scan EXCEPT ![p] =
            IF DetectMissed(k, last_runs[k], scan[p].now) = 0
            THEN [scan[p] EXCEPT !.cands = scan[p].cands \ {k}]
            ELSE [scan[p] EXCEPT !.cands = scan[p].cands \ {k}, !.pc = "mark",
                    !.job = k, !.missed = DetectMissed(k, last_runs[k], scan[p].now)]]
    BY Zenon, <1>2 DEF ScanRead
  <2>2. scan'[p].cands = scan[p].cands \ {k} /\ scan'[p].now = scan[p].now
    BY SMTT(30), <1>0, <2>1 DEF DataOK, ScanState
  <2>3. CASE j # k
    <3>1. j \in scan[p].cands \/ Covered(p, j)
      BY SMTT(30), <1>0, <1>2 DEF ScanInv, ScanRead
    <3>2. Covered(p, j) => Covered(p, j)'
      BY ZenonT(30), <1>0, <2>2, CoveredKept
    <3> QED BY <2>2, <2>3, <3>1, <3>2, Zenon
  <2>4. CASE j = k
    <3> DEFINE o == PrevIn(Occ[j], scan[p].now)
    <3>1. o \in Nat /\ last_runs[j] \in Nat
      <4>1. scan[p].now \in Nat /\ last_runs[j] \in Nat
        BY SMTT(30), <1>0 DEF DataOK, ScanState
      <4> QED BY Zenon, <1>0, <4>1, PrevInType
    <3>2. DetectMissed(j, last_runs[j], scan[p].now) = IF last_runs[j] >= o THEN 0 ELSE o
      BY Zenon DEF DetectMissed, MissedIn
    <3> HIDE DEF o
    <3>3. CASE last_runs[j] >= o
      <4>1. o <= last_runs[j]
        BY Zenon, <3>1, <3>3
      <4>2. Covered(p, j)
        BY <4>1, Zenon DEF Covered, o
      <4> QED BY ZenonT(30), <1>0, <2>2, <4>2, CoveredKept
    <3>4. CASE ~(last_runs[j] >= o)
      <4>1. DetectMissed(j, last_runs[j], scan[p].now) = o /\ o # 0
        BY <3>1, <3>2, <3>4
      <4>2. scan'[p].pc = "mark" /\ scan'[p].job = j /\ scan'[p].missed = o
        BY SMTT(30), <1>0, <2>1, <2>4, <4>1 DEF DataOK, ScanState
      <4> QED BY <2>2, <4>2, Zenon DEF o
    <3> QED BY Zenon, <3>3, <3>4
  <2> QED BY Zenon, <2>3, <2>4
<1>3. CASE ScanMark(p)
  <2>1. scan'[p].cands = scan[p].cands /\ scan'[p].now = scan[p].now
    <3>1. ~ScanEnd(p)
      BY <1>3, Zenon DEF ScanMark, ScanEnd
    <3> QED BY <1>0, <1>3, <3>1, ScanLocals, Zenon
  <2>2. \/ j \in scan[p].cands
        \/ scan[p].job = j /\ scan[p].missed = PrevIn(Occ[j], scan[p].now)
        \/ Covered(p, j)
    BY SMTT(30), <1>0, <1>3 DEF ScanInv, ScanMark
  <2>3. CASE scan[p].job = j /\ scan[p].missed = PrevIn(Occ[j], scan[p].now)
    <3>1. scan[p].missed <= missed_handled'[j]
      <4>1. scan[p].missed \in Nat /\ missed_handled[j] \in Nat
        BY SMTT(30), <1>0 DEF DataOK, ScanState
      <4> QED BY SMTT(30), <1>0, <1>3, <2>3, <4>1 DEF ScanMark, Handled, DataOK
    <3> QED BY <2>1, <2>3, <3>1, Zenon DEF Covered
  <2>4. Covered(p, j) => Covered(p, j)'
    BY ZenonT(30), <1>0, <2>1, CoveredKept
  <2> QED BY <2>1, <2>2, <2>3, <2>4, Zenon
<1>4. CASE ScanAlert(p) \/ ScanEnqueue(p)
  <2>1. scan'[p].cands = scan[p].cands /\ scan'[p].now = scan[p].now
    <3>1. ~ScanEnd(p)
      BY <1>4, Zenon DEF ScanAlert, ScanEnqueue, ScanEnd
    <3> QED BY <1>0, <1>4, <3>1, ScanLocals, Zenon
  <2>2. j \in scan[p].cands \/ Covered(p, j)
    BY SMTT(30), <1>0, <1>4 DEF ScanInv, ScanAlert, ScanEnqueue
  <2>3. Covered(p, j) => Covered(p, j)'
    BY ZenonT(30), <1>0, <2>1, CoveredKept
  <2> QED BY <2>1, <2>2, <2>3, Zenon
<1>5. CASE ScanEnd(p)
  BY SMTT(30), <1>0, <1>5 DEF ScanEnd, NoScan, DataOK
<1> QED BY <1>1, <1>2, <1>3, <1>4, <1>5, Zenon DEF ScanStep

\* Every step keeps the account of each scan.
LEMMA NextScan == IndInv /\ RunsInv /\ ScanInv /\ [Next]_vars => ScanInv'
<1> SUFFICES ASSUME IndInv, RunsInv, ScanInv, [Next]_vars,
                    NEW p \in Scanners, scan'[p].pc \notin {"idle", "begin"},
                    NEW j \in config' \cap Recover
             PROVE  \/ j \in scan'[p].cands
                    \/ /\ scan'[p].pc = "mark" /\ scan'[p].job = j
                       /\ scan'[p].missed = PrevIn(Occ[j], scan'[p].now)
                    \/ Covered(p, j)'
  BY Zenon DEF ScanInv
<1>1. Up'
  <2>1. ThreadsInv'
    BY Zenon, NextThreads DEF IndInv
  <2> QED BY SMTT(30), <2>1 DEF ThreadsInv, Scanners, Up
<1>2. ~Boot
  <2> SUFFICES ASSUME Boot PROVE FALSE
    BY Zenon
  <2>1. scan["loop"].pc = "idle"
    BY Zenon DEF Boot, IndInv, ThreadsInv
  <2>2. DataOK /\ scan' = [scan EXCEPT !["main"] = [NoScan EXCEPT !.pc = "begin"]]
    BY Zenon DEF Boot, IndInv, TypeOK
  <2> QED BY SMTT(30), <2>1, <2>2 DEF NoScan, DataOK, Scanners
<1>3. Up
  BY Zenon, <1>1, <1>2, UpBefore
<1>4. j \in config \cap Recover
  BY Zenon, <1>1, <1>3, RecordsGrow
<1>5. CASE ScanStep(p)
  BY Zenon, <1>1, <1>3, <1>4, <1>5, OwnScan
<1>6. CASE scan'[p] = scan[p]
  <2>1. Covered(p, j) => Covered(p, j)'
    BY ZenonT(30), <1>1, <1>3, <1>4, <1>6, CoveredKept
  <2> QED BY Zenon, <1>4, <1>6, <2>1 DEF ScanInv
<1> QED BY Zenon, <1>1, <1>5, <1>6, ScanMoves

\* Every scan accounts for each job.
LEMMA ScanInvariant == Spec => [](IndInv /\ ScanInv)
<1>1. Init => ScanInv
  BY Zenon DEF Init, ScanInv, NoScan
<1> QED BY <1>1, RunsInvariant, NextScan, PTL DEF Spec

\* A scan that returns has covered every job of config.yaml with a policy.
THEOREM ScansAreComplete == Spec => ScanIsComplete
<1> DEFINE Complete == \A p \in Scanners :
             scan[p].pc # "idle" /\ scan'[p].pc = "idle" /\ Up' =>
               \A j \in config \cap Recover : Covered(p, j)
<1>1. IndInv /\ ScanInv /\ [Next]_vars => Complete
  <2> SUFFICES ASSUME IndInv, ScanInv, [Next]_vars, NEW p \in Scanners,
                      scan[p].pc # "idle", scan'[p].pc = "idle", Up',
                      NEW j \in config \cap Recover
               PROVE  Covered(p, j)
    BY Zenon
  <2>0. DataOK /\ scan[p] \in ScanState
    BY Zenon DEF IndInv, TypeOK, DataOK
  <2>1. ScanStep(p)
    BY Zenon, ScanMoves
  <2>2. ScanEnd(p)
    BY Zenon, <2>0, <2>1, ScanLocals
  <2>3. scan[p].pc = "read" /\ scan[p].cands = {}
    BY Zenon, <2>2 DEF ScanEnd
  <2>4. \/ j \in scan[p].cands \/ scan[p].pc = "mark" \/ Covered(p, j)
    BY ZenonT(30), <2>3 DEF ScanInv
  <2> QED BY ZenonT(30), <2>3, <2>4
<1>2. IndInv /\ ScanInv /\ [Next]_vars => [Complete]_vars
  BY Zenon, <1>1
<1> QED BY <1>2, ScanInvariant, PTL DEF Spec, ScanIsComplete
==============================================================================

------------------------- MODULE SchedulerTypeProofs -------------------------
(* The cron operators of the scheduler, its types, where its threads can   *)
(* be, whose task is whose, and the claims of missed occurrences: most of  *)
(* its inductive invariant.                                                *)
EXTENDS Scheduler, WellFoundedInduction, TLAPS

(***************************************************************************)
(* Lemmas about the cron operators.                                        *)
(***************************************************************************)

\* A non-empty set of naturals has a least element.
LEMMA MinExists ==
  ASSUME NEW S \in SUBSET Nat, S # {}
  PROVE  \E m \in S : \A n \in S : m <= n
<1>1. IsWellFoundedOn(OpToRel(<, Nat), Nat)
  BY Zenon, NatLessThanWellFounded
<1>2. PICK m \in S : \A n \in S : <<n, m>> \notin OpToRel(<, Nat)
  BY <1>1, WFMin, Zenon
<1>3. \A n \in S : ~(n < m)
  BY <1>2, Zenon DEF OpToRel
<1> QED BY <1>3

\* A non-empty set of naturals with an upper bound has a greatest element.
LEMMA MaxExists ==
  ASSUME NEW S \in SUBSET Nat, S # {}, NEW b \in Nat, \A n \in S : n <= b
  PROVE  \E m \in S : \A n \in S : n <= m
<1> DEFINE D == {b - n : n \in S}
<1>1. D \in SUBSET Nat /\ D # {}
  <2>1. PICK n \in S : TRUE
    BY Zenon
  <2>2. b - n \in D
    BY Zenon, <2>1
  <2>3. \A d \in D : d \in Nat
    OBVIOUS
  <2> QED BY Zenon, <2>2, <2>3
<1>2. PICK d \in D : \A e \in D : d <= e
  BY Zenon, <1>1, MinExists
<1>3. PICK m \in S : d = b - m
  BY Zenon
<1>4. \A n \in S : b - n \in D /\ d <= b - n
  BY Zenon, <1>2
<1> QED BY <1>3, <1>4

\* next_after returns an occurrence strictly later than its argument, and no
\* earlier occurrence is passed over; 0 means that none is left.
LEMMA NextAfterFirst ==
  ASSUME NEW j \in Jobs, NEW t \in Nat
  PROVE  /\ NextAfter(j, t) \in Nat
         /\ NextAfter(j, t) = 0 \/ NextAfter(j, t) > t
         /\ \A o \in Occ[j] : o > t => NextAfter(j, t) # 0 /\ NextAfter(j, t) <= o
<1> DEFINE L == {o \in Occ[j] : o > t}
<1>1. L \in SUBSET Nat /\ \A o \in L : o > t /\ o # 0
  BY Zenon, SchedulerAssumption
<1>2. CASE L = {}
  BY Zenon, <1>2 DEF NextAfter, NextIn
<1>3. CASE L # {}
  <2>1. \E m \in L : \A n \in L : m <= n
    BY Zenon, <1>1, <1>3, MinExists
  <2>2. Earliest(L) \in L /\ \A n \in L : Earliest(L) <= n
    BY Zenon, <2>1 DEF Earliest
  <2>3. NextAfter(j, t) = Earliest(L)
    BY Zenon, <1>3 DEF NextAfter, NextIn
  <2> QED BY Zenon, <1>1, <2>2, <2>3
<1> QED BY Zenon, <1>2, <1>3

\* prev_before returns a natural number.
LEMMA PrevInType ==
  ASSUME NEW j \in Jobs, NEW t \in Nat
  PROVE  PrevIn(Occ[j], t) \in Nat
<1> DEFINE P == {o \in Occ[j] : o <= t}
<1>1. P \in SUBSET Nat /\ \A o \in P : o <= t
  BY Zenon, SchedulerAssumption
<1>2. CASE P = {}
  BY Zenon, <1>2 DEF PrevIn
<1>3. CASE P # {}
  <2>1. \E m \in P : \A n \in P : n <= m
    BY Zenon, <1>1, <1>3, MaxExists
  <2>2. Latest(P) \in P
    BY Zenon, <2>1 DEF Latest
  <2>3. PrevIn(Occ[j], t) = Latest(P)
    BY Zenon, <1>3 DEF PrevIn
  <2> QED BY Zenon, <1>1, <2>2, <2>3
<1> QED BY Zenon, <1>2, <1>3

\* detect_missed_run returns a time, or 0 for nullopt.
LEMMA DetectMissedType ==
  ASSUME NEW j \in Jobs, NEW t \in Nat, NEW last \in Nat
  PROVE  DetectMissed(j, last, t) \in Nat
BY Zenon, PrevInType DEF DetectMissed, MissedIn

\* The later of two start times is one of them.
LEMMA LatestOfTwo ==
  ASSUME NEW m \in Nat, NEW n \in Nat
  PROVE  Latest({m, n}) \in {m, n} /\ Latest({m, n}) \in Nat
<1>1. \E x \in {m, n} : \A y \in {m, n} : y <= x
  OBVIOUS
<1>2. Latest({m, n}) \in {m, n}
  BY Zenon, <1>1 DEF Latest
<1> QED BY <1>2

(***************************************************************************)
(* Typing.                                                                 *)
(***************************************************************************)

\* The records of idle scanners, tasks and callers are typed.
LEMMA RecordTypes ==
  /\ NoStatus \in Statuses /\ Zero \in [Jobs -> Nat]
  /\ NoScan \in ScanState /\ FreeTask \in TaskState /\ IdleApi \in ApiState
<1>1. NoStatus \in Statuses /\ Zero \in [Jobs -> Nat]
  BY Zenon DEF NoStatus, Statuses, Zero
<1>2. NoScan \in ScanState
  BY Zenon DEF NoScan, ScanState, ScanPcs
<1>3. FreeTask \in TaskState
  BY Zenon DEF FreeTask, TaskState, TaskPcs
<1>4. IdleApi \in ApiState
  BY Zenon, <1>1 DEF IdleApi, ApiState, ApiPcs
<1> QED BY Zenon, <1>1, <1>2, <1>3, <1>4

\* publish_status collects a status for every job.
LEMMA SnapshotType == Snapshot \in Statuses
BY Zenon DEF Snapshot, Statuses

\* The state before the first start is typed.
LEMMA InitType == Init => TypeOK
<1>1. Init => DataOK
  BY RecordTypes DEF Init, DataOK, Phases, LoopPcs
<1>2. Init => FlagsOK
  BY Zenon DEF Init, FlagsOK
<1> QED BY Zenon, <1>1, <1>2 DEF TypeOK

\* The two flags are Booleans after every step.
LEMMA FlagTypes == FlagsOK /\ [Next]_vars => FlagsOK'
<1> SUFFICES ASSUME FlagsOK, [Next]_vars PROVE FlagsOK'
  BY Zenon
<1> USE DEF flags
<1>1. CASE Tick \/ Boot \/ Crash \/ StopServer \/ Joins \/ NotifyWake \/ Halted
  BY <1>1, Zenon DEF FlagsOK, Tick, Boot, LastRun, Crash, Die, Changing, StopServer,
     Joins, Stop,
     JoinLoop, JoinWorkers, NotifyWake, Halted, vars
<1>2. CASE LoopStep
  <2>1. CASE LoopTop
    BY <2>1, Zenon DEF FlagsOK, LoopTop, DetectWake
  <2>2. CASE \E j \in Jobs : Launch(j)
    BY <2>2, Zenon DEF FlagsOK, Launch, Die, Changing
  <2>3. CASE LoopExit \/ Dispatch \/ LaunchedAll \/ LoopSnapshot \/ LoopPublish
    BY <2>3, Zenon DEF FlagsOK, LoopExit, Dispatch, LaunchedAll, LoopSnapshot,
       LoopPublish, LoopFrame
  <2> QED BY <1>2, <2>1, <2>2, <2>3, Zenon DEF LoopStep
<1>3. ASSUME NEW p \in Scanners, ScanStep(p) PROVE FlagsOK'
  BY <1>3, Zenon DEF FlagsOK, ScanStep, ScanBegin, ScanRead, ScanMark, ScanAlert,
     ScanEnqueue, ScanEnd, ScanFrame
<1>4. ASSUME NEW t \in Tasks, WorkerStep(t) PROVE FlagsOK'
  BY <1>4, Zenon DEF FlagsOK, WorkerStep, WorkerCheck, CommandEnds, WorkerPersist,
     InsertRun,
     WorkerRecord, WorkerReport, WorkerFinish, WorkerFrame
<1>5. ASSUME NEW a \in Apis, ApiCall(a) \/ ApiStep(a) PROVE FlagsOK'
  BY <1>5, Zenon DEF FlagsOK, ApiCall, RunCheck, AddCheck, RemoveCheck, Accept,
     ApiStep, RunEnqueue, AddUpsert, AddPush, RemoveDelete, RemoveErase,
     ApiSnapshot, ApiPublish, ApiFrame
<1>6. CASE UNCHANGED vars
  BY <1>6, Zenon DEF FlagsOK, vars
<1> QED BY <1>1, <1>2, <1>3, <1>4, <1>5, <1>6, Zenon DEF Next

\* The steps of the process.
LEMMA ProcessTypes ==
  ASSUME TypeOK, Tick \/ Boot \/ Crash \/ StopServer \/ Joins \/ NotifyWake
  PROVE  DataOK'
<1> USE DEF memory, flags, loop, db
<1>0. DataOK
  BY Zenon DEF TypeOK
<1>1. CASE Tick
  BY SMTT(30), <1>0, <1>1 DEF Tick, DataOK
<1>2. CASE Boot
  <2>1. [NoScan EXCEPT !.pc = "begin"] \in ScanState
    BY Zenon, RecordTypes DEF NoScan, ScanState, ScanPcs
  <2>2. \A j \in Jobs : NextAfter(j, clock) \in Nat
    BY Zenon, <1>0, NextAfterFirst DEF DataOK
  <2>3. PICK c \in Configs :
       /\ config' = c /\ ui' = db_defs \ c
       /\ next_run' = [j \in Jobs |-> IF j \in c \cup db_defs THEN NextAfter(j, clock) ELSE 0]
       /\ last_runs' = [j \in Jobs |-> IF j \in c \cup db_defs THEN db_last[j] ELSE 0]
       /\ published' = [j \in Jobs |-> IF j \in c \cup db_defs THEN "idle" ELSE "absent"]
    BY Zenon, <1>2 DEF Boot, LastRun
  <2>4. /\ config' \subseteq Jobs /\ ui' \subseteq Jobs
        /\ next_run' \in [Jobs -> Nat] /\ last_runs' \in [Jobs -> Nat]
        /\ published' \in Statuses
    BY SMTT(30), <1>0, <2>2, <2>3, SchedulerAssumption DEF DataOK, Statuses
  <2> QED BY <1>0, <1>2, <2>1, <2>4, RecordTypes DEF Boot, LastRun, DataOK, Phases,
             LoopPcs, Scanners
<1>3. CASE Crash
  BY Zenon, <1>0, <1>3, RecordTypes DEF Crash, Die, Changing, DataOK, Phases, LoopPcs
<1>4. CASE StopServer
  BY SMTT(30), <1>0, <1>4 DEF StopServer, DataOK, Phases
<1>5. CASE Stop
  BY SMTT(30), <1>0, <1>5 DEF Stop, DataOK, Phases
<1>6. CASE JoinLoop
  BY <1>0, <1>6 DEF JoinLoop, DataOK, Phases
<1>7. CASE JoinWorkers
  BY Zenon, <1>0, <1>7 DEF JoinWorkers, DataOK, Phases
<1>8. CASE NotifyWake
  BY Zenon, <1>0, <1>8 DEF NotifyWake, DataOK
<1> QED BY Zenon, <1>1, <1>2, <1>3, <1>4, <1>5, <1>6, <1>7, <1>8 DEF Joins

\* The steps of the loop thread.
LEMMA LoopTypes ==
  ASSUME TypeOK, LoopStep
  PROVE  DataOK'
<1> USE DEF memory, flags, loop, db
<1>0. DataOK
  BY Zenon DEF TypeOK
<1>1. CASE LoopTop
  <2>1. [NoScan EXCEPT !.pc = "begin"] \in ScanState
    BY Zenon, RecordTypes DEF NoScan, ScanState, ScanPcs
  <2>2. /\ scan' \in [Scanners -> ScanState] /\ loop_pc' \in LoopPcs
        /\ last_wall' \in Nat
    BY SMTT(30), <1>0, <1>1, <2>1 DEF LoopTop, DetectWake, DataOK, LoopPcs, Scanners
  <2>3. running' \in [Jobs -> Tasks \cup {NoTask}] /\ task' \in [Tasks -> TaskState]
    BY SMTT(30), <1>0, <1>1, RecordTypes DEF LoopTop, ReapFinished, DataOK
  <2> QED BY Zenon, <1>0, <1>1, <2>2, <2>3 DEF LoopTop, DataOK
<1>2. CASE LoopExit
  BY SMTT(30), <1>0, <1>2 DEF LoopExit, DataOK, LoopPcs
<1>3. CASE Dispatch
  <2>1. \A j \in Jobs : NextAfter(j, last_wall) \in Nat
    BY SMTT(30), <1>0, NextAfterFirst DEF DataOK
  <2>2. /\ queue' \in [Jobs -> Nat] /\ to_launch' \in [Jobs -> Nat]
        /\ next_run' \in [Jobs -> Nat]
    BY <1>0, <1>3, <2>1 DEF Dispatch, Deferred, DataOK
  <2> QED BY SMTT(30), <1>0, <1>3, <2>2 DEF Dispatch, DataOK, LoopPcs
<1>4. ASSUME NEW j \in Jobs, Launch(j) PROVE DataOK'
  <2>1. CASE Die
    BY Zenon, <1>0, <2>1, RecordTypes DEF Die, Changing, DataOK, Phases, LoopPcs
  <2>2. CASE ~Die
    <3>1. PICK t \in Tasks :
            /\ running' = [running EXCEPT ![j] = t]
            /\ task' = [task EXCEPT ![t] =
                 [FreeTask EXCEPT !.pc = "check", !.job = j, !.attempt = 1]]
      BY Zenon, <1>4, <2>2 DEF Launch
    <3>2. [FreeTask EXCEPT !.pc = "check", !.job = j, !.attempt = 1] \in TaskState
      BY ZenonT(30) DEF FreeTask, TaskState, TaskPcs
    <3>3. to_launch' \in [Jobs -> Nat]
      BY <1>0, <1>4, <2>2 DEF Launch, DataOK
    <3> QED BY SMTT(30), <1>0, <1>4, <2>2, <3>1, <3>2, <3>3 DEF Launch, DataOK
  <2> QED BY SMTT(30), <2>1, <2>2
<1>5. CASE LaunchedAll
  BY SMTT(30), <1>0, <1>5 DEF LaunchedAll, LoopFrame, DataOK, LoopPcs
<1>6. CASE LoopSnapshot
  BY SMTT(30), <1>0, <1>6, SnapshotType DEF LoopSnapshot, LoopFrame, DataOK, LoopPcs
<1>7. CASE LoopPublish
  BY Zenon, <1>0, <1>7, RecordTypes DEF LoopPublish, LoopFrame, DataOK, LoopPcs
<1> QED BY Zenon, <1>1, <1>2, <1>3, <1>4, <1>5, <1>6, <1>7 DEF LoopStep

\* The steps of scan_missed.
LEMMA ScanTypes ==
  ASSUME TypeOK, ThreadsInv, NEW p \in Scanners, ScanStep(p)
  PROVE  DataOK'
<1> USE DEF memory, flags, loop, db
<1>0. DataOK /\ scan[p] \in ScanState
  BY Zenon DEF TypeOK, DataOK
<1>1. CASE ScanBegin(p)
  <2>1. [NoScan EXCEPT !.pc = "read", !.now = clock,
           !.cands = {j \in Known \cap Recover : Occ[j] # {}}] \in ScanState
    BY Zenon, <1>0, SchedulerAssumption DEF NoScan, ScanState, ScanPcs, DataOK, Known
  <2> QED BY Zenon, <1>0, <1>1, <2>1 DEF ScanBegin, ScanFrame, DataOK
<1>2. CASE ScanRead(p)
  <2>1. PICK j \in scan[p].cands :
          scan' = [scan EXCEPT ![p] =
            IF DetectMissed(j, last_runs[j], scan[p].now) = 0
            THEN [scan[p] EXCEPT !.cands = scan[p].cands \ {j}]
            ELSE [scan[p] EXCEPT !.cands = scan[p].cands \ {j}, !.pc = "mark",
                    !.job = j, !.missed = DetectMissed(j, last_runs[j], scan[p].now)]]
    BY Zenon, <1>2 DEF ScanRead
  <2>2. j \in Jobs /\ DetectMissed(j, last_runs[j], scan[p].now) \in Nat
    BY Zenon, <1>0, DetectMissedType DEF DataOK, ScanState
  <2>3. scan' \in [Scanners -> ScanState]
    <3> DEFINE miss == DetectMissed(j, last_runs[j], scan[p].now)
               rest == scan[p].cands \ {j}
    <3>1. [scan[p] EXCEPT !.cands = rest] \in ScanState
      BY Zenon, <1>0 DEF ScanState
    <3>2. [scan[p] EXCEPT !.cands = rest, !.pc = "mark", !.job = j, !.missed = miss]
             \in ScanState
      BY Zenon, <1>0, <2>2 DEF ScanState, ScanPcs
    <3> QED BY Zenon, <1>0, <2>1, <3>1, <3>2 DEF DataOK
  <2> QED BY SMTT(30), <1>0, <1>2, <2>3 DEF ScanRead, ScanFrame, DataOK
<1>3. NextCandidate(p) \in [Scanners -> ScanState]
  BY Zenon, <1>0 DEF NextCandidate, DataOK, ScanState, ScanPcs
<1>4. CASE ScanMark(p)
  <2>1. [scan EXCEPT ![p].pc = "alert"] \in [Scanners -> ScanState]
    BY Zenon, <1>0 DEF DataOK, ScanState, ScanPcs
  <2>2. scan' \in [Scanners -> ScanState] /\ missed_handled' \in [Jobs -> Nat]
    BY SMTT(30), <1>0, <1>3, <1>4, <2>1 DEF ScanMark, DataOK, ScanState
  <2> QED BY Zenon, <1>0, <1>4, <2>2 DEF ScanMark, ScanFrame, DataOK
<1>5. CASE ScanAlert(p)
  <2>1. [scan EXCEPT ![p].pc = "enqueue"] \in [Scanners -> ScanState]
    BY Zenon, <1>0 DEF DataOK, ScanState, ScanPcs
  <2> QED BY Zenon, <1>0, <1>5, <2>1 DEF ScanAlert, ScanFrame, DataOK
<1>6. CASE ScanEnqueue(p)
  <2>1. scan[p].job \in Jobs
    BY Zenon, <1>6 DEF ScanEnqueue, ThreadsInv
  <2>2. queue' \in [Jobs -> Nat]
    BY <1>0, <1>6, <2>1 DEF ScanEnqueue, DataOK
  <2> QED BY Zenon, <1>0, <1>3, <1>6, <2>2 DEF ScanEnqueue, ScanFrame, DataOK
<1>7. CASE ScanEnd(p)
  BY Zenon, <1>0, <1>7, RecordTypes DEF ScanEnd, ScanFrame, DataOK, Phases, LoopPcs
<1> QED BY SMTT(30), <1>1, <1>2, <1>4, <1>5, <1>6, <1>7 DEF ScanStep

\* The steps of a worker.
LEMMA WorkerTypes ==
  ASSUME TypeOK, TasksInv, NEW t \in Tasks, WorkerStep(t)
  PROVE  DataOK'
<1> USE DEF memory, flags, loop, db
<1>0. DataOK /\ task[t] \in TaskState
  BY Zenon DEF TypeOK, DataOK
<1>1. CASE WorkerCheck(t)
  <2>1. /\ [task[t] EXCEPT !.pc = "command", !.started = clock] \in TaskState
        /\ [task[t] EXCEPT !.pc = "report"] \in TaskState
    BY Zenon, <1>0 DEF TaskState, TaskPcs, DataOK
  <2>2. task' \in [Tasks -> TaskState]
    BY Zenon, <1>0, <1>1, <2>1 DEF WorkerCheck, DataOK
  <2> QED BY Zenon, <1>0, <1>1, <2>2 DEF WorkerCheck, WorkerFrame, DataOK
<1>2. CASE CommandEnds(t)
  <2>1. \A s \in {"success", "failure"} :
          [task[t] EXCEPT !.pc = "persist", !.status = s] \in TaskState
    BY Zenon, <1>0 DEF TaskState, TaskPcs
  <2>2. task' \in [Tasks -> TaskState]
    BY Zenon, <1>0, <1>2, <2>1 DEF CommandEnds, DataOK
  <2> QED BY Zenon, <1>0, <1>2, <2>2 DEF CommandEnds, WorkerFrame, DataOK
<1>3. CASE WorkerPersist(t)
  <2>1. task' \in [Tasks -> TaskState]
    BY SMTT(30), <1>0, <1>3 DEF WorkerPersist, InsertRun, TaskState, TaskPcs, DataOK
  <2>2. task[t].job \in Jobs
    BY Zenon, <1>3 DEF WorkerPersist, InsertRun, TasksInv
  <2>3. Latest({db_last[task[t].job], task[t].started}) \in Nat
    BY Zenon, <1>0, <2>2, LatestOfTwo DEF DataOK, TaskState
  <2>4. db_last' \in [Jobs -> Nat]
    BY Zenon, <1>0, <1>3, <2>2, <2>3 DEF WorkerPersist, InsertRun, DataOK
  <2> QED BY SMTT(30), <1>0, <1>3, <2>1, <2>4 DEF WorkerPersist, InsertRun,
             WorkerFrame, DataOK
<1>4. CASE WorkerRecord(t)
  <2>1. [task[t] EXCEPT !.pc = "report"] \in TaskState
    BY Zenon, <1>0 DEF TaskState, TaskPcs
  <2>2. \A n \in Nat : [task[t] EXCEPT !.pc = "check", !.attempt = n] \in TaskState
    BY Zenon, <1>0 DEF TaskState, TaskPcs
  <2>3. task[t].attempt + 1 \in Nat
    BY <1>0 DEF TaskState
  <2>4. task' \in [Tasks -> TaskState]
    BY Zenon, <1>0, <1>4, <2>1, <2>2, <2>3 DEF WorkerRecord, DataOK
  <2>5. last_runs' \in [Jobs -> Nat]
    BY Zenon, <1>0, <1>4 DEF WorkerRecord, DataOK, TaskState
  <2> QED BY Zenon, <1>0, <1>4, <2>4, <2>5 DEF WorkerRecord, WorkerFrame, DataOK
<1>5. CASE WorkerReport(t)
  <2>1. Failed(t) \in BOOLEAN
    BY Zenon DEF Failed
  <2>2. [task[t] EXCEPT !.pc = "finish", !.alerted = Failed(t)] \in TaskState
    BY Zenon, <1>0, <2>1 DEF TaskState, TaskPcs
  <2>3. task' \in [Tasks -> TaskState]
    BY Zenon, <1>0, <1>5, <2>2 DEF WorkerReport, DataOK
  <2> QED BY Zenon, <1>0, <1>5, <2>3 DEF WorkerReport, WorkerFrame, DataOK
<1>6. CASE WorkerFinish(t)
  <2>1. task' \in [Tasks -> TaskState]
    BY SMTT(30), <1>0, <1>6 DEF WorkerFinish, TaskState, TaskPcs, DataOK
  <2> QED BY Zenon, <1>0, <1>6, <2>1 DEF WorkerFinish, WorkerFrame, DataOK
<1> QED BY SMTT(30), <1>1, <1>2, <1>3, <1>4, <1>5, <1>6 DEF WorkerStep

\* The steps of a call.
LEMMA ApiTypes ==
  ASSUME TypeOK, ThreadsInv, NEW a \in Apis, ApiCall(a) \/ ApiStep(a)
  PROVE  DataOK'
<1> USE DEF memory, flags, loop, db
<1>0. DataOK /\ api[a] \in ApiState
  BY Zenon DEF TypeOK, DataOK
<1>1. CASE ApiCall(a)
  <2>1. PICK j \in Jobs, op \in Ops, pc \in {"enqueue", "upsert", "delete"} :
          Accept(a, op, j, pc)
    BY Zenon, <1>1 DEF ApiCall, RunCheck, AddCheck, RemoveCheck, Accept
  <2>2. [IdleApi EXCEPT !.pc = pc, !.op = op, !.job = j] \in ApiState
    BY ZenonT(30), RecordTypes DEF IdleApi, ApiState, ApiPcs
  <2> QED BY Zenon, <1>0, <2>1, <2>2 DEF Accept, ApiFrame, DataOK
<1>2. CASE ApiStep(a)
  <2>1. api[a].pc # "idle" /\ api[a].job \in Jobs
    BY Zenon, <1>2 DEF ApiStep, RunEnqueue, AddUpsert, AddPush, RemoveDelete, RemoveErase,
       ApiSnapshot, ApiPublish, ThreadsInv
  <2>2. \A pc \in ApiPcs : [api EXCEPT ![a].pc = pc] \in [Apis -> ApiState]
    BY Zenon, <1>0 DEF DataOK, ApiState
  <2>3. [api EXCEPT ![a] = IdleApi] \in [Apis -> ApiState]
    BY SMTT(30), <1>0, RecordTypes DEF DataOK
  <2>4. CASE RunEnqueue(a)
    <3>1. queue' \in [Jobs -> Nat]
      BY <1>0, <2>1, <2>4 DEF RunEnqueue, DataOK
    <3> QED BY SMTT(30), <1>0, <2>3, <2>4, <3>1 DEF RunEnqueue, ApiFrame, DataOK
  <2>5. CASE AddUpsert(a)
    BY SMTT(30), <1>0, <2>1, <2>2, <2>3, <2>5 DEF AddUpsert, Goto, ApiFrame, DataOK,
       ApiPcs
  <2>6. CASE AddPush(a)
    <3>1. NextAfter(api[a].job, clock) \in Nat
      BY SMTT(30), <1>0, <2>1, NextAfterFirst DEF DataOK
    <3>2. next_run' \in [Jobs -> Nat]
      BY Zenon, <1>0, <2>1, <2>6, <3>1 DEF AddPush, DataOK
    <3> QED BY Zenon, <1>0, <2>1, <2>2, <2>6, <3>2 DEF AddPush, Goto, ApiFrame, DataOK,
               ApiPcs
  <2>7. CASE RemoveDelete(a)
    BY SMTT(30), <1>0, <2>2, <2>3, <2>7 DEF RemoveDelete, Goto, ApiFrame, DataOK,
       ApiPcs
  <2>8. CASE RemoveErase(a)
    BY Zenon, <1>0, <2>2, <2>8 DEF RemoveErase, Goto, ApiFrame, DataOK, ApiPcs
  <2>9. CASE ApiSnapshot(a)
    <3>1. api' \in [Apis -> ApiState]
      BY Zenon, <1>0, <2>9, SnapshotType DEF ApiSnapshot, DataOK, ApiState, ApiPcs
    <3> QED BY Zenon, <1>0, <2>9, <3>1 DEF ApiSnapshot, ApiFrame, DataOK
  <2>10. CASE ApiPublish(a)
    <3>1. published' \in Statuses
      BY Zenon, <1>0, <2>10 DEF ApiPublish, ApiState
    <3> QED BY Zenon, <1>0, <2>3, <2>10, <3>1 DEF ApiPublish, ApiFrame, DataOK
  <2> QED BY SMTT(30), <1>2, <2>4, <2>5, <2>6, <2>7, <2>8, <2>9, <2>10 DEF ApiStep
<1> QED BY Zenon, <1>1, <1>2

\* Every step keeps the types.
LEMMA NextType == TypeOK /\ ThreadsInv /\ TasksInv /\ [Next]_vars => TypeOK'
<1> SUFFICES ASSUME TypeOK, ThreadsInv, TasksInv, [Next]_vars PROVE TypeOK'
  BY Zenon
<1>1. FlagsOK'
  BY Zenon, FlagTypes DEF TypeOK
<1>2. DataOK'
  <2>1. CASE UNCHANGED vars \/ Halted
    BY Zenon, <2>1 DEF vars, Halted, memory, flags, loop, db, TypeOK, DataOK
  <2> QED BY SMTT(30), <2>1, ProcessTypes, LoopTypes, ScanTypes, WorkerTypes,
             ApiTypes DEF Next
<1> QED BY Zenon, <1>1, <1>2 DEF TypeOK

(***************************************************************************)
(* Where the threads are.                                                  *)
(***************************************************************************)

\* Every step keeps the threads where they may be together.
LEMMA NextThreads == TypeOK /\ ThreadsInv /\ [Next]_vars => ThreadsInv'
<1> SUFFICES ASSUME TypeOK, ThreadsInv, [Next]_vars PROVE ThreadsInv'
  BY Zenon
<1> USE DEF memory, flags, loop, db
<1>0. DataOK
  BY SMTT(30) DEF TypeOK
<1>1. CASE Tick \/ StopServer \/ NotifyWake \/ Halted \/ UNCHANGED vars
  BY Zenon, <1>1 DEF Tick, StopServer, NotifyWake, Halted, vars, ThreadsInv
<1>2. CASE Boot
  BY SMTT(30), <1>0, <1>2 DEF Boot, LastRun, ThreadsInv, NoScan, DataOK, Scanners
<1>3. CASE Die
  BY SMTT(30), <1>3 DEF Die, Changing, ThreadsInv, NoScan, IdleApi, Scanners
<1>4. CASE Joins
  BY Zenon, <1>4 DEF Joins, Stop, JoinLoop, JoinWorkers, ThreadsInv
<1>5. CASE LoopStep
  <2>1. CASE LoopTop
    BY SMTT(30), <1>0, <2>1 DEF LoopTop, DetectWake, ThreadsInv, NoScan, DataOK,
       Scanners
  <2>2. CASE LoopExit \/ Dispatch \/ LaunchedAll \/ LoopSnapshot \/ LoopPublish
    BY Zenon, <2>2 DEF LoopExit, Dispatch, LaunchedAll, LoopSnapshot, LoopPublish,
       LoopFrame, ThreadsInv
  <2>3. CASE \E j \in Jobs : Launch(j)
    BY Zenon, <1>3, <2>3 DEF Launch, ThreadsInv
  <2> QED BY Zenon, <1>5, <2>1, <2>2, <2>3 DEF LoopStep
<1>6. ASSUME NEW p \in Scanners, ScanStep(p) PROVE ThreadsInv'
  <2>0. scan[p] \in ScanState
    BY Zenon, <1>0 DEF DataOK
  <2>1. CASE ScanBegin(p)
    BY SMTT(30), <1>0, <2>1 DEF ScanBegin, ScanFrame, ThreadsInv, NoScan, DataOK,
       Scanners
  <2>2. CASE ScanRead(p)
    BY <1>0, <2>0, <2>2 DEF ScanRead, ScanFrame, ThreadsInv, DataOK, ScanState,
       Scanners
  <2>3. CASE ScanMark(p) \/ ScanAlert(p) \/ ScanEnqueue(p)
    <3>1. /\ scan' = NextCandidate(p) \/ \E pc \in ScanPcs : scan' = [scan EXCEPT ![p].pc = pc]
          /\ scan[p].pc # "idle" /\ scan[p].job \in Jobs
          /\ UNCHANGED <<phase, loop_pc, api>>
      BY Zenon, <2>3 DEF ScanMark, ScanAlert, ScanEnqueue, ScanFrame, ThreadsInv, ScanPcs
    <3>2. CASE scan' = NextCandidate(p)
      BY SMTT(30), <1>0, <2>0, <3>1, <3>2 DEF NextCandidate, ThreadsInv, DataOK,
         ScanState, Scanners
    <3>3. ASSUME NEW pc \in ScanPcs, scan' = [scan EXCEPT ![p].pc = pc] PROVE ThreadsInv'
      BY SMTT(30), <1>0, <2>0, <3>1, <3>3 DEF ThreadsInv, DataOK, ScanState, Scanners
    <3> QED BY SMTT(30), <3>1, <3>2, <3>3
  <2>4. CASE ScanEnd(p)
    BY SMTT(30), <1>0, <2>4 DEF ScanEnd, ScanFrame, ThreadsInv, NoScan, DataOK,
       Scanners
  <2> QED BY Zenon, <1>6, <2>1, <2>2, <2>3, <2>4 DEF ScanStep
<1>7. ASSUME NEW t \in Tasks, WorkerStep(t) PROVE ThreadsInv'
  BY Zenon, <1>7 DEF WorkerStep, WorkerCheck, CommandEnds, WorkerPersist, InsertRun,
     WorkerRecord,
     WorkerReport, WorkerFinish, WorkerFrame, ThreadsInv
<1>8. ASSUME NEW a \in Apis, ApiCall(a) PROVE ThreadsInv'
  <2>1. PICK j \in Jobs, op \in Ops, pc \in {"enqueue", "upsert", "delete"} :
          Accept(a, op, j, pc)
    BY ZenonT(30), <1>8 DEF ApiCall, RunCheck, AddCheck, RemoveCheck, Accept
  <2> QED BY SMTT(30), <1>0, <2>1 DEF Accept, ApiFrame, IdleApi, ThreadsInv, DataOK
<1>9. ASSUME NEW a \in Apis, ApiStep(a) PROVE ThreadsInv'
  BY SMTT(30), <1>0, <1>9 DEF ApiStep, RunEnqueue, AddUpsert, AddPush, RemoveDelete,
     RemoveErase,
     ApiSnapshot, ApiPublish, Goto, ApiFrame, IdleApi, ThreadsInv, DataOK, ApiState
<1> QED BY Zenon, <1>1, <1>2, <1>3, <1>4, <1>5, <1>6, <1>7, <1>8, <1>9 DEF Next, Crash

(***************************************************************************)
(* Tasks and running_.                                                     *)
(***************************************************************************)

\* A step that leaves tasks, running_, the joined tasks, the main thread's
\* phase and active_ alone.
LEMMA TasksFrame ==
  TasksInv /\ UNCHANGED <<phase, running, task, joining, active>> => TasksInv'
BY DEF TasksInv, Joined

\* A worker's step: it keeps its job and does not free its task.
LEMMA WorkerTasks ==
  ASSUME TypeOK, ThreadsInv, TasksInv, NEW t \in Tasks, WorkerStep(t)
  PROVE  TasksInv'
<1>0. DataOK /\ task \in [Tasks -> TaskState] /\ task[t] \in TaskState
  BY SMTT(30) DEF TypeOK, DataOK
<1>1. /\ task[t].pc \notin {"free", "done"}
      /\ UNCHANGED <<phase, running, joining, active>>
      /\ \A u \in Tasks \ {t} : task'[u] = task[u]
      /\ task'[t].job = task[t].job /\ task'[t].pc # "free"
      /\ task'[t].pc \in {"finish", "done"} /\ active =>
           (task'[t].alerted <=> task'[t].status # "success")
  <2> USE DEF WorkerFrame, flags
  <2>1. CASE WorkerCheck(t)
    BY Zenon, <1>0, <2>1 DEF WorkerCheck, TaskState
  <2>2. CASE CommandEnds(t)
    BY <1>0, <2>2 DEF CommandEnds, TaskState
  <2>3. CASE WorkerPersist(t)
    BY Zenon, <1>0, <2>3 DEF WorkerPersist, InsertRun, TaskState
  <2>4. CASE WorkerRecord(t)
    BY Zenon, <1>0, <2>4 DEF WorkerRecord, TaskState
  <2>5. CASE WorkerReport(t)
    BY Zenon, <1>0, <2>5 DEF WorkerReport, TaskState, Failed
  <2>6. CASE WorkerFinish(t)
    BY Zenon, <1>0, <2>6 DEF WorkerFinish, TaskState, TasksInv
  <2> QED BY Zenon, <2>1, <2>2, <2>3, <2>4, <2>5, <2>6 DEF WorkerStep
<1>2. running \in [Jobs -> Tasks \cup {NoTask}] /\ joining \subseteq Tasks
  BY Zenon, <1>0 DEF DataOK
<1> QED BY SMTT(30), <1>1, <1>2, SchedulerAssumption DEF TasksInv, Joined

\* Every step keeps each task in running_ under its job, or in stop()'s hands.
LEMMA NextTasks == TypeOK /\ ThreadsInv /\ TasksInv /\ [Next]_vars => TasksInv'
<1> SUFFICES ASSUME TypeOK, ThreadsInv, TasksInv, [Next]_vars PROVE TasksInv'
  BY Zenon
<1> USE DEF memory, flags, loop, db
<1>0. DataOK
  BY SMTT(30) DEF TypeOK
<1>1. CASE Tick \/ NotifyWake \/ Halted \/ UNCHANGED vars
  BY Zenon, <1>1, TasksFrame DEF Tick, NotifyWake, Halted, vars
<1>2. CASE Boot
  BY SMTT(30), <1>2 DEF Boot, LastRun, TasksInv, FreeTask
<1>3. CASE Die
  BY SMTT(30), <1>3 DEF Die, Changing, TasksInv, FreeTask
<1>4. CASE StopServer \/ Stop
  BY SMTT(30), <1>4 DEF StopServer, Stop, TasksInv
<1>5. CASE JoinLoop
  BY SMTT(30), <1>0, <1>5 DEF JoinLoop, TasksInv, DataOK
<1>6. CASE JoinWorkers
  BY SMTT(30), <1>6 DEF JoinWorkers, TasksInv, Joined
<1>7. CASE LoopTop
  <2> DEFINE freed == {running[j] : j \in Finished}
  <2>1. /\ phase \notin {"join_workers", "exited"} /\ joining = {}
        /\ UNCHANGED <<phase, joining, active>>
    BY SMTT(30), <1>7 DEF LoopTop, ThreadsInv, TasksInv
  <2>2. /\ \A t \in Tasks : task'[t] = IF t \in freed THEN FreeTask ELSE task[t]
        /\ \A j \in Jobs : running'[j] = IF j \in Finished THEN NoTask ELSE running[j]
    BY SMTT(30), <1>7 DEF LoopTop, ReapFinished
  <2>3. \A j \in Jobs : running[j] # NoTask =>
          running[j] \in Tasks /\ (running[j] \in freed <=> j \in Finished)
    BY SMTT(30), <1>0 DEF TasksInv, DataOK, Finished
  <2>4. \A t \in Tasks : task'[t].pc # "free" =>
          t \notin freed /\ task'[t] = task[t] /\ task[t].pc # "free"
    BY SMTT(30), <2>2 DEF FreeTask
  <2>5. \A t \in Tasks : task'[t].pc # "free" =>
          task'[t].job \in Jobs /\ running'[task'[t].job] = t
    BY SMTT(30), <2>1, <2>2, <2>3, <2>4, SchedulerAssumption DEF TasksInv
  <2>6. \A j \in Jobs : running'[j] # NoTask =>
          task'[running'[j]].job = j /\ task'[running'[j]].pc # "free"
    BY SMTT(30), <2>2, <2>3 DEF TasksInv
  <2>7. \A t \in Tasks : task'[t].pc \in {"finish", "done"} /\ active =>
          (task'[t].alerted <=> task'[t].status # "success")
    BY SMTT(30), <2>4 DEF TasksInv
  <2> QED BY SMTT(30), <2>1, <2>5, <2>6, <2>7 DEF TasksInv
<1>8. ASSUME NEW j \in Jobs, Launch(j), ~Die PROVE TasksInv'
  <2>1. PICK t \in Tasks :
          /\ task[t].pc = "free"
          /\ running' = [running EXCEPT ![j] = t]
          /\ task' = [task EXCEPT ![t] =
               [FreeTask EXCEPT !.pc = "check", !.job = j, !.attempt = 1]]
    BY Zenon, <1>8 DEF Launch
  <2>2. /\ phase \notin {"join_workers", "exited"} /\ joining = {}
        /\ running[j] = NoTask
        /\ UNCHANGED <<phase, joining, active>>
    BY Zenon, <1>8 DEF Launch, ThreadsInv, TasksInv
  <2>3. /\ task'[t].pc = "check" /\ task'[t].job = j /\ running'[j] = t
        /\ \A u \in Tasks \ {t} : task'[u] = task[u]
        /\ \A k \in Jobs \ {j} : running'[k] = running[k]
    BY Zenon, <1>0, <2>1 DEF DataOK, FreeTask
  <2>4. \A k \in Jobs \ {j} : running[k] # NoTask => running[k] \in Tasks \ {t}
    BY SMTT(30), <1>0, <2>1 DEF DataOK, TasksInv
  <2>5. \A u \in Tasks \ {t} : task[u].pc # "free" => task[u].job # j
    BY SMTT(30), <2>2, SchedulerAssumption DEF TasksInv
  <2> QED BY SMTT(30), <2>2, <2>3, <2>4, <2>5, SchedulerAssumption DEF TasksInv
<1>9. CASE LoopExit \/ Dispatch \/ LaunchedAll \/ LoopSnapshot \/ LoopPublish
  BY SMTT(30), <1>9, TasksFrame DEF LoopExit, Dispatch, LaunchedAll, LoopSnapshot,
     LoopPublish,
     LoopFrame
<1>10. ASSUME NEW p \in Scanners, ScanStep(p) PROVE TasksInv'
  <2>1. CASE ScanEnd(p)
    <3>1. UNCHANGED <<running, task, joining, active>>
      BY SMTT(30), <2>1 DEF ScanEnd, ScanFrame
    <3>2. CASE p = "main"
      <4>1. phase = "boot_scan" /\ phase' = "serve"
        BY SMTT(30), <2>1, <3>2 DEF ScanEnd, ThreadsInv
      <4> QED BY SMTT(30), <3>1, <4>1 DEF TasksInv
    <3>3. CASE p # "main"
      BY SMTT(30), <2>1, <3>1, <3>3, TasksFrame DEF ScanEnd
    <3> QED BY SMTT(30), <3>2, <3>3
  <2> QED BY Zenon, <1>10, <2>1, TasksFrame DEF ScanStep, ScanBegin, ScanRead,
             ScanMark,
     ScanAlert, ScanEnqueue, ScanFrame
<1>11. ASSUME NEW a \in Apis, ApiCall(a) \/ ApiStep(a) PROVE TasksInv'
  BY Zenon, <1>11, TasksFrame DEF ApiCall, RunCheck, AddCheck, RemoveCheck, Accept,
     ApiFrame,
     ApiStep, RunEnqueue, AddUpsert, AddPush, RemoveDelete, RemoveErase, ApiSnapshot,
     ApiPublish
<1> QED BY SMTT(30), <1>1, <1>2, <1>3, <1>4, <1>5, <1>6, <1>7, <1>8, <1>9, <1>10,
           <1>11, WorkerTasks
        DEF Next, Crash, Joins, LoopStep

(***************************************************************************)
(* Claims of missed occurrences.                                           *)
(***************************************************************************)

\* A step after which no scanner claims that did not claim the same before.
LEMMA ClaimsFrame ==
  ASSUME ClaimsInv, phase' = "boot_scan" => phase = "boot_scan",
         phase' = "boot_scan" => UNCHANGED missed_handled,
         \A p \in Scanners : Claiming(p)' =>
           Claiming(p) /\ scan'[p].job = scan[p].job /\ scan'[p].missed = scan[p].missed
  PROVE  ClaimsInv'
BY Zenon DEF ClaimsInv, MissClaimedOnce, Handled

\* Every step keeps claims of missed occurrences apart.
LEMMA NextClaims == TypeOK /\ ThreadsInv /\ ClaimsInv /\ [Next]_vars => ClaimsInv'
<1> SUFFICES ASSUME TypeOK, ThreadsInv, ClaimsInv, [Next]_vars PROVE ClaimsInv'
  BY Zenon
<1> USE DEF memory, flags, loop, db
<1>0. DataOK
  BY Zenon DEF TypeOK
<1>1. CASE Tick \/ NotifyWake \/ Halted \/ StopServer \/ Joins \/ UNCHANGED vars
  BY SMTT(30), <1>1, ClaimsFrame DEF Tick, NotifyWake, Halted, StopServer, Joins,
     Stop, JoinLoop,
     JoinWorkers, vars, Claiming
<1>2. CASE Boot
  <2>1. scan["loop"].pc = "idle"
    BY Zenon, <1>2 DEF Boot, LastRun, ThreadsInv
  <2>2. \A p \in Scanners : ~Claiming(p)'
    BY SMTT(30), <1>0, <1>2, <2>1 DEF Boot, LastRun, Claiming, NoScan, DataOK,
       Scanners
  <2> QED BY Zenon, <2>2 DEF ClaimsInv, MissClaimedOnce
<1>3. CASE Die
  BY ZenonT(30), <1>3 DEF Die, Changing, ClaimsInv, MissClaimedOnce, Claiming, NoScan
<1>4. CASE LoopTop
  <2>1. UNCHANGED <<phase, missed_handled>> /\ ~Claiming("loop")'
        /\ scan'["main"] = scan["main"]
    BY SMTT(30), <1>0, <1>4 DEF LoopTop, DetectWake, ThreadsInv, Claiming, NoScan,
       DataOK, Scanners
  <2> QED BY Zenon, <2>1, ClaimsFrame DEF Claiming, Scanners
<1>5. CASE LoopExit \/ Dispatch \/ LaunchedAll \/ LoopSnapshot \/ LoopPublish
  BY Zenon, <1>5, ClaimsFrame DEF LoopExit, Dispatch, LaunchedAll, LoopSnapshot, LoopPublish,
     LoopFrame, Claiming
<1>6. ASSUME NEW j \in Jobs, Launch(j), ~Die PROVE ClaimsInv'
  BY Zenon, <1>6, ClaimsFrame DEF Launch, Claiming
<1>7. ASSUME NEW p \in Scanners, ScanStep(p) PROVE ClaimsInv'
  <2>0. scan[p] \in ScanState
    BY SMTT(30), <1>0 DEF DataOK
  <2>1. CASE ScanBegin(p) \/ ScanRead(p) \/ ScanAlert(p) \/ ScanEnqueue(p) \/ ScanEnd(p)
    <3>1. /\ phase' = "boot_scan" => phase = "boot_scan"
          /\ UNCHANGED missed_handled
          /\ \A q \in Scanners \ {p} : scan'[q] = scan[q]
      BY ZenonT(30), <1>0, <2>1 DEF ScanBegin, ScanRead, ScanAlert, ScanEnqueue,
         ScanEnd, NextCandidate,
         DataOK
    <3>2. Claiming(p)' =>
            Claiming(p) /\ scan'[p].job = scan[p].job /\ scan'[p].missed = scan[p].missed
      <4>1. CASE ScanBegin(p)
        BY Zenon, <1>0, <4>1 DEF ScanBegin, Claiming, DataOK, NoScan
      <4>2. CASE ScanRead(p)
        BY <1>0, <2>0, <4>2 DEF ScanRead, Claiming, DataOK, ScanState
      <4>3. CASE ScanAlert(p)
        BY Zenon, <1>0, <2>0, <4>3 DEF ScanAlert, Claiming, DataOK, ScanState
      <4>4. CASE ScanEnqueue(p)
        BY SMTT(30), <1>0, <2>0, <4>4 DEF ScanEnqueue, NextCandidate, Claiming,
           DataOK, ScanState
      <4>5. CASE ScanEnd(p)
        BY Zenon, <1>0, <4>5 DEF ScanEnd, Claiming, DataOK, NoScan
      <4> QED BY SMTT(30), <2>1, <4>1, <4>2, <4>3, <4>4, <4>5
    <3> QED BY SMTT(30), <3>1, <3>2, ClaimsFrame DEF Claiming
  <2>2. CASE ScanMark(p)
    <3> DEFINE j == scan[p].job
               m == scan[p].missed
    <3>1. j \in Jobs /\ m \in Nat /\ scan[p].pc = "mark" /\ UNCHANGED phase
          /\ \A q \in Scanners \ {p} : scan'[q] = scan[q]
      BY SMTT(30), <1>0, <2>0, <2>2 DEF ScanMark, NextCandidate, ThreadsInv,
         ScanState, DataOK
    <3>2. CASE Handled(j, m)
      <4>1. UNCHANGED missed_handled /\ scan' = NextCandidate(p)
        BY Zenon, <2>2, <3>2 DEF ScanMark
      <4>2. ~Claiming(p)'
        BY SMTT(30), <1>0, <2>0, <4>1 DEF NextCandidate, Claiming, ScanState, DataOK
      <4> QED BY Zenon, <3>1, <4>1, <4>2, ClaimsFrame DEF Claiming
    <3>3. CASE ~Handled(j, m)
      <4>1. /\ missed_handled' = [missed_handled EXCEPT ![j] = m]
            /\ scan'[p].job = j /\ scan'[p].missed = m
        BY SMTT(30), <1>0, <2>0, <2>2, <3>3 DEF ScanMark, ScanState, DataOK
      <4>2. /\ missed_handled'[j] = m /\ missed_handled[j] < m
            /\ \A k \in Jobs \ {j} : missed_handled'[k] = missed_handled[k]
        BY SMTT(30), <1>0, <3>1, <3>3, <4>1 DEF Handled, DataOK
      <4>3. ASSUME NEW q \in Scanners \ {p}, Claiming(q)
            PROVE  /\ phase = "boot_scan"
                   /\ scan[q].job \in Jobs /\ scan[q].missed \in Nat
                   /\ missed_handled[scan[q].job] \in Nat
                   /\ missed_handled[scan[q].job] >= scan[q].missed
        <5>1. phase = "boot_scan"
          BY SMTT(30), <3>1, <4>3 DEF Claiming, ThreadsInv, Scanners
        <5>2. scan[q] \in ScanState /\ scan[q].job \in Jobs
          BY SMTT(30), <1>0, <4>3 DEF DataOK, Claiming, ThreadsInv
        <5> QED BY SMTT(30), <1>0, <4>3, <5>1, <5>2 DEF ClaimsInv, Handled, DataOK,
                   ScanState
      <4>4. MissClaimedOnce'
        <5>1. \A q \in Scanners \ {p} : Claiming(q)' =>
                Claiming(q) /\ ~(scan'[q].job = j /\ scan'[q].missed = m)
          BY SMTT(30), <3>1, <4>2, <4>3 DEF Claiming
        <5> QED BY SMTT(30), <3>1, <4>1, <5>1 DEF MissClaimedOnce, Claiming, Scanners
      <4>5. ASSUME NEW q \in Scanners, Claiming(q)'
            PROVE  missed_handled'[scan'[q].job] >= scan'[q].missed
        BY SMTT(30), <3>1, <4>1, <4>2, <4>3, <4>5 DEF Claiming
      <4> QED BY Zenon, <4>4, <4>5 DEF ClaimsInv, Handled
    <3> QED BY Zenon, <3>2, <3>3
  <2> QED BY Zenon, <1>7, <2>1, <2>2 DEF ScanStep
<1>8. ASSUME NEW t \in Tasks, WorkerStep(t) PROVE ClaimsInv'
  BY Zenon, <1>8, ClaimsFrame DEF WorkerStep, WorkerCheck, CommandEnds, WorkerPersist,
     InsertRun,
     WorkerRecord, WorkerReport, WorkerFinish, WorkerFrame, Claiming
<1>9. ASSUME NEW a \in Apis, ApiCall(a) \/ ApiStep(a) PROVE ClaimsInv'
  <2>1. UNCHANGED <<scan, phase>>
    BY ZenonT(30), <1>9 DEF ApiCall, RunCheck, AddCheck, RemoveCheck, Accept,
       ApiStep, RunEnqueue,
       AddUpsert, AddPush, RemoveDelete, RemoveErase, ApiSnapshot, ApiPublish, ApiFrame
  <2>2. phase # "boot_scan"
    BY Zenon, <1>9 DEF ApiCall, RunCheck, AddCheck, RemoveCheck, Accept, ApiStep,
       RunEnqueue,
       AddUpsert, AddPush, RemoveDelete, RemoveErase, ApiSnapshot, ApiPublish, ThreadsInv
  <2> QED BY SMTT(30), <2>1, <2>2, ClaimsFrame DEF Claiming
<1> QED BY SMTT(30), <1>1, <1>2, <1>3, <1>4, <1>5, <1>6, <1>7, <1>8, <1>9 DEF Next,
           Crash, LoopStep
==============================================================================

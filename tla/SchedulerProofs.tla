--------------------------- MODULE SchedulerProofs ---------------------------
(* Theorems about Scheduler, for every value of its constants: the times   *)
(* of the schedule, what follows from the whole inductive invariant, the   *)
(* order of runs, and what a step does to a scan under way.                *)
EXTENDS SchedulerTypeProofs

(***************************************************************************)
(* next_run_ and the job set.                                              *)
(***************************************************************************)

\* A step that changes neither the job set nor a time and goes to no place in
\* the loop that NoRefire speaks of.
LEMMA TimesFrame ==
  ASSUME TimesInv, UNCHANGED <<clock, config, ui, next_run, last_wall, api>>,
         Up' => Up,
         loop_pc' = loop_pc \/ loop_pc' \notin {"launch", "snapshot", "publish"}
  PROVE  TimesInv'
BY Zenon DEF TimesInv, UpcomingNotLost, NoRefire, Known

\* The steps of a call.
LEMMA ApiTimes ==
  ASSUME TypeOK, ThreadsInv, TimesInv, NEW a \in Apis, ApiCall(a) \/ ApiStep(a)
  PROVE  TimesInv'
<1> USE DEF memory, flags, loop, db
<1>0. DataOK /\ api[a] \in ApiState
  BY SMTT(30) DEF TypeOK, DataOK
<1>1. UNCHANGED <<clock, phase, config, last_wall, loop_pc>>
  BY Zenon DEF ApiCall, RunCheck, AddCheck, RemoveCheck, Accept, ApiStep, RunEnqueue,
     AddUpsert, AddPush, RemoveDelete, RemoveErase, ApiSnapshot, ApiPublish, ApiFrame
<1>2. ASSUME UNCHANGED <<ui, next_run>>,
             \A b \in Apis : api'[b].pc \in {"upsert", "push", "delete", "erase"} =>
               api'[b].job \notin config
      PROVE  TimesInv'
  BY Zenon, <1>1, <1>2 DEF TimesInv, UpcomingNotLost, NoRefire, Known, Up
<1>3. CASE ApiCall(a)
  <2>1. PICK j \in Jobs, op \in Ops, pc \in {"enqueue", "upsert", "delete"} :
          Accept(a, op, j, pc) /\ (pc # "enqueue" => j \notin config)
    <3>1. PICK j \in Jobs : RunCheck(a, j) \/ AddCheck(a, j) \/ RemoveCheck(a, j)
      BY Zenon, <1>3 DEF ApiCall
    <3>2. CASE RunCheck(a, j)
      <4>1. Accept(a, "run", j, "enqueue") /\ "run" \in Ops
        BY Zenon, <3>2 DEF RunCheck, Accept
      <4> QED BY Zenon, <4>1
    <3>3. CASE AddCheck(a, j)
      <4>1. Accept(a, "add", j, "upsert") /\ "add" \in Ops /\ j \notin config
        BY Zenon, <3>3 DEF AddCheck, Accept, Known
      <4> QED BY Zenon, <4>1
    <3>4. CASE RemoveCheck(a, j)
      <4>1. Accept(a, "remove", j, "delete") /\ "remove" \in Ops /\ j \notin config
        BY Zenon, <3>4 DEF RemoveCheck, Accept, TimesInv
      <4> QED BY Zenon, <4>1
    <3> QED BY Zenon, <3>1, <3>2, <3>3, <3>4
  <2> QED BY Zenon, <1>0, <1>2, <2>1 DEF Accept, IdleApi, TimesInv, DataOK
<1>4. CASE RunEnqueue(a) \/ ApiSnapshot(a) \/ ApiPublish(a)
  <2>1. /\ UNCHANGED <<ui, next_run>>
        /\ \A b \in Apis : b # a => api'[b] = api[b]
        /\ api'[a].pc \in {"idle", "publish"}
    BY SMTT(30), <1>0, <1>4 DEF RunEnqueue, ApiSnapshot, ApiPublish, IdleApi, DataOK,
       ApiState
  <2> QED BY Zenon, <1>2, <2>1 DEF TimesInv
<1>5. CASE AddUpsert(a) \/ RemoveDelete(a)
  BY SMTT(30), <1>0, <1>2, <1>5 DEF AddUpsert, RemoveDelete, Goto, IdleApi, TimesInv,
     DataOK,
     ApiState
<1>6. CASE AddPush(a)
  <2> DEFINE j == api[a].job
  <2>1. j \in Jobs /\ j \notin config
    BY Zenon, <1>6 DEF AddPush, ThreadsInv, TimesInv
  <2>2. /\ NextAfter(j, clock) \in Nat
        /\ NextAfter(j, clock) = 0 \/ NextAfter(j, clock) > clock
        /\ \A o \in Occ[j] : o > clock => NextAfter(j, clock) # 0 /\ NextAfter(j, clock) <= o
    BY Zenon, <1>0, <2>1, NextAfterFirst DEF DataOK
  <2>3. /\ ui' = ui \cup {j}
        /\ next_run'[j] = IF NextAfter(j, clock) # 0 THEN NextAfter(j, clock) ELSE next_run[j]
        /\ \A k \in Jobs \ {j} : next_run'[k] = next_run[k]
        /\ \A b \in Apis : api'[b].job = api[b].job
        /\ \A b \in Apis : b # a => api'[b] = api[b]
        /\ api'[a].pc = "snapshot"
    BY SMTT(30), <1>0, <1>6, <2>1 DEF AddPush, Goto, DataOK, ApiState
  <2>4. UpcomingNotLost'
    BY SMTT(30), <1>1, <2>2, <2>3, <2>1, <1>0 DEF UpcomingNotLost, TimesInv, Known,
       Up, DataOK
  <2>5. NoRefire'
    BY SMTT(30), <1>0, <1>1, <2>2, <2>3, <2>1 DEF NoRefire, TimesInv, DataOK
  <2> QED BY SMTT(30), <1>1, <2>1, <2>3, <2>4, <2>5 DEF TimesInv, Known
<1>7. CASE RemoveErase(a)
  <2> DEFINE j == api[a].job
  <2>1. j \in Jobs /\ j \notin config
    BY Zenon, <1>7 DEF RemoveErase, ThreadsInv, TimesInv
  <2>2. /\ ui' = ui \ {j}
        /\ next_run'[j] = 0
        /\ \A k \in Jobs \ {j} : next_run'[k] = next_run[k]
        /\ \A b \in Apis : api'[b].job = api[b].job
        /\ \A b \in Apis : b # a => api'[b] = api[b]
        /\ api'[a].pc = "snapshot"
    BY SMTT(30), <1>0, <1>7, <2>1 DEF RemoveErase, Goto, DataOK, ApiState
  <2>3. UpcomingNotLost'
    BY SMTT(30), <1>0, <1>1, <2>1, <2>2 DEF UpcomingNotLost, TimesInv, Known, Up,
       DataOK
  <2>4. NoRefire'
    BY Zenon, <1>1, <2>2 DEF NoRefire, TimesInv
  <2> QED BY SMTT(30), <1>1, <2>1, <2>2, <2>3, <2>4 DEF TimesInv, Known
<1> QED BY Zenon, <1>3, <1>4, <1>5, <1>6, <1>7 DEF ApiStep

\* Every step keeps next_run_ ahead of the clock and behind what is to come.
LEMMA NextTimes == TypeOK /\ ThreadsInv /\ TimesInv /\ [Next]_vars => TimesInv'
<1> SUFFICES ASSUME TypeOK, ThreadsInv, TimesInv, [Next]_vars PROVE TimesInv'
  BY Zenon
<1> USE DEF memory, flags, loop, db
<1>0. DataOK
  BY Zenon DEF TypeOK
<1>1. CASE Tick
  <2>1. /\ UNCHANGED <<phase, config, ui, next_run, last_wall, api, loop_pc>>
        /\ clock' = clock + 1
    BY Zenon, <1>1 DEF Tick
  <2>2. UpcomingNotLost'
    <3>1. SUFFICES ASSUME Up, NEW j \in Known, NEW o \in Occ[j], o > clock + 1
                   PROVE  next_run[j] # 0 /\ next_run[j] <= o
      BY Zenon, <2>1 DEF UpcomingNotLost, Known, Up
    <3>2. j \in Jobs
      BY Zenon, <1>0 DEF Known, DataOK
    <3>3. o \in Nat /\ clock \in Nat
      BY SMTT(30), <1>0, <3>2, SchedulerAssumption DEF DataOK
    <3> QED BY <3>1, <3>3 DEF TimesInv, UpcomingNotLost
  <2>3. last_wall' <= clock'
    BY SMTT(30), <1>0, <2>1 DEF TimesInv, DataOK
  <2> QED BY Zenon, <2>1, <2>2, <2>3 DEF TimesInv, NoRefire, Known
<1>2. CASE NotifyWake \/ Halted \/ StopServer \/ Joins \/ UNCHANGED vars
  BY SMTT(30), <1>2, TimesFrame DEF NotifyWake, Halted, StopServer, Joins, Stop,
     JoinLoop,
     JoinWorkers, vars, Up
<1>3. CASE Boot
  <2>1. PICK c \in Configs :
       /\ config' = c /\ ui' = db_defs \ c
       /\ next_run' = [j \in Jobs |-> IF j \in c \cup db_defs THEN NextAfter(j, clock) ELSE 0]
    BY Zenon, <1>3 DEF Boot, LastRun
  <2>2. \A j \in Known' : j \in Jobs /\ next_run'[j] = NextAfter(j, clock)
    BY SMTT(30), <1>0, <2>1, SchedulerAssumption DEF Known, DataOK
  <2>3. UpcomingNotLost'
    BY SMTT(30), <1>0, <1>3, <2>2, NextAfterFirst DEF Boot, LastRun, UpcomingNotLost,
       DataOK
  <2>4. \A a \in Apis : api[a].pc = "idle"
    BY Zenon, <1>3 DEF Boot, LastRun, ThreadsInv
  <2>5. \A j \in Jobs : next_run'[j] # 0 => j \in Known'
    BY Zenon, <2>1 DEF Known
  <2>6. last_wall' <= clock' /\ NoRefire' /\ UNCHANGED api
    BY <1>0, <1>3 DEF Boot, LastRun, NoRefire, DataOK
  <2> QED BY Zenon, <2>1, <2>3, <2>4, <2>5, <2>6 DEF TimesInv
<1>4. CASE Die
  <2>1. UpcomingNotLost' /\ NoRefire'
    BY Zenon, <1>4 DEF Die, Changing, UpcomingNotLost, NoRefire, Up
  <2>2. last_wall' <= clock'
    BY SMTT(30), <1>0, <1>4 DEF Die, Changing, DataOK
  <2>3. config' \cap ui' = {} /\ \A j \in Jobs : next_run'[j] = 0
    BY Zenon, <1>4 DEF Die, Changing, Zero
  <2>4. \A a \in Apis : api'[a].pc = "idle"
    BY SMTT(30), <1>4 DEF Die, Changing, IdleApi
  <2> QED BY SMTT(30), <2>1, <2>2, <2>3, <2>4 DEF TimesInv
<1>5. CASE LoopTop
  <2>1. /\ UNCHANGED <<clock, config, ui, next_run, api, phase>>
        /\ last_wall' = clock /\ loop_pc' \notin {"launch", "snapshot", "publish"}
    BY Zenon, <1>5 DEF LoopTop, DetectWake
  <2> QED BY <1>0, <2>1 DEF TimesInv, UpcomingNotLost, NoRefire, Known, Up, DataOK
<1>6. CASE LoopExit \/ LaunchedAll \/ LoopSnapshot \/ LoopPublish
  <2>1. /\ UNCHANGED <<clock, config, ui, next_run, api, phase, last_wall>>
        /\ \/ loop_pc' \notin {"launch", "snapshot", "publish"}
           \/ loop_pc \in {"launch", "snapshot", "publish"}
    BY SMTT(30), <1>6 DEF LoopExit, LaunchedAll, LoopSnapshot, LoopPublish, LoopFrame
  <2> QED BY SMTT(30), <2>1 DEF TimesInv, UpcomingNotLost, NoRefire, Known, Up
<1>7. CASE Dispatch
  <2>1. UNCHANGED <<clock, config, ui, api, phase, last_wall>>
    BY Zenon, <1>7 DEF Dispatch
  <2>2. \A j \in Jobs : next_run'[j] = IF Due(j) THEN NextAfter(j, last_wall) ELSE next_run[j]
    BY SMTT(30), <1>7 DEF Dispatch
  <2>3. \A j \in Jobs :
          /\ NextAfter(j, last_wall) = 0 \/ NextAfter(j, last_wall) > last_wall
          /\ \A o \in Occ[j] : o > last_wall =>
               NextAfter(j, last_wall) # 0 /\ NextAfter(j, last_wall) <= o
    BY SMTT(30), <1>0, NextAfterFirst DEF DataOK
  <2>4. \A j \in Jobs : next_run[j] \in Nat /\ Occ[j] \subseteq Nat
    BY SMTT(30), <1>0, SchedulerAssumption DEF DataOK
  <2>5. UpcomingNotLost'
    <3>1. SUFFICES ASSUME Up, NEW j \in Known, NEW o \in Occ[j], o > clock
                   PROVE  next_run'[j] # 0 /\ next_run'[j] <= o
      BY SMTT(30), <2>1 DEF UpcomingNotLost, Known, Up
    <3>2. j \in Jobs
      BY Zenon, <1>0 DEF Known, DataOK
    <3>3. o \in Nat /\ o > last_wall
      BY SMTT(30), <1>0, <2>4, <3>1, <3>2 DEF DataOK, TimesInv
    <3> QED BY SMTT(30), <2>2, <2>3, <3>1, <3>2, <3>3 DEF TimesInv, UpcomingNotLost
  <2>6. NoRefire'
    <3>1. SUFFICES ASSUME NEW j \in Jobs PROVE next_run'[j] = 0 \/ next_run'[j] > last_wall
      BY SMTT(30), <2>1 DEF NoRefire
    <3> QED BY SMTT(30), <1>0, <2>2, <2>3, <2>4 DEF Due, TimesInv, DataOK
  <2>7. \A j \in Jobs : next_run'[j] # 0 => j \in Known'
    BY Zenon, <2>1, <2>2 DEF Due, Known, TimesInv
  <2> QED BY SMTT(30), <2>1, <2>5, <2>6, <2>7 DEF TimesInv
<1>8. ASSUME NEW j \in Jobs, Launch(j), ~Die PROVE TimesInv'
  BY SMTT(30), <1>8, TimesFrame DEF Launch, Up
<1>9. ASSUME NEW p \in Scanners, ScanStep(p) PROVE TimesInv'
  <2>1. CASE ScanEnd(p)
    <3>1. UNCHANGED <<clock, config, ui, next_run, last_wall, api>>
      BY Zenon, <2>1 DEF ScanEnd, ScanFrame
    <3>2. Up' => Up
      BY Zenon, <2>1 DEF ScanEnd, ThreadsInv, Up
    <3>3. loop_pc' = loop_pc \/ loop_pc' = "dispatch"
      BY SMTT(30), <2>1 DEF ScanEnd
    <3> QED BY SMTT(30), <3>1, <3>2, <3>3, TimesFrame
  <2> QED BY Zenon, <1>9, <2>1, TimesFrame DEF ScanStep, ScanBegin, ScanRead,
             ScanMark,
     ScanAlert, ScanEnqueue, ScanFrame, Up
<1>10. ASSUME NEW t \in Tasks, WorkerStep(t) PROVE TimesInv'
  BY SMTT(30), <1>10, TimesFrame DEF WorkerStep, WorkerCheck, CommandEnds,
     WorkerPersist, InsertRun,
     WorkerRecord, WorkerReport, WorkerFinish, WorkerFrame, Up
<1> QED BY SMTT(30), <1>1, <1>2, <1>3, <1>4, <1>5, <1>6, <1>7, <1>8, <1>9, <1>10,
           ApiTimes
        DEF Next, Crash, LoopStep

(***************************************************************************)
(* The theorems.                                                           *)
(***************************************************************************)

\* The invariant holds before the first start.
LEMMA InitInv == Init => IndInv
<1> SUFFICES ASSUME Init PROVE IndInv
  BY Zenon
<1>1. TypeOK
  BY SMTT(30), InitType
<1>2. ThreadsInv
  BY SMTT(30) DEF Init, ThreadsInv, Scanners, NoScan, IdleApi
<1>3. TasksInv
  BY Zenon DEF Init, TasksInv, FreeTask
<1>4. TimesInv
  <2>1. UpcomingNotLost /\ NoRefire
    BY Zenon DEF Init, UpcomingNotLost, NoRefire, Up
  <2>2. last_wall <= clock
    BY DEF Init
  <2>3. config \cap ui = {} /\ \A j \in Jobs : next_run[j] = 0
    BY Zenon DEF Init, Zero
  <2>4. \A a \in Apis : api[a].pc = "idle"
    BY SMTT(30) DEF Init, IdleApi
  <2> QED BY SMTT(30), <2>1, <2>2, <2>3, <2>4 DEF TimesInv
<1>5. ClaimsInv
  BY Zenon DEF Init, ClaimsInv, MissClaimedOnce, Claiming, NoScan
<1> QED BY Zenon, <1>1, <1>2, <1>3, <1>4, <1>5 DEF IndInv

\* The conjunction of types, thread positions, task accounting, times and claims
\* is an inductive invariant of the scheduler: every thread's step keeps it.
THEOREM Inductive == Spec => []IndInv
<1>1. Init => IndInv
  BY Zenon, InitInv
<1>2. IndInv /\ [Next]_vars => IndInv'
  BY Zenon, NextType, NextThreads, NextTasks, NextTimes, NextClaims DEF IndInv
<1> QED BY <1>1, <1>2, PTL DEF Spec

\* Every variable keeps the values of the C++ member it stands for.
THEOREM TypeCorrect == Spec => []TypeOK
<1>1. IndInv => TypeOK
  BY SMTT(30) DEF IndInv
<1> QED BY <1>1, Inductive, PTL

\* No worker thread is forgotten by reap_finished or stop().
THEOREM WorkersAreAccounted == Spec => []WorkersAccounted
<1>1. IndInv => WorkersAccounted
  BY Zenon DEF IndInv, TasksInv, WorkersAccounted, Live
<1> QED BY <1>1, Inductive, PTL

\* Whose task is whose leaves room for one live task per job only.
LEMMA OneRun == IndInv => AtMostOneRun
<1> SUFFICES ASSUME IndInv, NEW t \in Tasks, NEW u \in Tasks, Live(t), Live(u),
                    task[t].job = task[u].job
             PROVE  t = u
  BY SMTT(30) DEF AtMostOneRun
<1>1. /\ task[t].job \in Jobs
      /\ running[task[t].job] = t \/ t \in joining
      /\ running[task[t].job] = u \/ u \in joining
  BY Zenon DEF IndInv, TasksInv, Live
<1>2. CASE joining = {}
  BY SMTT(30), <1>1, <1>2
<1>3. CASE joining # {}
  <2>1. running[task[t].job] = NoTask
    BY SMTT(30), <1>1, <1>3 DEF IndInv, TasksInv
  <2> QED BY SMTT(30), <1>1, <2>1, SchedulerAssumption DEF IndInv, TasksInv
<1> QED BY Zenon, <1>2, <1>3

\* At most one worker thread executes a job at any time.
THEOREM OneRunPerJob == Spec => []AtMostOneRun
BY OneRun, Inductive, PTL

\* When stop() has returned no worker thread is left.
THEOREM ExitIsClean == Spec => []ExitLeavesNoWorker
<1>1. IndInv => ExitLeavesNoWorker
  BY SMTT(30), SchedulerAssumption DEF IndInv, TasksInv, ExitLeavesNoWorker, Live,
     Joined
<1> QED BY <1>1, Inductive, PTL

\* A finished worker has raised an alert exactly if its last attempt failed.
THEOREM FailuresAreAlerted == Spec => []FailureAlerted
<1>1. IndInv => FailureAlerted
  BY SMTT(30) DEF IndInv, TasksInv, FailureAlerted
<1> QED BY <1>1, Inductive, PTL

\* No upcoming occurrence of a known job is skipped.
THEOREM ScheduleKept == Spec => []UpcomingNotLost
<1>1. IndInv => UpcomingNotLost
  BY Zenon DEF IndInv, TimesInv
<1> QED BY <1>1, Inductive, PTL

\* None is fired twice by the due check.
THEOREM NothingRefires == Spec => []NoRefire
<1>1. IndInv => NoRefire
  BY Zenon DEF IndInv, TimesInv
<1> QED BY <1>1, Inductive, PTL

\* A missed occurrence is claimed by one of the two scanners only.
THEOREM OneClaimPerMiss == Spec => []MissClaimedOnce
<1>1. IndInv => MissClaimedOnce
  BY Zenon DEF IndInv, ClaimsInv
<1> QED BY <1>1, Inductive, PTL

(***************************************************************************)
(* The order of runs.                                                      *)
(***************************************************************************)

Recording == {"command", "persist", "record"}

\* A step that records nothing and starts no command.
LEMMA RunsFrame ==
  ASSUME RunsInv, UNCHANGED <<clock, last_runs, db_last>>,
         \A t \in Tasks : task'[t].pc \in Recording =>
           /\ task[t].pc \in Recording
           /\ task'[t].job = task[t].job /\ task'[t].started = task[t].started
  PROVE  RunsInv'
BY Zenon DEF RunsInv, Recording

\* The steps of a worker.  That no other worker of the job is between start and
\* record is OneRun.
LEMMA WorkerRuns ==
  ASSUME IndInv, RunsInv, NEW t \in Tasks, WorkerStep(t)
  PROVE  RunsInv'
<1>0. DataOK /\ task[t] \in TaskState /\ TasksInv /\ AtMostOneRun
  BY Zenon, OneRun DEF IndInv, TypeOK, DataOK
<1>1. UNCHANGED clock /\ \A u \in Tasks \ {t} : task'[u] = task[u]
  BY ZenonT(30), <1>0 DEF WorkerStep, WorkerCheck, CommandEnds, WorkerPersist,
     WorkerRecord, WorkerReport, WorkerFinish, WorkerFrame, DataOK
<1>2. task[t].job \in Jobs
  BY SMTT(30), <1>0 DEF WorkerStep, WorkerCheck, CommandEnds, WorkerPersist,
     WorkerRecord, WorkerReport, WorkerFinish, TasksInv
<1>3. CASE WorkerCheck(t)
  <2>1. /\ UNCHANGED <<last_runs, db_last>>
        /\ task'[t].pc = "command" => task'[t].started = clock
        /\ task'[t].pc \in {"command", "report"} /\ task'[t].job = task[t].job
    BY SMTT(30), <1>0, <1>3 DEF WorkerCheck, DataOK, TaskState
  <2> QED BY SMTT(30), <1>0, <1>1, <1>2, <2>1 DEF RunsInv, DataOK
<1>4. CASE CommandEnds(t) \/ WorkerReport(t) \/ WorkerFinish(t)
  <2>1. /\ UNCHANGED <<last_runs, db_last>>
        /\ task'[t].pc \in {"persist", "finish", "done"}
        /\ task'[t].pc = "persist" => task[t].pc = "command"
        /\ task'[t].job = task[t].job /\ task'[t].started = task[t].started
    <3>1. CASE CommandEnds(t)
      BY SMTT(30), <1>0, <3>1 DEF CommandEnds, DataOK, TaskState
    <3>2. CASE WorkerReport(t)
      <4>1. UNCHANGED <<last_runs, db_last>>
        BY Zenon, <3>2 DEF WorkerReport
      <4>2. task'[t] = [task[t] EXCEPT !.pc = "finish", !.alerted = Failed(t)]
        BY Zenon, <1>0, <3>2 DEF WorkerReport, DataOK
      <4> QED BY SMTT(30), <1>0, <4>1, <4>2 DEF TaskState
    <3>3. CASE WorkerFinish(t)
      BY SMTT(30), <1>0, <3>3 DEF WorkerFinish, DataOK, TaskState
    <3> QED BY Zenon, <1>4, <3>1, <3>2, <3>3
  <2> QED BY Zenon, <1>1, <2>1, RunsFrame DEF Recording
<1>5. CASE WorkerPersist(t)
  <2> DEFINE j == task[t].job
  <2>1. /\ UNCHANGED last_runs /\ task[t].pc = "persist" /\ task'[t].pc = "record"
        /\ task'[t].job = j /\ task'[t].started = task[t].started
    BY SMTT(30), <1>0, <1>5 DEF WorkerPersist, DataOK, TaskState
  <2>2. task[t].started \in Nat /\ db_last[j] \in Nat /\ clock \in Nat
    BY SMTT(30), <1>0, <1>2 DEF DataOK, TaskState
  <2>3. task[t].started <= clock /\ db_last[j] <= clock
    BY SMTT(30), <1>2, <2>1 DEF RunsInv
  <2>4. Latest({db_last[j], task[t].started}) \in {db_last[j], task[t].started}
    BY <2>2, LatestOfTwo, Zenon
  <2>5. \A k \in Jobs : db_last'[k] <= clock
    <3>1. CASE db_last' = [db_last EXCEPT ![j] = Latest({db_last[j], task[t].started})]
      BY SMTT(30), <1>0, <1>2, <2>2, <2>3, <2>4, <3>1 DEF RunsInv, DataOK
    <3>2. CASE UNCHANGED db_last
      BY Zenon, <3>2 DEF RunsInv
    <3> QED BY Zenon, <1>5, <3>1, <3>2 DEF WorkerPersist, InsertRun
  <2> QED BY SMTT(30), <1>1, <2>1, <2>5 DEF RunsInv
<1>6. CASE WorkerRecord(t)
  <2> DEFINE j == task[t].job
  <2>1. /\ UNCHANGED db_last /\ task[t].pc = "record"
        /\ task'[t].pc \in {"report", "check"}
        /\ last_runs'[j] = task[t].started
        /\ \A k \in Jobs \ {j} : last_runs'[k] = last_runs[k]
    BY SMTT(30), <1>0, <1>2, <1>6 DEF WorkerRecord, DataOK, TaskState
  <2>2. task[t].started <= clock
    BY SMTT(30), <2>1 DEF RunsInv
  <2>3. ASSUME NEW u \in Tasks \ {t}, task[u].pc \in Recording
        PROVE  task[u].job # j /\ task[u].job \in Jobs
    BY SMTT(30), <1>0, <2>1, <2>3 DEF AtMostOneRun, Live, TasksInv, Recording
  <2>4. \A u \in Tasks : task'[u].pc \in Recording => u # t
    BY Zenon, <2>1 DEF Recording
  <2>5. ASSUME NEW u \in Tasks, task'[u].pc \in Recording
        PROVE  task'[u].started <= clock /\ last_runs'[task'[u].job] <= task'[u].started
    <3>1. u # t /\ task'[u] = task[u]
      BY Zenon, <1>1, <2>4, <2>5
    <3>2. last_runs'[task[u].job] = last_runs[task[u].job]
      BY Zenon, <2>1, <2>3, <2>5, <3>1
    <3> QED BY Zenon, <2>5, <3>1, <3>2 DEF RunsInv, Recording
  <2> QED BY SMTT(30), <1>1, <2>1, <2>2, <2>5 DEF RunsInv, Recording
<1> QED BY Zenon, <1>3, <1>4, <1>5, <1>6 DEF WorkerStep

\* Calls leave clock, tasks and the table of runs alone; remove_job clears an
\* entry of last_runs_.
LEMMA ApiRuns ==
  ASSUME IndInv, NEW a \in Apis, ApiCall(a) \/ ApiStep(a)
  PROVE  /\ UNCHANGED <<clock, task, db_last, config, scan, phase>>
         /\ \/ UNCHANGED <<last_runs, missed_handled>> /\ ~RemoveErase(a)
            \/ /\ RemoveErase(a) /\ api[a].job \in Jobs \ config
               /\ api[a].job \notin Known'
               /\ last_runs'[api[a].job] = 0
               /\ \A k \in Jobs \ {api[a].job} :
                    /\ last_runs'[k] = last_runs[k]
                    /\ missed_handled'[k] = missed_handled[k]
<1>0. DataOK
  BY Zenon DEF IndInv, TypeOK
<1>1. UNCHANGED <<clock, task, db_last, config, scan, phase>>
  BY ZenonT(30) DEF ApiCall, RunCheck, AddCheck, RemoveCheck, Accept, ApiStep, RunEnqueue,
     AddUpsert, AddPush, RemoveDelete, RemoveErase, ApiSnapshot, ApiPublish, ApiFrame
<1>2. CASE ~RemoveErase(a)
  BY ZenonT(30), <1>1, <1>2 DEF ApiCall, RunCheck, AddCheck, RemoveCheck, Accept, ApiStep,
     RunEnqueue, AddUpsert, AddPush, RemoveDelete, ApiSnapshot, ApiPublish
<1>3. CASE RemoveErase(a)
  <2>1. api[a].job \in Jobs \ config
    BY SMTT(30), <1>3 DEF RemoveErase, IndInv, ThreadsInv, TimesInv
  <2>2. api[a].job \notin Known'
    BY Zenon, <1>1, <1>3, <2>1 DEF RemoveErase, Known
  <2>3. /\ last_runs'[api[a].job] = 0
        /\ \A k \in Jobs \ {api[a].job} :
             /\ last_runs'[k] = last_runs[k]
             /\ missed_handled'[k] = missed_handled[k]
    BY SMTT(30), <1>0, <1>3, <2>1 DEF RemoveErase, DataOK
  <2> QED BY Zenon, <1>1, <1>3, <2>1, <2>2, <2>3
<1> QED BY Zenon, <1>2, <1>3

\* Every step keeps runs in order.
LEMMA NextRuns == IndInv /\ RunsInv /\ [Next]_vars => RunsInv'
<1> SUFFICES ASSUME IndInv, RunsInv, [Next]_vars PROVE RunsInv'
  BY Zenon
<1> USE DEF memory, flags, loop, db
<1>0. DataOK
  BY Zenon DEF IndInv, TypeOK
<1>1. CASE Tick
  <2>1. UNCHANGED <<last_runs, db_last, task>> /\ clock' = clock + 1
    BY Zenon, <1>1 DEF Tick
  <2>2. \A j \in Jobs : last_runs[j] \in Nat /\ db_last[j] \in Nat
    BY SMTT(30), <1>0 DEF DataOK
  <2>3. \A t \in Tasks : task[t].started \in Nat
    BY SMTT(30), <1>0 DEF DataOK, TaskState
  <2> QED BY SMTT(30), <1>0, <2>1, <2>2, <2>3 DEF RunsInv, DataOK
<1>2. CASE NotifyWake \/ Halted \/ StopServer \/ Joins \/ UNCHANGED vars
  BY ZenonT(30), <1>2, RunsFrame DEF NotifyWake, Halted, StopServer, Joins, Stop,
     JoinLoop, JoinWorkers, vars
<1>3. CASE Boot
  <2>1. /\ UNCHANGED <<clock, db_last>> /\ \A t \in Tasks : task'[t].pc = "free"
        /\ \A j \in Jobs : last_runs'[j] \in {db_last[j], 0}
    BY SMTT(30), <1>3 DEF Boot, LastRun, FreeTask
  <2> QED BY SMTT(30), <1>0, <2>1 DEF RunsInv, DataOK
<1>4. CASE Die
  <2>1. /\ UNCHANGED <<clock, db_last>> /\ \A t \in Tasks : task'[t].pc = "free"
        /\ \A j \in Jobs : last_runs'[j] = 0
    BY SMTT(30), <1>4 DEF Die, Zero, FreeTask
  <2> QED BY SMTT(30), <1>0, <2>1 DEF RunsInv, DataOK
<1>5. CASE LoopTop
  <2>1. /\ UNCHANGED <<clock, last_runs, db_last>>
        /\ \A t \in Tasks : task'[t] = task[t] \/ task'[t] = FreeTask
    BY SMTT(30), <1>5 DEF LoopTop, ReapFinished
  <2> QED BY <2>1, RunsFrame DEF FreeTask, Recording
<1>6. CASE LoopExit \/ Dispatch \/ LaunchedAll \/ LoopSnapshot \/ LoopPublish
  BY ZenonT(30), <1>6, RunsFrame DEF LoopExit, Dispatch, LaunchedAll, LoopSnapshot,
     LoopPublish, LoopFrame
<1>7. ASSUME NEW j \in Jobs, Launch(j), ~Die PROVE RunsInv'
  <2>1. /\ UNCHANGED <<clock, last_runs, db_last>>
        /\ \A t \in Tasks : task'[t] = task[t] \/ task'[t].pc = "check"
    <3>1. UNCHANGED <<clock, last_runs, db_last>>
      BY Zenon, <1>7 DEF Launch
    <3>2. PICK t \in Tasks : task' = [task EXCEPT ![t] =
            [FreeTask EXCEPT !.pc = "check", !.job = j, !.attempt = 1]]
      BY Zenon, <1>7 DEF Launch
    <3>3. [FreeTask EXCEPT !.pc = "check", !.job = j, !.attempt = 1].pc = "check"
      BY Zenon DEF FreeTask
    <3> QED BY Zenon, <1>0, <3>1, <3>2, <3>3 DEF DataOK
  <2> QED BY Zenon, <2>1, RunsFrame DEF Recording
<1>8. ASSUME NEW p \in Scanners, ScanStep(p) PROVE RunsInv'
  BY ZenonT(30), <1>8, RunsFrame DEF ScanStep, ScanBegin, ScanRead, ScanMark, ScanAlert,
     ScanEnqueue, ScanEnd, ScanFrame
<1>9. ASSUME NEW a \in Apis, ApiCall(a) \/ ApiStep(a) PROVE RunsInv'
  <2>1. /\ UNCHANGED <<clock, task, db_last>>
        /\ \A j \in Jobs : last_runs'[j] \in {last_runs[j], 0}
    BY SMTT(30), <1>9, ApiRuns
  <2>2. \A t \in Tasks : task[t].pc \in Recording =>
          task[t].job \in Jobs /\ task[t].started \in Nat
    BY SMTT(30), <1>0 DEF IndInv, TasksInv, Recording, DataOK, TaskState
  <2> QED BY SMTT(30), <1>0, <2>1, <2>2 DEF RunsInv, DataOK, Recording
<1> QED BY SMTT(30), <1>1, <1>2, <1>3, <1>4, <1>5, <1>6, <1>7, <1>8, <1>9, WorkerRuns
        DEF Next, Crash, LoopStep

\* What is recorded of a job only grows while the process is up and knows it.
LEMMA RecordsGrow ==
  ASSUME IndInv, RunsInv, [Next]_vars, Up, Up'
  PROVE  /\ config' = config
         /\ \A j \in Jobs : last_runs[j] <= last_runs'[j] \/ j \notin Known'
         /\ \A j \in config : missed_handled[j] <= missed_handled'[j]
<1> USE DEF memory, flags, loop, db
<1>0. DataOK
  BY Zenon DEF IndInv, TypeOK
<1>1. /\ \A j \in Jobs : last_runs[j] \in Nat /\ missed_handled[j] \in Nat
      /\ config \subseteq Jobs
  BY SMTT(30), <1>0 DEF DataOK
<1>2. ASSUME UNCHANGED <<config, last_runs, missed_handled>>
      PROVE  /\ config' = config
             /\ \A j \in Jobs : last_runs[j] <= last_runs'[j]
             /\ \A j \in config : missed_handled[j] <= missed_handled'[j]
  BY SMTT(30), <1>1, <1>2
<1>3. ~Boot /\ ~Die
  BY Zenon DEF Boot, Die, Up
<1>4. CASE Tick \/ NotifyWake \/ Halted \/ StopServer \/ Joins \/ UNCHANGED vars \/ LoopTop
           \/ LoopExit \/ Dispatch \/ LaunchedAll \/ LoopSnapshot \/ LoopPublish
  <2>1. UNCHANGED <<config, last_runs, missed_handled>>
    BY ZenonT(60), <1>4 DEF Tick, NotifyWake, Halted, StopServer, Joins, Stop, JoinLoop,
       JoinWorkers, vars, LoopTop, LoopExit, Dispatch, LaunchedAll, LoopSnapshot,
       LoopPublish, LoopFrame
  <2> QED BY Zenon, <1>2, <2>1
<1>5. ASSUME NEW j \in Jobs, Launch(j)
      PROVE  UNCHANGED <<config, last_runs, missed_handled>>
  BY Zenon, <1>3, <1>5 DEF Launch
<1>6. ASSUME NEW p \in Scanners, ScanStep(p)
      PROVE  /\ UNCHANGED <<config, last_runs>>
             /\ \A j \in Jobs : missed_handled[j] <= missed_handled'[j]
  <2>1. UNCHANGED <<config, last_runs>>
    BY ZenonT(30), <1>6 DEF ScanStep, ScanBegin, ScanRead, ScanMark, ScanAlert,
       ScanEnqueue, ScanEnd, ScanFrame
  <2>2. \/ UNCHANGED missed_handled
        \/ /\ missed_handled' = [missed_handled EXCEPT ![scan[p].job] = scan[p].missed]
           /\ ~Handled(scan[p].job, scan[p].missed)
    BY ZenonT(30), <1>6 DEF ScanStep, ScanBegin, ScanRead, ScanMark, ScanAlert,
       ScanEnqueue, ScanEnd
  <2>3. scan[p].missed \in Nat
    BY SMTT(30), <1>0 DEF DataOK, ScanState
  <2> QED BY SMTT(30), <1>0, <1>1, <2>1, <2>2, <2>3 DEF Handled, DataOK
<1>7. ASSUME NEW t \in Tasks, WorkerStep(t)
      PROVE  /\ UNCHANGED <<config, missed_handled>>
             /\ \A j \in Jobs : last_runs[j] <= last_runs'[j]
  <2>1. UNCHANGED <<config, missed_handled>>
    BY ZenonT(30), <1>7 DEF WorkerStep, WorkerCheck, CommandEnds, WorkerPersist,
       WorkerRecord, WorkerReport, WorkerFinish, WorkerFrame
  <2>2. \/ UNCHANGED last_runs
        \/ /\ last_runs' = [last_runs EXCEPT ![task[t].job] = task[t].started]
           /\ task[t].pc = "record"
    BY ZenonT(30), <1>7 DEF WorkerStep, WorkerCheck, CommandEnds, WorkerPersist,
       WorkerRecord, WorkerReport, WorkerFinish
  <2>3. task[t].pc = "record" => last_runs[task[t].job] <= task[t].started
    BY SMTT(30) DEF RunsInv
  <2> QED BY SMTT(30), <1>0, <1>1, <2>1, <2>2, <2>3 DEF DataOK
<1>8. ASSUME NEW a \in Apis, ApiCall(a) \/ ApiStep(a)
      PROVE  /\ config' = config
             /\ \A j \in Jobs : last_runs[j] <= last_runs'[j] \/ j \notin Known'
             /\ \A j \in config : missed_handled[j] <= missed_handled'[j]
  BY SMTT(30), <1>1, <1>8, ApiRuns
<1> QED BY SMTT(30), <1>1, <1>2, <1>3, <1>4, <1>5, <1>6, <1>7, <1>8
        DEF Next, Crash, LoopStep

\* Runs are recorded in the order they start in.
LEMMA RunsInvariant == Spec => [](IndInv /\ RunsInv)
<1>1. Init => RunsInv
  BY DEF Init, RunsInv, FreeTask, Zero
<1> QED BY <1>1, Inductive, NextRuns, PTL DEF Spec

\* No recorded run of a job is replaced by an earlier one.
THEOREM LastRunsKept == Spec => LastRunNeverBack
<1>1. IndInv /\ RunsInv /\ [Next]_vars =>
        [Up /\ Up' => \A j \in Jobs : last_runs[j] <= last_runs'[j] \/ j \notin Known']_vars
  BY Zenon, RecordsGrow
<1> QED BY <1>1, RunsInvariant, PTL DEF Spec, LastRunNeverBack

(***************************************************************************)
(* What the steps of the scheduler do to a scan under way.                 *)
(***************************************************************************)

\* A step of the other threads: what scan p has covered stays covered.
LEMMA CoveredKept ==
  ASSUME IndInv, RunsInv, [Next]_vars, Up, Up', NEW p \in Scanners, scan'[p].now = scan[p].now,
         NEW j \in config, Covered(p, j)
  PROVE  Covered(p, j)'
<1>1. DataOK /\ DataOK'
  BY Zenon, NextType DEF IndInv, TypeOK
<1>2. j \in Jobs /\ j \in Known'
  BY SMTT(30), <1>1, RecordsGrow DEF DataOK, Known
<1>3. last_runs[j] <= last_runs'[j] /\ missed_handled[j] <= missed_handled'[j]
  BY SMTT(30), <1>2, RecordsGrow
<1> DEFINE o == PrevIn(Occ[j], scan[p].now)
<1>4. o \in Nat
  <2>1. scan[p].now \in Nat
    BY SMTT(30), <1>1 DEF DataOK, ScanState
  <2> QED BY Zenon, <1>2, <2>1, PrevInType
<1>5. /\ last_runs[j] \in Nat /\ missed_handled[j] \in Nat
      /\ last_runs'[j] \in Nat /\ missed_handled'[j] \in Nat
  BY SMTT(30), <1>1, <1>2 DEF DataOK
<1>6. o <= last_runs[j] \/ o <= missed_handled[j]
  BY Zenon DEF Covered
<1> HIDE DEF o
<1>7. o <= last_runs'[j] \/ o <= missed_handled'[j]
  BY SMTT(30), <1>3, <1>4, <1>5, <1>6
<1> QED BY Zenon, <1>7 DEF Covered, o

\* Only a start brings the process up.
LEMMA UpBefore ==
  ASSUME IndInv, [Next]_vars, Up', ~Boot
  PROVE  Up
<1> USE DEF memory, flags, loop, db
<1>1. ~Die
  BY Zenon DEF Die, Up
<1>2. CASE StopServer \/ Joins
  BY Zenon, <1>2 DEF StopServer, Joins, Stop, JoinLoop, JoinWorkers, Up
<1>3. CASE Tick \/ NotifyWake \/ Halted \/ UNCHANGED vars \/ LoopTop \/ LoopExit \/ Dispatch
           \/ LaunchedAll \/ LoopSnapshot \/ LoopPublish
  <2>1. UNCHANGED phase
    BY ZenonT(60), <1>3 DEF Tick, NotifyWake, Halted, vars, LoopTop, LoopExit, Dispatch,
       LaunchedAll, LoopSnapshot, LoopPublish, LoopFrame
  <2> QED BY Zenon, <2>1 DEF Up
<1>4. ASSUME NEW j \in Jobs, Launch(j) PROVE Up
  BY Zenon, <1>1, <1>4 DEF Launch, Up
<1>5. ASSUME NEW p \in Scanners, ScanStep(p) PROVE Up
  <2>1. CASE ScanEnd(p)
    BY SMTT(30), <2>1 DEF ScanEnd, IndInv, ThreadsInv, Up
  <2>2. CASE ~ScanEnd(p)
    BY ZenonT(30), <1>5, <2>2 DEF ScanStep, ScanBegin, ScanRead, ScanMark, ScanAlert,
       ScanEnqueue, Up
  <2> QED BY Zenon, <2>1, <2>2
<1>6. ASSUME NEW t \in Tasks, WorkerStep(t) PROVE Up
  BY ZenonT(30), <1>6 DEF WorkerStep, WorkerCheck, CommandEnds, WorkerPersist,
     WorkerRecord, WorkerReport, WorkerFinish, WorkerFrame, Up
<1>7. ASSUME NEW a \in Apis, ApiCall(a) \/ ApiStep(a) PROVE Up
  BY Zenon, <1>7, ApiRuns DEF Up
<1> QED BY ZenonT(30), <1>1, <1>2, <1>3, <1>4, <1>5, <1>6, <1>7 DEF Next, Crash, LoopStep

\* Only its own thread moves a scan, but for its start and the end of the process.
LEMMA ScanMoves ==
  ASSUME IndInv, [Next]_vars, NEW p \in Scanners, Up'
  PROVE  \/ scan'[p] = scan[p] \/ ScanStep(p)
         \/ scan[p].pc = "idle" /\ scan'[p].pc = "begin"
<1> USE DEF memory, flags, loop, db
<1>0. DataOK /\ ThreadsInv
  BY Zenon DEF IndInv, TypeOK
<1>1. ~Die
  BY Zenon DEF Die, Up
<1>2. CASE Boot
  <2>1. scan["main"].pc = "idle"
    BY Zenon, <1>0, <1>2 DEF Boot, ThreadsInv
  <2>2. scan' = [scan EXCEPT !["main"] = [NoScan EXCEPT !.pc = "begin"]]
    BY Zenon, <1>2 DEF Boot
  <2> QED BY SMTT(30), <1>0, <2>1, <2>2 DEF NoScan, DataOK, Scanners
<1>3. CASE LoopTop
  <2>1. scan["loop"].pc = "idle"
    BY Zenon, <1>0, <1>3 DEF LoopTop, ThreadsInv
  <2>2. scan' = [scan EXCEPT !["loop"] = [NoScan EXCEPT !.pc = "begin"]] \/ scan' = scan
    BY Zenon, <1>3 DEF LoopTop, DetectWake
  <2> QED BY SMTT(30), <1>0, <2>1, <2>2 DEF NoScan, DataOK, Scanners
<1>4. CASE Tick \/ NotifyWake \/ Halted \/ StopServer \/ Joins \/ UNCHANGED vars \/ LoopExit
           \/ Dispatch \/ LaunchedAll \/ LoopSnapshot \/ LoopPublish
  BY ZenonT(60), <1>4 DEF Tick, NotifyWake, Halted, StopServer, Joins, Stop, JoinLoop,
     JoinWorkers, vars, LoopExit, Dispatch, LaunchedAll, LoopSnapshot, LoopPublish, LoopFrame
<1>5. ASSUME NEW j \in Jobs, Launch(j) PROVE scan'[p] = scan[p]
  BY Zenon, <1>1, <1>5 DEF Launch
<1>6. ASSUME NEW q \in Scanners, ScanStep(q), q # p PROVE scan'[p] = scan[p]
  BY ZenonT(30), <1>0, <1>6 DEF ScanStep, ScanBegin, ScanRead, ScanMark, ScanAlert,
     ScanEnqueue, ScanEnd, NextCandidate, DataOK
<1>7. ASSUME NEW t \in Tasks, WorkerStep(t) PROVE scan'[p] = scan[p]
  BY ZenonT(30), <1>7 DEF WorkerStep, WorkerCheck, CommandEnds, WorkerPersist,
     WorkerRecord, WorkerReport, WorkerFinish, WorkerFrame
<1>8. ASSUME NEW a \in Apis, ApiCall(a) \/ ApiStep(a) PROVE scan'[p] = scan[p]
  BY Zenon, <1>8, ApiRuns
<1> QED BY ZenonT(30), <1>1, <1>2, <1>3, <1>4, <1>5, <1>6, <1>7, <1>8
        DEF Next, Crash, LoopStep

\* What a step of scan p does to its locals.
LEMMA ScanLocals ==
  ASSUME DataOK, NEW p \in Scanners, ScanStep(p), ~ScanEnd(p)
  PROVE  /\ scan'[p].pc # "idle"
         /\ ScanMark(p) \/ ScanAlert(p) \/ ScanEnqueue(p) =>
              scan'[p].cands = scan[p].cands /\ scan'[p].now = scan[p].now
<1>0. scan[p] \in ScanState /\ scan \in [Scanners -> ScanState]
  BY Zenon DEF DataOK
<1>1. CASE ScanBegin(p)
  <2>1. scan'[p].pc = "read" /\ scan[p].pc = "begin"
    BY SMTT(30), <1>0, <1>1 DEF ScanBegin, NoScan
  <2> QED BY <2>1, Zenon DEF ScanMark, ScanAlert, ScanEnqueue
<1>2. CASE ScanRead(p)
  <2>1. scan'[p].pc \in {"read", "mark"} /\ scan[p].pc = "read"
    BY SMTT(30), <1>0, <1>2 DEF ScanRead, ScanState
  <2> QED BY <2>1, Zenon DEF ScanMark, ScanAlert, ScanEnqueue
<1>3. CASE ScanMark(p) \/ ScanAlert(p) \/ ScanEnqueue(p)
  <2>1. \/ scan'[p] = [scan[p] EXCEPT !.pc = "read", !.job = NoJob, !.missed = 0]
        \/ scan'[p] = [scan[p] EXCEPT !.pc = "alert"]
        \/ scan'[p] = [scan[p] EXCEPT !.pc = "enqueue"]
    BY ZenonT(30), <1>0, <1>3 DEF ScanMark, ScanAlert, ScanEnqueue, NextCandidate
  <2>2. /\ scan'[p].pc \in {"read", "alert", "enqueue"}
        /\ scan'[p].cands = scan[p].cands /\ scan'[p].now = scan[p].now
    <3>1. CASE scan'[p] = [scan[p] EXCEPT !.pc = "read", !.job = NoJob, !.missed = 0]
      BY SMTT(30), <1>0, <3>1 DEF ScanState
    <3>2. CASE scan'[p] = [scan[p] EXCEPT !.pc = "alert"]
      BY SMTT(30), <1>0, <3>2 DEF ScanState
    <3>3. CASE scan'[p] = [scan[p] EXCEPT !.pc = "enqueue"]
      BY SMTT(30), <1>0, <3>3 DEF ScanState
    <3> QED BY Zenon, <2>1, <3>1, <3>2, <3>3
  <2> QED BY Zenon, <2>2
<1> QED BY <1>1, <1>2, <1>3, Zenon DEF ScanStep
==============================================================================

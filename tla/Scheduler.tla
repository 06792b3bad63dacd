------------------------------ MODULE Scheduler ------------------------------
(***************************************************************************)
(* The job scheduler of the daemon: daemon/src/jobs/scheduler.{hpp,cpp},   *)
(* with the part of main.cpp that starts and stops it and the part of the  *)
(* database it owns (tables job_defs and runs).                            *)
(*                                                                         *)
(* The threads are main, the loop thread, one worker thread per execution, *)
(* the callers of add_job / remove_job / request_run (Apis; the daemon has *)
(* one, the accept thread of the socket server) and the power monitor.     *)
(* One action is one critical section of mutex_ or db_mutex_, with the     *)
(* thread-local code around it: no critical section contains another one,  *)
(* so this is every interleaving the code can produce.                     *)
(*                                                                         *)
(* A job is its name.  What add_job or config.yaml say about it (schedule, *)
(* missed-run policy, retries) is a constant function of the name.  Time 0 *)
(* stands for an absent map entry, as it does in the code.                 *)
(***************************************************************************)
EXTENDS Occurrences, FiniteSets

CONSTANTS
  Jobs,        \* job names
  Configs,     \* the sets of jobs that config.yaml may define at a start
  Occ,         \* Occ[j]: the times job j's cron schedule matches ({}: none)
  Recover,     \* the jobs whose missed-run policy is not None
  Retries,     \* Retries[j]: Job::retries
  Apis,        \* threads that call add_job, remove_job and request_run
  Ops,         \* the calls they make, a subset of {"run", "add", "remove"}
  Tasks,       \* identities of RunningTask objects
  NoTask, NoJob,
  KWakeGap,    \* kWakeGapSeconds
  MaxTime, MaxStarts, MaxQueue   \* bounds of the model, in the guards

ASSUME SchedulerAssumption ==
  /\ NoTask \notin Tasks /\ NoJob \notin Jobs
  /\ Configs \subseteq SUBSET Jobs
  /\ Occ \in [Jobs -> SUBSET (Nat \ {0})]
  /\ Recover \subseteq Jobs
  /\ Retries \in [Jobs -> Int]
  /\ Ops \subseteq {"run", "add", "remove"}
  /\ KWakeGap \in Nat /\ MaxTime \in Nat /\ MaxStarts \in Nat /\ MaxQueue \in Nat

VARIABLES
  clock,           \* now_unix()
  starts,          \* how often the process has been started
  phase,           \* where the main thread is ("down": no process)
  config, ui,      \* jobs_: names with source "config" and source "ui"
  next_run, last_runs, missed_handled,    \* the maps of that name; 0: absent
  queue,           \* queue_, as the number of entries of each job
  running,         \* running_; NoTask: absent
  active, last_wall, wake_pending,
  loop_pc, to_launch, loop_snap,          \* the loop thread and its locals
  scan,            \* scan_missed() as run by main and by the loop thread
  task,            \* RunningTask and the worker thread behind it
  joining,         \* stop(): the tasks moved out of running_
  api,             \* the callers and their locals
  published,       \* SharedState::jobs_
  db_defs, db_last,   \* tables job_defs and runs (latest started_at per job)
  acked            \* history: the last call on a job that returned success

memory == <<config, ui, next_run, last_runs, missed_handled, queue, running>>
flags  == <<active, last_wall, wake_pending>>
loop   == <<loop_pc, to_launch, loop_snap>>
db     == <<db_defs, db_last>>
vars   == <<clock, starts, phase, memory, flags, loop, scan, task, joining,
            api, published, db, acked>>
-----------------------------------------------------------------------------
Scanners == {"main", "loop"}
Phases   == {"down", "boot_scan", "serve", "stop_server", "join_loop",
             "join_workers", "exited"}
LoopPcs  == {"none", "top", "scan", "dispatch", "launch", "snapshot",
             "publish", "exited"}
ScanPcs  == {"idle", "begin", "read", "mark", "alert", "enqueue"}
TaskPcs  == {"free", "check", "command", "persist", "record", "report",
             "finish", "done"}
ApiPcs   == {"idle", "enqueue", "upsert", "push", "delete", "erase",
             "snapshot", "publish"}

Statuses  == [Jobs -> {"absent", "idle", "running"}]
ScanState == [pc : ScanPcs, now : Nat, cands : SUBSET Jobs,
              job : Jobs \cup {NoJob}, missed : Nat]
TaskState == [pc : TaskPcs, job : Jobs \cup {NoJob}, attempt : Nat,
              started : Nat, status : {"success", "failure"},
              alerted : BOOLEAN]
ApiState  == [pc : ApiPcs, op : Ops \cup {"none"}, job : Jobs \cup {NoJob},
              snap : Statuses]

NoStatus == [j \in Jobs |-> "absent"]
NoScan   == [pc |-> "idle", now |-> 0, cands |-> {}, job |-> NoJob, missed |-> 0]
\* RunningTask and the RunResult of worker(), which is SpawnError at first.
FreeTask == [pc |-> "free", job |-> NoJob, attempt |-> 0, started |-> 0,
             status |-> "failure", alerted |-> FALSE]

IdleApi  == [pc |-> "idle", op |-> "none", job |-> NoJob, snap |-> NoStatus]
Zero     == [j \in Jobs |-> 0]

\* find_job(name) != nullptr
Known == config \cup ui

\* The process is up.
Up == phase \notin {"down", "exited"}
-----------------------------------------------------------------------------
(* The cron schedule as the scheduler uses it.                             *)

\* Mutants: the first occurrence is skipped; an occurrence follows itself.
NextAfterLate(j, t) == NextIn(Occ[j], t + 1)
NextAfterSame(j, t) == NextIn(Occ[j], t - 1)
\* CronSchedule::next_after and detect_missed_run (0: nullopt).
NextAfter(j, t) == NextIn(Occ[j], t)
DetectMissed(j, last, now) == MissedIn(Occ[j], last, now)

\* loop(): the lambda is_running.
IsRunning(j) == running[j] # NoTask /\ task[running[j]].pc # "done"

\* Mutant: publish_status leaves out the jobs added at run time.
SnapshotOfConfig == [j \in Jobs |-> IF j \notin config THEN "absent"
                                    ELSE IF IsRunning(j) THEN "running" ELSE "idle"]
\* publish_status: the statuses collected under mutex_.
Snapshot == [j \in Jobs |-> IF j \notin Known THEN "absent"
                            ELSE IF IsRunning(j) THEN "running" ELSE "idle"]

Init ==
  /\ clock = 1 /\ starts = 0 /\ phase = "down"
  /\ config = {} /\ ui = {}
  /\ next_run = Zero /\ last_runs = Zero /\ missed_handled = Zero
  /\ queue = Zero /\ running = [j \in Jobs |-> NoTask]
  /\ active = FALSE /\ last_wall = 0 /\ wake_pending = FALSE
  /\ loop_pc = "none" /\ to_launch = Zero /\ loop_snap = NoStatus
  /\ scan = [p \in Scanners |-> NoScan]
  /\ task = [t \in Tasks |-> FreeTask] /\ joining = {}
  /\ api = [a \in Apis |-> IdleApi]
  /\ published = NoStatus
  /\ db_defs = {} /\ db_last = Zero
  /\ acked = [j \in Jobs |-> "none"]
-----------------------------------------------------------------------------
(* The process: main.cpp.                                                  *)

\* The wall clock; it also runs while the machine sleeps and the daemon is down.
Tick ==
  /\ clock < MaxTime
  /\ clock' = clock + 1
  /\ UNCHANGED <<starts, phase, memory, flags, loop, scan, task, joining, api,
                 published, db, acked>>

\* last_run: ORDER BY started_at DESC LIMIT 1 (0: no row).
LastRun(j) == db_last[j]

\* The constructor and start() up to its call of scan_missed(): nothing else
\* of the process runs yet.  UI jobs whose name config.yaml took are shadowed.
Boot ==
  /\ phase \in {"down", "exited"}
  /\ starts < MaxStarts
  /\ starts' = starts + 1
  /\ phase' = "boot_scan"
  /\ \E c \in Configs :
       LET all == c \cup db_defs IN
       /\ config' = c
       /\ ui' = db_defs \ c
       /\ next_run' = [j \in Jobs |-> IF j \in all THEN NextAfter(j, clock) ELSE 0]
       /\ last_runs' = [j \in Jobs |-> IF j \in all THEN LastRun(j) ELSE 0]
       /\ published' = [j \in Jobs |-> IF j \in all THEN "idle" ELSE "absent"]
  /\ missed_handled' = Zero /\ queue' = Zero
  /\ running' = [j \in Jobs |-> NoTask]
  /\ active' = TRUE /\ last_wall' = clock /\ wake_pending' = FALSE
  /\ loop_pc' = "top" /\ to_launch' = Zero /\ loop_snap' = NoStatus
  /\ scan' = [scan EXCEPT !["main"] = [NoScan EXCEPT !.pc = "begin"]]
  /\ task' = [t \in Tasks |-> FreeTask] /\ joining' = {}
  /\ UNCHANGED <<clock, api, db, acked>>

\* Thread a is in add_job or remove_job.
Changing(a) == api[a].op \in {"add", "remove"}

\* The process is gone with all its memory; a call that was under way got no
\* reply.
Die ==
  /\ phase' = "down"
  /\ config' = {} /\ ui' = {}
  /\ next_run' = Zero /\ last_runs' = Zero /\ missed_handled' = Zero
  /\ queue' = Zero /\ running' = [j \in Jobs |-> NoTask]
  /\ active' = FALSE /\ last_wall' = 0 /\ wake_pending' = FALSE
  /\ loop_pc' = "none" /\ to_launch' = Zero /\ loop_snap' = NoStatus
  /\ scan' = [p \in Scanners |-> NoScan]
  /\ task' = [t \in Tasks |-> FreeTask] /\ joining' = {}
  /\ api' = [a \in Apis |-> IdleApi]
  /\ published' = NoStatus
  /\ acked' = [j \in Jobs |-> IF \E a \in Apis : Changing(a) /\ api[a].job = j
                              THEN "unknown" ELSE acked[j]]
  /\ UNCHANGED <<clock, starts, db>>

\* A crash or a kill.
Crash == Up /\ starts < MaxStarts /\ Die

\* SIGTERM: main leaves sampler_loop; server.stop() lets the call under way end.
StopServer ==
  /\ phase = "serve"
  /\ phase' = "stop_server"
  /\ UNCHANGED <<clock, starts, memory, flags, loop, scan, task, joining, api,
                 published, db, acked>>

\* Mutant: active_ is left set.
StopUnflagged ==
  /\ phase = "stop_server"
  /\ \A a \in Apis : api[a].pc = "idle"
  /\ phase' = "join_loop"
  /\ UNCHANGED <<clock, starts, memory, flags, loop, scan, task, joining, api,
                 published, db, acked>>
\* stop(), first statement.
Stop ==
  /\ phase = "stop_server"
  /\ \A a \in Apis : api[a].pc = "idle"
  /\ phase' = "join_loop"
  /\ active' = FALSE
  /\ UNCHANGED <<clock, starts, memory, last_wall, wake_pending, loop, scan,
                 task, joining, api, published, db, acked>>

\* stop(): the loop thread is joined and running_ is moved out.
JoinLoop ==
  /\ phase = "join_loop"
  /\ loop_pc = "exited"
  /\ phase' = "join_workers"
  /\ joining' = {running[j] : j \in {k \in Jobs : running[k] # NoTask}}
  /\ running' = [j \in Jobs |-> NoTask]
  /\ UNCHANGED <<clock, starts, config, ui, next_run, last_runs, missed_handled,
                 queue, flags, loop, scan, task, api, published, db, acked>>

\* Mutant: the tasks still in a command are left alone.
JoinedButCommands == \A t \in joining : task[t].pc \in {"command", "done"}
\* stop(): every thread.join() has returned.
Joined == \A t \in joining : task[t].pc = "done"

\* stop() and main return.
JoinWorkers ==
  /\ phase = "join_workers"
  /\ Joined
  /\ phase' = "exited"
  /\ UNCHANGED <<clock, starts, memory, flags, loop, scan, task, joining, api,
                 published, db, acked>>

\* The power monitor's callback; it is registered after the server is up.
\* MaxQueue bounds how much a series of removals, adds and wakes can queue.
NotifyWake ==
  /\ phase = "serve"
  /\ \A j \in Jobs : queue[j] <= MaxQueue
  /\ wake_pending' = TRUE
  /\ UNCHANGED <<clock, starts, phase, memory, active, last_wall, loop, scan,
                 task, joining, api, published, db, acked>>
-----------------------------------------------------------------------------
(* scan_missed(), run by main in start() and by the loop thread on wake.   *)

ScanFrame == UNCHANGED <<clock, starts, config, ui, next_run, last_runs, running,
                         flags, to_launch, loop_snap, task, joining, api,
                         published, db, acked>>

\* The candidates are copied under mutex_.
ScanBegin(p) ==
  /\ scan[p].pc = "begin"
  /\ scan' = [scan EXCEPT ![p] =
       [NoScan EXCEPT !.pc = "read", !.now = clock,
                      !.cands = {j \in Known \cap Recover : Occ[j] # {}}]]
  /\ UNCHANGED <<phase, missed_handled, queue, loop_pc>> /\ ScanFrame

\* last_runs_ is read for the next candidate; detect_missed_run.
ScanRead(p) ==
  /\ scan[p].pc = "read"
  /\ \E j \in scan[p].cands :
       LET missed == DetectMissed(j, last_runs[j], scan[p].now)
           rest   == scan[p].cands \ {j}
       IN  scan' = [scan EXCEPT ![p] =
             IF missed = 0
             THEN [scan[p] EXCEPT !.cands = rest]
             ELSE [scan[p] EXCEPT !.cands = rest, !.pc = "mark",
                                  !.job = j, !.missed = missed]]
  /\ UNCHANGED <<phase, missed_handled, queue, loop_pc>> /\ ScanFrame

NextCandidate(p) == [scan EXCEPT ![p] =
  [scan[p] EXCEPT !.pc = "read", !.job = NoJob, !.missed = 0]]

\* Mutant: an earlier occurrence handled counts for this one.
HandledEver(j, missed) == missed_handled[j] # 0
\* Mutant: the occurrence just handled passes again.
HandledBefore(j, missed) == missed_handled[j] > missed
\* "already queued this occurrence"
Handled(j, missed) == missed_handled[j] >= missed

\* missed_handled_ is tested and set under one hold of mutex_.
ScanMark(p) ==
  LET j == scan[p].job IN
  /\ scan[p].pc = "mark"
  /\ \/ /\ Handled(j, scan[p].missed)
        /\ scan' = NextCandidate(p)
        /\ UNCHANGED missed_handled
     \/ /\ ~Handled(j, scan[p].missed)
        /\ missed_handled' = [missed_handled EXCEPT ![j] = scan[p].missed]
        /\ scan' = [scan EXCEPT ![p].pc = "alert"]
  /\ UNCHANGED <<phase, queue, loop_pc>> /\ ScanFrame

\* emit_alert(..., "warning", ...), which waits for the notifier.
ScanAlert(p) ==
  /\ scan[p].pc = "alert"
  /\ scan' = [scan EXCEPT ![p].pc = "enqueue"]
  /\ UNCHANGED <<phase, missed_handled, queue, loop_pc>> /\ ScanFrame

\* enqueue(job.name, "missed")
ScanEnqueue(p) ==
  /\ scan[p].pc = "enqueue"
  /\ queue' = [queue EXCEPT ![scan[p].job] = @ + 1]
  /\ scan' = NextCandidate(p)
  /\ UNCHANGED <<phase, missed_handled, loop_pc>> /\ ScanFrame

\* scan_missed returns: main goes on to start the server, the loop to dispatch.
ScanEnd(p) ==
  /\ scan[p].pc = "read"
  /\ scan[p].cands = {}
  /\ scan' = [scan EXCEPT ![p] = NoScan]
  /\ phase' = IF p = "main" THEN "serve" ELSE phase
  /\ loop_pc' = IF p = "loop" THEN "dispatch" ELSE loop_pc
  /\ UNCHANGED <<missed_handled, queue>> /\ ScanFrame

ScanStep(p) == \/ ScanBegin(p) \/ ScanRead(p) \/ ScanMark(p)
               \/ ScanAlert(p) \/ ScanEnqueue(p) \/ ScanEnd(p)
-----------------------------------------------------------------------------
(* loop(), on the loop thread.                                             *)

\* reap_finished: tasks that are done leave running_ and are joined.
Finished == {j \in Jobs : running[j] # NoTask /\ task[running[j]].pc = "done"}
\* Mutant: the entry of a removed job is dropped while its worker runs.
ReapRemoved ==
  /\ running' = [j \in Jobs |-> IF j \in Finished \/ j \notin Known
                                THEN NoTask ELSE running[j]]
  /\ task' = [t \in Tasks |-> IF t \in {running[j] : j \in Finished}
                              THEN FreeTask ELSE task[t]]
ReapFinished ==
  /\ running' = [j \in Jobs |-> IF j \in Finished THEN NoTask ELSE running[j]]
  /\ task' = [t \in Tasks |-> IF t \in {running[j] : j \in Finished}
                              THEN FreeTask ELSE task[t]]

\* A gap in the wall clock leaves wake_pending_ set (short-circuit of ||).
DetectWake ==
  LET gap == clock - last_wall > KWakeGap IN
  /\ last_wall' = clock
  /\ wake_pending' = (gap /\ wake_pending)
  /\ \/ /\ gap \/ wake_pending
        /\ loop_pc' = "scan"
        /\ scan' = [scan EXCEPT !["loop"] = [NoScan EXCEPT !.pc = "begin"]]
     \/ /\ ~gap /\ ~wake_pending
        /\ loop_pc' = "dispatch"
        /\ UNCHANGED scan

LoopTop ==
  /\ loop_pc = "top"
  /\ active
  /\ ReapFinished
  /\ DetectWake
  /\ UNCHANGED <<clock, starts, phase, config, ui, next_run, last_runs,
                 missed_handled, queue, active, to_launch, loop_snap, joining,
                 api, published, db, acked>>

LoopExit ==
  /\ loop_pc = "top"
  /\ ~active
  /\ loop_pc' = "exited"
  /\ UNCHANGED <<clock, starts, phase, memory, flags, to_launch, loop_snap,
                 scan, task, joining, api, published, db, acked>>

Due(j) == j \in Known /\ next_run[j] # 0 /\ next_run[j] <= last_wall

\* Mutant: requests for a running job are lost.
NoDeferred == Zero
\* The entries of queue_ that wait for the run under way.
Deferred == [j \in Jobs |-> IF j \in Known /\ IsRunning(j) THEN queue[j] ELSE 0]

\* The locked section of a tick: an entry of queue_ is dropped if its job is
\* gone, deferred if it runs, launched otherwise; then the due jobs.
Dispatch ==
  /\ loop_pc = "dispatch"
  /\ queue' = Deferred
  /\ to_launch' = [j \in Jobs |->
       IF j \in Known /\ ~IsRunning(j)
       THEN queue[j] + (IF Due(j) THEN 1 ELSE 0)
       ELSE 0]
  /\ next_run' = [j \in Jobs |->
       IF Due(j) THEN NextAfter(j, last_wall) ELSE next_run[j]]
  /\ loop_pc' = "launch"
  /\ UNCHANGED <<clock, starts, phase, config, ui, last_runs, missed_handled,
                 running, flags, loop_snap, scan, task, joining, api, published,
                 db, acked>>

\* launch(): assigning to an entry of running_ that holds a task destroys a
\* joinable std::thread, which is std::terminate.
Launch(j) ==
  /\ loop_pc = "launch"
  /\ to_launch[j] > 0
  /\ \/ running[j] # NoTask /\ Die
     \/ /\ running[j] = NoTask
        /\ \E t \in Tasks :
             /\ task[t].pc = "free"
             /\ running' = [running EXCEPT ![j] = t]
             /\ task' = [task EXCEPT ![t] =
                  [FreeTask EXCEPT !.pc = "check", !.job = j, !.attempt = 1]]
        /\ to_launch' = [to_launch EXCEPT ![j] = @ - 1]
        /\ UNCHANGED <<clock, starts, phase, config, ui, next_run, last_runs,
                       missed_handled, queue, flags, loop_pc, loop_snap, scan,
                       joining, api, published, db, acked>>

LoopFrame == UNCHANGED <<clock, starts, phase, memory, flags, to_launch, scan,
                         task, joining, api, db, acked>>

LaunchedAll ==
  /\ loop_pc = "launch"
  /\ to_launch = Zero
  /\ loop_pc' = "snapshot"
  /\ UNCHANGED <<loop_snap, published>> /\ LoopFrame

\* publish_status builds the statuses under mutex_ ...
LoopSnapshot ==
  /\ loop_pc = "snapshot"
  /\ loop_pc' = "publish"
  /\ loop_snap' = Snapshot
  /\ UNCHANGED published /\ LoopFrame

\* ... and hands them to SharedState after releasing it.
LoopPublish ==
  /\ loop_pc = "publish"
  /\ loop_pc' = "top"
  /\ published' = loop_snap
  /\ loop_snap' = NoStatus
  /\ LoopFrame

LoopStep == \/ LoopTop \/ LoopExit \/ Dispatch \/ LaunchedAll
            \/ LoopSnapshot \/ LoopPublish \/ \E j \in Jobs : Launch(j)
-----------------------------------------------------------------------------
(* worker(), on the thread of task t.                                      *)

WorkerFrame == UNCHANGED <<clock, starts, phase, config, ui, next_run,
                           missed_handled, queue, running, flags, loop, scan,
                           joining, api, published, db_defs, acked>>

\* The head of the retry loop.  With no attempts at all (negative retries)
\* the default-constructed result stands, which is not a success.
WorkerCheck(t) ==
  /\ task[t].pc = "check"
  /\ task' = [task EXCEPT ![t] =
       IF task[t].attempt <= Retries[task[t].job] + 1 /\ active
       THEN [task[t] EXCEPT !.pc = "command", !.started = clock]
       ELSE [task[t] EXCEPT !.pc = "report"]]
  /\ UNCHANGED <<last_runs, db_last>> /\ WorkerFrame

\* run_command returns (see ProcessRunner).
CommandEnds(t) ==
  /\ task[t].pc = "command"
  /\ \E s \in {"success", "failure"} :
       task' = [task EXCEPT ![t] = [task[t] EXCEPT !.pc = "persist", !.status = s]]
  /\ UNCHANGED <<last_runs, db_last>> /\ WorkerFrame

\* insert_run; of the rows of a job only the one last_run returns is kept.
InsertRun(j, ts) == db_last' = [db_last EXCEPT ![j] = Latest({@, ts})]

\* insert_run under db_mutex_; a DbError is only logged.
WorkerPersist(t) ==
  /\ task[t].pc = "persist"
  /\ task' = [task EXCEPT ![t].pc = "record"]
  /\ InsertRun(task[t].job, task[t].started) \/ UNCHANGED db_last
  /\ UNCHANGED last_runs /\ WorkerFrame

\* last_runs_[job.name] = rec under mutex_; then break, or back off and retry.
WorkerRecord(t) ==
  /\ task[t].pc = "record"
  /\ last_runs' = [last_runs EXCEPT ![task[t].job] = task[t].started]
  /\ task' = [task EXCEPT ![t] =
       IF task[t].status = "success"
       THEN [task[t] EXCEPT !.pc = "report"]
       ELSE [task[t] EXCEPT !.pc = "check", !.attempt = @ + 1]]
  /\ UNCHANGED db_last /\ WorkerFrame

\* Mutant: judged by the number of attempts.
FailedByCount(t) == active /\ task[t].attempt > Retries[task[t].job]
\* The final attempt failed and we are not shutting down.
Failed(t) == active /\ task[t].status # "success"

\* emit_alert(..., "serious", ...), which waits for the notifier.
WorkerReport(t) ==
  /\ task[t].pc = "report"
  /\ task' = [task EXCEPT ![t] = [task[t] EXCEPT !.pc = "finish", !.alerted = Failed(t)]]
  /\ UNCHANGED <<last_runs, db_last>> /\ WorkerFrame

\* task->done.store(true), the last statement.
WorkerFinish(t) ==
  /\ task[t].pc = "finish"
  /\ task' = [task EXCEPT ![t].pc = "done"]
  /\ UNCHANGED <<last_runs, db_last>> /\ WorkerFrame

WorkerStep(t) == \/ WorkerCheck(t) \/ CommandEnds(t) \/ WorkerPersist(t)
                 \/ WorkerRecord(t) \/ WorkerReport(t) \/ WorkerFinish(t)
-----------------------------------------------------------------------------
(* The calls of the query API, on thread a.  A call that its first check   *)
(* rejects changes nothing and is not a step.                              *)

ApiFrame == UNCHANGED <<clock, starts, phase, config, running, flags, loop, scan,
                        task, joining, db_last>>
Goto(a, pc) == api' = [api EXCEPT ![a].pc = pc]
Accept(a, op, j, pc) ==
  /\ phase = "serve" /\ api[a].pc = "idle" /\ op \in Ops
  /\ api' = [api EXCEPT ![a] = [IdleApi EXCEPT !.pc = pc, !.op = op, !.job = j]]
  /\ UNCHANGED <<ui, next_run, last_runs, missed_handled, queue, published,
                 db_defs, acked>> /\ ApiFrame

\* request_run: find_job under one hold of mutex_, enqueue under the next.
RunCheck(a, j) == j \in Known /\ queue[j] < MaxQueue /\ Accept(a, "run", j, "enqueue")

RunEnqueue(a) ==
  /\ api[a].pc = "enqueue"
  /\ queue' = [queue EXCEPT ![api[a].job] = @ + 1]
  /\ api' = [api EXCEPT ![a] = IdleApi]
  /\ UNCHANGED <<ui, next_run, last_runs, missed_handled, published, db_defs,
                 acked>> /\ ApiFrame

\* add_job: the duplicate check, ...
AddCheck(a, j) == j \notin Known /\ Accept(a, "add", j, "upsert")

\* Mutant: a DbError is swallowed.
AddUpsertUnchecked(a) ==
  /\ api[a].pc = "upsert"
  /\ \/ db_defs' = db_defs \cup {api[a].job} /\ Goto(a, "push")
     \/ db_defs' = db_defs /\ Goto(a, "push")
  /\ UNCHANGED <<ui, next_run, last_runs, missed_handled, queue, published,
                 acked>> /\ ApiFrame
\* ... upsert_job_def (a DbError is returned to the caller), ...
AddUpsert(a) ==
  /\ api[a].pc = "upsert"
  /\ \/ db_defs' = db_defs \cup {api[a].job} /\ Goto(a, "push")
     \/ db_defs' = db_defs /\ api' = [api EXCEPT ![a] = IdleApi]
  /\ UNCHANGED <<ui, next_run, last_runs, missed_handled, queue, published,
                 acked>> /\ ApiFrame

\* ... and jobs_.push_back with the first next_run_.
AddPush(a) ==
  LET j == api[a].job IN
  /\ api[a].pc = "push"
  /\ ui' = ui \cup {j}
  /\ next_run' = [next_run EXCEPT ![j] =
                    IF NextAfter(j, clock) # 0 THEN NextAfter(j, clock) ELSE @]
  /\ Goto(a, "snapshot")
  /\ UNCHANGED <<last_runs, missed_handled, queue, published, db_defs, acked>>
  /\ ApiFrame

\* Mutant: a job of config.yaml passes too.
RemoveAny(a, j) == j \in Known /\ Accept(a, "remove", j, "delete")
\* remove_job: only UI jobs, ...
RemoveCheck(a, j) == j \in ui /\ Accept(a, "remove", j, "delete")

\* ... delete_job_def (a DbError is returned to the caller), ...
RemoveDelete(a) ==
  /\ api[a].pc = "delete"
  /\ \/ db_defs' = db_defs \ {api[a].job} /\ Goto(a, "erase")
     \/ db_defs' = db_defs /\ api' = [api EXCEPT ![a] = IdleApi]
  /\ UNCHANGED <<ui, next_run, last_runs, missed_handled, queue, published,
                 acked>> /\ ApiFrame

\* ... and the job leaves jobs_ and three of the maps, not queue_ or running_.
RemoveErase(a) ==
  LET j == api[a].job IN
  /\ api[a].pc = "erase"
  /\ ui' = ui \ {j}
  /\ next_run' = [next_run EXCEPT ![j] = 0]
  /\ last_runs' = [last_runs EXCEPT ![j] = 0]
  /\ missed_handled' = [missed_handled EXCEPT ![j] = 0]
  /\ Goto(a, "snapshot")
  /\ UNCHANGED <<queue, published, db_defs, acked>> /\ ApiFrame

\* publish_status at the end of add_job and remove_job, in its two halves;
\* then the call returns success.
ApiSnapshot(a) ==
  /\ api[a].pc = "snapshot"
  /\ api' = [api EXCEPT ![a].pc = "publish", ![a].snap = Snapshot]
  /\ UNCHANGED <<ui, next_run, last_runs, missed_handled, queue, published,
                 db_defs, acked>> /\ ApiFrame

ApiPublish(a) ==
  /\ api[a].pc = "publish"
  /\ published' = api[a].snap
  /\ acked' = [acked EXCEPT ![api[a].job] =
                 IF api[a].op = "add" THEN "added" ELSE "removed"]
  /\ api' = [api EXCEPT ![a] = IdleApi]
  /\ UNCHANGED <<ui, next_run, last_runs, missed_handled, queue, db_defs>>
  /\ ApiFrame

ApiStep(a) == \/ RunEnqueue(a) \/ AddUpsert(a) \/ AddPush(a) \/ RemoveDelete(a)
              \/ RemoveErase(a) \/ ApiSnapshot(a) \/ ApiPublish(a)
ApiCall(a) == \E j \in Jobs : RunCheck(a, j) \/ AddCheck(a, j) \/ RemoveCheck(a, j)
-----------------------------------------------------------------------------
Joins == Stop \/ JoinLoop \/ JoinWorkers

\* The process has ended for good.
Halted == ~Up /\ starts = MaxStarts /\ UNCHANGED vars

Next ==
  \/ Tick \/ Boot \/ Crash \/ StopServer \/ Joins \/ NotifyWake \/ Halted
  \/ LoopStep
  \/ \E p \in Scanners : ScanStep(p)
  \/ \E t \in Tasks : WorkerStep(t)
  \/ \E a \in Apis : ApiCall(a) \/ ApiStep(a)

Spec == Init /\ [][Next]_vars

\* Every thread of the process goes on running, the notifier a worker or a scan
\* waits for ends, and an accepted call is carried through.  A job's command need
\* not end: by default it has no time limit.  The environment (clock, calls,
\* signals, crashes, restarts) owes nothing.
Fairness ==
  /\ WF_vars(LoopStep) /\ WF_vars(Joins)
  /\ \A p \in Scanners : WF_vars(ScanStep(p))
  /\ \A t \in Tasks : WF_vars(task[t].pc # "command" /\ WorkerStep(t))
  /\ \A a \in Apis : WF_vars(ApiStep(a))

FairSpec == Spec /\ Fairness
-----------------------------------------------------------------------------
DataOK ==
  /\ clock \in Nat /\ starts \in Nat /\ phase \in Phases
  /\ config \subseteq Jobs /\ ui \subseteq Jobs
  /\ next_run \in [Jobs -> Nat] /\ last_runs \in [Jobs -> Nat]
  /\ missed_handled \in [Jobs -> Nat] /\ queue \in [Jobs -> Nat]
  /\ running \in [Jobs -> Tasks \cup {NoTask}]
  /\ last_wall \in Nat
  /\ loop_pc \in LoopPcs /\ to_launch \in [Jobs -> Nat] /\ loop_snap \in Statuses
  /\ scan \in [Scanners -> ScanState]
  /\ task \in [Tasks -> TaskState] /\ joining \subseteq Tasks
  /\ api \in [Apis -> ApiState] /\ published \in Statuses
  /\ db_defs \subseteq Jobs /\ db_last \in [Jobs -> Nat]
  /\ acked \in [Jobs -> {"none", "added", "removed", "unknown"}]
FlagsOK == active \in BOOLEAN /\ wake_pending \in BOOLEAN
\* Every variable holds a value of the C++ member or local it stands for.
TypeOK == DataOK /\ FlagsOK

Live(t) == task[t].pc \notin {"free", "done"}

\* "At most one concurrent run per job": no two worker threads of a process
\* execute the same job, whatever is queued, scheduled, removed or added again.
AtMostOneRun ==
  \A t, u \in Tasks : Live(t) /\ Live(u) /\ task[t].job = task[u].job => t = u

\* No worker thread is forgotten: it is in running_ under the name of its job,
\* where reap_finished and stop() find it, or stop() is already joining it.
WorkersAccounted ==
  \A t \in Tasks : Live(t) => running[task[t].job] = t \/ t \in joining

\* stop() "joins all in-flight worker threads": when main returns, no worker is
\* left, even one launched while the signal arrived.
ExitLeavesNoWorker == phase = "exited" => \A t \in Tasks : ~Live(t)

InCall(j) == \E a \in Apis : api[a].job = j
AckKept(j) ==
  /\ acked[j] = "added" => j \in db_defs /\ (Up => j \in Known)
  /\ acked[j] = "removed" => j \notin db_defs /\ j \notin ui

\* A call that returned success is durable: the job added (removed) is in (out
\* of) job_defs, and in (out of) the job set of every later process, whatever
\* database errors, crashes and restarts came since.
AckDurable == \A j \in Jobs : ~InCall(j) => AckKept(j)

\* The start-up scan and a wake scan that overlap never both claim the same
\* missed occurrence: missed_handled_ lets one of them queue it.
Claiming(p) == scan[p].pc \in {"alert", "enqueue"}
MissClaimedOnce ==
  \A p, q \in Scanners :
    Claiming(p) /\ Claiming(q) /\ scan[p].job = scan[q].job
      /\ scan[p].missed = scan[q].missed => p = q

\* A worker that finished while the daemon was not shutting down has raised a
\* failure alert exactly if its final attempt did not succeed.
FailureAlerted ==
  \A t \in Tasks : task[t].pc = "done" /\ active =>
    (task[t].alerted <=> task[t].status # "success")

\* No future occurrence is skipped: next_run_ of a known job is never beyond
\* the first occurrence still to come, however ticks, sleeps, adds and restarts
\* fall.
UpcomingNotLost ==
  Up => \A j \in Known : \A o \in Occ[j] :
          o > clock => next_run[j] # 0 /\ next_run[j] <= o

\* "Advance to the next occurrence so we don't refire this one": after the
\* locked section of a tick nothing it could fire is still due.
NoRefire ==
  loop_pc \in {"launch", "snapshot", "publish"} =>
    \A j \in Jobs : next_run[j] = 0 \/ next_run[j] > last_wall

\* last_runs_ of a job is never replaced by an earlier run, though each worker
\* writes it from its own copy of the result and one may outlive the removal of
\* its job; only remove_job forgets it.
LastRunNeverBack ==
  [][Up /\ Up' => \A j \in Jobs : last_runs[j] <= last_runs'[j] \/ j \notin Known']_vars

\* As of the start of scan p, job j has run since its latest occurrence, or
\* that occurrence is marked as handled.
Covered(p, j) == LET o == PrevIn(Occ[j], scan[p].now) IN
  o <= last_runs[j] \/ o <= missed_handled[j]

\* scan_missed works on a copy of the jobs and takes mutex_ anew for every one
\* of them; when it returns it has left out none of config.yaml's jobs that have
\* a policy, whatever workers, calls and the other scan did meanwhile.
ScanIsComplete ==
  [][\A p \in Scanners : scan[p].pc # "idle" /\ scan'[p].pc = "idle" /\ Up' =>
       \A j \in config \cap Recover : Covered(p, j)]_vars
-----------------------------------------------------------------------------
(* The inductive invariant behind the properties above.                    *)

\* Which threads can be where at the same time.
ThreadsInv ==
  /\ \A a \in Apis : api[a].pc # "idle" =>
       api[a].job \in Jobs /\ phase \in {"serve", "stop_server"}
  /\ \A p \in Scanners : scan[p].pc \in {"mark", "alert", "enqueue"} => scan[p].job \in Jobs
  /\ scan["main"].pc # "idle" => phase = "boot_scan"
  /\ scan["loop"].pc # "idle" => loop_pc = "scan"
  /\ phase = "down" => loop_pc = "none"
  /\ phase \in {"join_workers", "exited"} => loop_pc = "exited"

\* Every task is in running_ under its own job, or moved out by stop().
TasksInv ==
  /\ \A t \in Tasks : task[t].pc # "free" =>
       task[t].job \in Jobs /\ (running[task[t].job] = t \/ t \in joining)
  /\ \A j \in Jobs : running[j] # NoTask =>
       task[running[j]].job = j /\ task[running[j]].pc # "free"
  /\ phase \in {"join_workers", "exited"} => \A j \in Jobs : running[j] = NoTask
  /\ phase \notin {"join_workers", "exited"} => joining = {}
  /\ \A t, u \in joining : task[t].job = task[u].job => t = u
  /\ phase = "exited" => Joined
  /\ \A t \in Tasks : task[t].pc \in {"finish", "done"} /\ active =>
       (task[t].alerted <=> task[t].status # "success")

\* Times and the job set.
TimesInv ==
  /\ last_wall <= clock
  /\ config \cap ui = {}
  /\ \A j \in Jobs : next_run[j] # 0 => j \in Known
  /\ \A a \in Apis : api[a].pc \in {"upsert", "push", "delete", "erase"} =>
       api[a].job \notin config
  /\ UpcomingNotLost
  /\ NoRefire

\* Claims of missed occurrences while both scanners can be at work.
ClaimsInv ==
  /\ phase = "boot_scan" => \A p \in Scanners :
       Claiming(p) => Handled(scan[p].job, scan[p].missed)
  /\ MissClaimedOnce

\* Runs are recorded in the order they start in.
RunsInv ==
  /\ \A j \in Jobs : last_runs[j] <= clock /\ db_last[j] <= clock
  /\ \A t \in Tasks : task[t].pc \in {"command", "persist", "record"} =>
       task[t].started <= clock /\ last_runs[task[t].job] <= task[t].started

\* A job is still to be looked at, about to be marked, or covered.
ScanInv ==
  \A p \in Scanners : scan[p].pc \notin {"idle", "begin"} =>
    \A j \in config \cap Recover :
      \/ j \in scan[p].cands
      \/ /\ scan[p].pc = "mark" /\ scan[p].job = j
         /\ scan[p].missed = PrevIn(Occ[j], scan[p].now)
      \/ Covered(p, j)

\* A job no call is changing: the last reply is kept, and job_defs has a row for
\* every UI job and only for jobs that are known.
Settled(j) ==
  /\ AckKept(j)
  /\ Up => (j \in ui => j \in db_defs) /\ (j \in db_defs => j \in Known)
AllSettled == \A j \in Jobs : ~InCall(j) => Settled(j)

\* What a call under way has done so far, if there is one caller at a time.
CallsInv ==
  /\ AllSettled
  /\ \A a \in Apis : LET j == api[a].job IN
       /\ api[a].pc = "idle" => api[a] = IdleApi
       /\ api[a].pc = "enqueue" => api[a].op = "run"
       /\ api[a].pc \in {"enqueue", "upsert", "delete"} => Settled(j)
       /\ api[a].pc = "delete" => j \in ui
       /\ api[a].pc \in {"upsert", "push"} => api[a].op = "add" /\ j \notin Known
       /\ api[a].pc \in {"delete", "erase"} => api[a].op = "remove"
       /\ api[a].pc = "push" => j \in db_defs
       /\ api[a].pc = "erase" => j \notin db_defs
       /\ api[a].pc \in {"snapshot", "publish"} =>
            \/ api[a].op = "add" /\ j \in db_defs /\ j \in ui
            \/ api[a].op = "remove" /\ j \notin db_defs /\ j \notin ui

IndInv == TypeOK /\ ThreadsInv /\ TasksInv /\ TimesInv /\ ClaimsInv
-----------------------------------------------------------------------------
(* What the comments promise and the code does not keep.                   *)

\* "At most one concurrent run per job": a tick hands a job to launch() only
\* when running_ has no task of it, so no task is ever overwritten.
LaunchFindsNoTask ==
  loop_pc = "launch" => \A j \in Jobs :
    /\ to_launch[j] <= 1
    /\ to_launch[j] = 1 => running[j] = NoTask

\* "Should have run ... but the job's last run predates it": an occurrence about
\* to be claimed as missed has no run under way that started at or after it.
MissedNotUnderWay ==
  \A p \in Scanners, t \in Tasks :
    /\ scan[p].pc = "mark" /\ ~Handled(scan[p].job, scan[p].missed)
    /\ Live(t) /\ task[t].job = scan[p].job
    => task[t].started < scan[p].missed

\* MissedRunPolicy::None, "ignore missed runs": what a tick fires for such a
\* job is not an occurrence the machine slept through.
NoneIgnoresMissed ==
  loop_pc = "dispatch" => \A j \in Known \ Recover :
    Due(j) => last_wall - next_run[j] <= KWakeGap
-----------------------------------------------------------------------------
\* A queued request is not forgotten: it leads to a new worker for the job, or
\* waits for one that is in its command, unless the job is removed or the process
\* goes away.
QueuedIsRun ==
  \A j \in Jobs :
    active /\ queue[j] > 0 ~>
      \/ ~active \/ j \notin Known
      \/ \E t \in Tasks : /\ task[t].job = j
                          /\ \/ task[t].pc = "check" /\ task[t].attempt = 1
                             \/ task[t].pc = "command"

\* Shutdown ends: main, the loop and the workers do not wait for each other in
\* a circle, so SIGTERM leads to exit (or the process dies first), unless a
\* worker stays in the command of its job, which stop() waits for without a
\* bound of its own.
ShutdownEnds ==
  phase \in {"stop_server", "join_loop", "join_workers"} ~>
    ~Up \/ \E t \in Tasks : task[t].pc = "command"

\* The published job list catches up with the job set although the loop and the
\* callers publish snapshots taken earlier: a job does not stay missing from it.
PublishCatchesUp ==
  \A j \in Jobs : Up /\ j \in Known ~> ~active \/ j \notin Known \/ published[j] # "absent"
==============================================================================

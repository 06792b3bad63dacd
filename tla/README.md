# AgentPulse in TLA+

AgentPulse is a macOS daemon that samples system health, evaluates alert rules
and runs scheduled jobs, with a command-line client and a menu-bar app that
query it over a Unix socket. This directory specifies the daemon, its clients'
connections and the app's alert feed, model-checks them with TLC and proves
their safety properties with TLAPS. `PROJECT.json` maps every definition to the
lines it models and lists runs, mutants, findings, hazards and theorems.

## The system

| Part | State | Operations | Modelled in |
|---|---|---|---|
| Scheduler (`jobs/scheduler.*`) | `jobs_`, `next_run_`, `running_`, `last_runs_`, `missed_handled_`, `queue_`, flags | start, stop, loop tick, missed-run scan, worker, `request_run`, `add_job`, `remove_job`, `notify_wake` | `Scheduler`; its promise on job calls in `JobStore`, what it expects of callers in `SchedulerUse` |
| Process runner (`jobs/process_runner.*`) | pipes, capture, deadline, kill | `run_command` | `ProcessRunner` |
| Alert engine (`alerts/alert_engine.*`) | `RuleState` per rule | `evaluate` | `AlertEngine` |
| Cron (`schedule/cron.*`) | parsed fields | parse, matches, `next_after`, `prev_before` | `Cron`; what the searches mean in `Occurrences` |
| Configuration (`config/*`), `job_defs`, `add_job` requests | file, rows, job list, rules | load, reload, add, remove, restart | `JobDefs` |
| Main (`main.cpp`) | `g_stop`, `g_reload`, the engine | start, sampling, reload, shutdown | `AlertEngine`, `AlertFeed`, `Daemon` |
| Socket server (`ipc/socket_server.*`) | socket, `running_`, a connection | start, accept loop, stop | `Daemon` |
| Sleep monitor (`power/*`) | run loop, thread | start, callback, stop | `Daemon`; what the callback does in `Scheduler` |
| Query API (`ipc/api.*`) | - | commands | `Scheduler` (run), `JobDefs` (add, remove), `AlertFeed` (status) |
| Database (`db.*`) | `job_defs`, `runs`, `alerts`, metrics | insert, upsert, delete, load | `JobDefs`, `Scheduler`, `AlertFeed` |
| Shared state (`shared_state.hpp`) | published jobs, alert ring, metrics | set, get, `add_alert` | `Scheduler`, `AlertFeed` |
| App (`StatusStore.swift`, `SocketClient.swift`) | status, seen alerts | poll, apply, notify | `AlertFeed`, `Daemon` |
| CLI | - | one request | `Daemon` |
| Samplers, notifier, log, paths, views, packaging | - | input and output | not modelled |

The threads of the daemon are main (sampling, reload, start, stop), the
scheduler's loop, one worker per execution, the accept thread of the socket
server (the one caller of the job calls) and the sleep monitor. They share the
scheduler's maps under `mutex_`, its database connection under `db_mutex_`, and
`SharedState`.

What is hard here: critical sections that are left and entered again with what
was read before; two scanners of missed runs; removal of a job that runs; the
order of the joins at shutdown; a crash between table and memory; timeouts
against processes that do as they like; rules with duration and cooldown over
a clock that may step back; signals at any point; clients that stall; replies
that are applied out of order.

## Modules

**`Scheduler`.** One action is one critical section of `mutex_` or `db_mutex_`
with the thread-local code around it. No critical section contains another, so
these are the interleavings the code has. `phase` is the main thread, `loop_pc`
the loop, `scan[p]` a `scan_missed` call on the main or the loop thread,
`task[t]` a `RunningTask` with its worker, `api[a]` a call of the API. A job is
its name; schedule, policy and retries are constant functions of the name.
`queue_` is kept as a number of entries per job, because triggers are only text
and the order of entries decides nothing but the order of launches. `Launch`
kills the process when it overwrites an entry that holds a task, since that
destroys a joinable `std::thread`. Every database write may fail. `Crash` may
happen at any time; `Boot` is constructor, `start()` and the reading of
`config.yaml`, which may differ from start to start. `acked` is a history
variable: the last reply for each name.

**`JobStore`.** What the job calls promise: a durable set on which an add and a
remove take effect in one step or not at all. `Scheduler` implements it; the
mapping is `Store` in `SchedulerStore` (`stored` is the table, a call has taken
effect once its table write succeeded).

**`Occurrences`.** What the cron searches and `detect_missed_run` mean on a set
of times: the earliest after, the latest up to, the latest since the last run.
`Scheduler` computes with these on the set `Occ[j]`; that the searches of `Cron`
return the same is proved in `JobDefsProofs`.

**`SchedulerUse`.** When a thread may be inside the scheduler: from the end of
its start-up scan until `stop()`, which is entered with nobody inside.
`Scheduler` assumes it of its callers: it accepts a call only in phase `serve`
and enters `stop()` only when no call is under way. `Daemon` has the accept
thread, the sleep monitor and the joins before `scheduler->stop()`, and is shown
to implement this module (`KeepsToUse`).

**`ProcessRunner`.** `run_command` step by step, against a shell and one
background process, which write, close their streams, leave the process group
and end when they like, and one process of another thread (another job's shell,
`osascript`) that inherits the pipes because they are not close-on-exec. A signal
may interrupt `poll()`, which is repeated, and `waitpid()`, which is not: its
result is ignored. Time is in ticks, the unit of `poll()`'s timeout, several per
second, because the code computes the remaining time from whole seconds; it is
narrowed to an `int` as the code does, with `IntMax` for 2^31 - 1. Output is in
blocks.

**`AlertEngine`.** `evaluate` and the `sampler_loop` around it. A sample is the
set of rules it meets, `trace` the history of samples and events. The
properties define from the samples alone which events there should be.

**`Cron`.** The parser from tokens on, `matches`, and the two searches as "the
first matching minute". `Local` is `localtime_r`, any function of time.

**`JobDefs`.** Everything in a job but its name: validation of `config.yaml`
and of `add_job` bodies, which accept different things (an unknown policy or a
negative limit is refused by the one and taken by the other), the row and back,
the merge at start-up, reload. The calls are atomic; that they may be taken so
is `Scheduler` implementing `JobStore`. `Tick` is the clock with the loop's
advance of `next_run_`.

**`Daemon`.** The process: `pc` is main, `srv` the accept thread, `mon` the
monitor's thread, `client[c]` a connection. Blocking `read()` and `write()`,
the backlog, hang-ups, SIGPIPE and SIGTERM before the handlers are installed, a
failing `poll()`, a `CFRunLoopStop` that comes too early, the destructor of a
joinable thread, crash and restart with a socket path left behind. Of the
scheduler's workers it has whether one is in a command (`busy`), which
`scheduler->stop()` waits for.

**`AlertFeed`.** The way of an alert: table, ring, status reply, app,
notification. `alert` lists the alerts raised; all else refers to positions in
it. Replies are applied in any order, as detached tasks are.

**`MCScheduler`, `MCAlertEngine`, `MCJobDefs`, `MCDaemon`, `MCAlertFeed`** give
constants their values. The `...Proofs` modules hold the theorems.

## Runs

| Run | Checks | Bounds and why they are enough |
|---|---|---|
| `calls` | `AckDurable`, `ImplementsJobStore`, `QueuedIsRun`, `ShutdownEnds`, `PublishCatchesUp` | one name, two processes: every call crashed at every point and looked at after the restart; the file may claim the name |
| `dynamic` | `AtMostOneRun`, `WorkersAccounted`, `ExitLeavesNoWorker`, `FailureAlerted`, `MissClaimedOnce`, `UpcomingNotLost`, `NoRefire`, `LastRunNeverBack`, `ScanIsComplete` | one job with one retry, two occurrences that pass and one to come, two tasks: add, remove, add again during the run, both scanners, shutdown anywhere |
| `command` | `CaptureIsExact`, `StatusIsTrue`, `NeverKilledEarly`, `TimedRunEnds` | two ticks per second, output beyond the cap on both streams, read whole or in pieces; no limit, one of 1 s, which fits `IntMax` = 3 ticks, and one of 4 s, which wraps around to 0 and later to a negative number |
| `events` | `FiringIsExact`, `RecoveryIsExact`, `PushRespectsQuiet`, `ReloadApplied` | four samples hold a firing, a recovery and a second episode inside and after the cooldown; quiet hours wrap; an edit and a signal at every point |
| `defs` | `RestartKeepsJobs`, `DefinitionsSound`, `MissedMeetsNextRun`, `ShadowedRowKept` | two names; files and bodies with each kind of mistake; minutes around a midnight that begins a month and a Sunday, with minutes repeated as when the clock is set back |
| `daemon` | `SchedulerStopsLast`, `PathIsHonest`, `NoLostConnection`, `AbortOnlyIfInert`, `HandledIsAnswered`, `KeepsToUse`, `PromptIsServed`, `ShutdownEnds` | two prompt clients and one that may stall, backlog of two: one served and two waiting, or two waiting and one refused; any number of restarts |
| `feed` | `DisplayedIsPosted`, `PostedIsRecorded`, `NoDoublePost`, `PublishedIsSeen`, `DisplayCatchesUp` | ring of one and two alerts (one pushes the other out), two polls at a time, one restart of app or daemon |

The scheduler runs have one job; that several jobs do not disturb each other is
shown by the theorems, which hold for any set of jobs. Two tasks suffice: a
second one for a job that has one is the violation looked for. Tasks are
interchangeable, hence the symmetry; and `dynamic` identifies states that differ
only in the published list, snapshots of it and the history of replies
(`Unreported`), which no step reads and none of its properties mentions. Neither
is used for liveness. Names of bounds: `MaxTime`, `MaxStarts`, `MaxQueue`, `MaxTicks`, `MaxOutput`,
`MaxSamples`, `MaxEdits`, `MaxAlerts`, `MaxRestarts`. `KMaxMinutes` and
`RingCap` are the code's own limits with smaller values.

**Fairness.** `Scheduler!Fairness` is weak fairness of each thread's own steps:
the operating system schedules every thread, and the mutexes are held only for
short sections. A worker in its command is left out: a command has no time limit
by default (`timeout_seconds` is 0), and with one it ends except in the situations
`TimedRunEnds` names. So `ShutdownEnds` and `QueuedIsRun` except a worker in its
command, and hold again from the moment it leaves it. The notifier (`osascript`,
which a worker and a scan wait for) is taken to end. `ProcessRunner!FairSpec` has
weak fairness of `run_command` and of time, none of the processes, of signals or
of a failing `poll()`.
`AlertEngine!FairSpec` has weak fairness of the main thread. `Daemon!Fairness`
is that of main, the accept thread, the monitor's thread and of the writing of
prompt clients (`apctl` and the app write as soon as they are connected and
read the answer); a client that is not prompt owes nothing, and `HeldUp` says
when the accept thread waits for one. Nothing is assumed of commands (`JobEnds`).
`AlertFeed!Fairness`: threads that have
raised an alert deliver it, the app's timer goes off, a request is answered or
fails, its task gets the main actor. Clock, callers, signals, crashes,
restarts and edits are never fair.

## Where code and documentation disagree

Each of these runs ends in a counterexample.

- `wake` / `LaunchFindsNoTask`: one tick may launch a job twice. After a sleep
  over an occurrence the loop's scan queues it as missed and the same tick finds
  the job due for it. `is_running` does not see `to_launch`; the second `launch()`
  overwrites the first task, and the daemon terminates. The cfg has one
  occurrence and a gap of any length counts as a sleep (`KWakeGap` = 0), so the
  shortest trace is that of a wake.
- `underway` / `MissedNotUnderWay`: a scan during a run reports the occurrence
  that run is for as missed, and queues it again. The shortest trace is that of
  the start-up scan, which main runs while the loop already launches; a wake scan
  during a run does the same.
- `none` / `NoneIgnoresMissed`: a job of policy `none` still runs on wake for
  the occurrence it slept through.
- `linger` / `TimeoutEndsCommand`: a shell that closed its streams, or filled
  both captures, is waited for beyond its timeout.
- `morning` / `HeldUntilMorning`: notifications of the quiet hours are dropped,
  not held.

`AtMostOneRun` holds in spite of `wake`: the second launch ends the process
before a second worker exists.

Other behaviour a reader of the properties should know, each the reason for an
exception one of them makes:

- a reload makes a new engine: cooldowns are forgotten, and an episode that had
  fired never recovers (`FiringIsExact` and `RecoveryIsExact` start at `born`);
- a signal that reaches a worker in `waitpid()` makes it report a success while
  the shell may still run (`interrupted` in `StatusIsTrue`); the job can then be
  launched again beside it, as `AtMostOneRun` is about workers, not shells.
  `process_runner.hpp` says of `Success` "exited 0";
- a time limit of 2^31 ms or more is narrowed to an `int`: it may become none, or
  a short one (`Fits` in `NeverKilledEarly` and `TimedRunEnds`);
- a process outside the group that holds a pipe keeps `run_command` waiting after
  the kill (`TimedRunEnds`);
- `stop()` waits for a command without a bound of its own, although its comment
  says "bounded by their timeouts" (both `ShutdownEnds`);
- a silent client holds up every other client and the shutdown (`HeldUp` in
  `PromptIsServed` and `Daemon!ShutdownEnds`);
- a shutdown before the monitor's run loop runs may wait for it for ever
  (`quit = "late"` in `Daemon!ShutdownEnds`);
- a monitor that could not register makes the process abort at the end of
  `main` (`AbortOnlyIfInert`);
- two alerts of one rule and kind in one second are one to the app
  (`DisplayedIsPosted`);
- a late reply can announce an alert again, or one from before the app was
  opened, when it has already left the ring (`NoDoublePost`).

## Proofs

All theorems hold for any constants that satisfy the modules' `ASSUME`s.

*Scheduler* (`SchedulerTypeProofs`, `SchedulerProofs`). `IndInv` = `TypeOK` and
four parts. `ThreadsInv`: which threads can be where together (no call after
the server stopped, no loop after its join). `TasksInv`: every task that is not
free is in `running_` under its own job or in `joining`, and conversely;
without the converse, `reap_finished` could free a task another entry points
to. `TimesInv`: `last_wall_` is not ahead of the clock, `next_run_` has entries
of known jobs only; needed because a tick computes `next_after` from
`last_wall_`, which is earlier than the clock when the tick reaches it.
`ClaimsInv`: while both scanners exist, what one has claimed is in
`missed_handled_`. That holds only until `remove_job` erases the entry, and
calls come only after the start-up scan. From `Inductive` follow `TypeCorrect`,
`WorkersAreAccounted`, `OneRunPerJob`, `ExitIsClean`, `FailuresAreAlerted`,
`ScheduleKept`, `NothingRefires` and `OneClaimPerMiss`.

Two action properties need more. The first is proved in `SchedulerProofs`, the
second in `SchedulerCallProofs`. `RunsInv`: a worker that has still to write
`last_runs_` started no earlier than what is there. That rests on `OneRunPerJob`:
a second worker of the job, also one of a job removed and added again, would
write out of order. It gives `LastRunsKept`. `ScanInv`: each job of the copy a
scan works on is still to be looked at, is about to be marked, or is covered (it
has run since its latest occurrence, or that is in `missed_handled_`). A covered
job of `config.yaml` stays covered, because its `last_runs_` does not go back,
`missed_handled_` only grows and `remove_job` does not take it. It gives
`ScansAreComplete`.

*Calls* (`SchedulerCallProofs`). `CallsInv` says what a call under way has done
so far. It needs one caller (`OneCaller`): two callers with the same name would
both pass the check of `add_job`, which is made under an earlier hold of
`mutex_` than the push. The daemon has one caller, the accept thread. From it
follows `AcksAreDurable`.

*Refinement* (also `SchedulerCallProofs`). With `CallsInv`, every step of
`Scheduler` is a step of `JobStore` or leaves its variables alone: the table
write is the effect, the last publication the reply, a failed write the
rejection (`SchedulerRefinesJobStore`).

*Process runner.* `StreamInv` (what was written is captured, in the pipe, or
cut off at the cap), `DeadlineInv` (a poll under way that can give up belongs to a
command with a time limit, and gives up no earlier than a deadline that fits an
`int`; `FitsInTicks` shows that nothing is then narrowed), `StatusInv` (what a
kill, an interrupted wait and the shell's state allow). From them
follow `CapturesAreExact`, `KillsAreNotEarly`, `StatusIsTruthful` and
`RunTypeCorrect`.

*Alert engine.* The properties speak of the whole history, the code remembers
four fields per rule. `EngineInv` ties them: `since` is the time of the first
sample of the current streak, `notified` says that an event of this streak is
in the history, `last_fired` is the time of the last one. One lemma per branch
of `evaluate` carries it over a sample; `FiringExact`, `RecoveryExact` and
`QuietRespected` follow.

*Job definitions.* `FirstIsLeast` (by well-foundedness of `<`) and the minute
arithmetic of `MinuteFacts` give `NextFinds` and `MissedFinds`: what each
search returns. `NextInv` says that an entry of `next_run_` is the first
occurrence after now, `TableInv` that every row holds a schedule that parses.
`SearchesAgree`, `RestartKeeps`, `DefinitionsStaySound` and
`ShadowedRowsKept` follow. Assumed of the constants: nodes name jobs, and the
times of the clock are less than the search horizon apart.

The parser and the searches by themselves: `ParsedFieldsSound` (a schedule that
parses has no empty field and no value out of range), `NextAfterIsEarliest` and
`PrevBeforeIsLatest` (the minute-by-minute loops return what `Occurrences`
defines, for any calendar). The first is limited to the horizon of the loop
when it finds nothing; the second supposes a time at least a horizon after the
epoch, which is so since 1974.

*Daemon.* `MonitorInv` and `ServerInv` say what thread, handle, socket and path
are like at each place of `main`; with `NoLostConnection` they are inductive.
`SchedulerLast`, `ConnectionsKept`, `PathHonest`, `AbortNeedsInertMonitor`,
`HandledAreAnswered` and the refinement `DaemonKeepsToUse` follow.

*Alert feed* (`AlertFeedProofs`). `DeliveryInv`: whatever has been in the ring
(it is there, in a reply under way, on display or announced) was stored first or
its insert failed, and a thread about to publish shares its alert with no other.
`SeenInv`: what the app shows has its id among those seen, and an alert with a
seen id was announced, is backlog, or shares the id. `AnnouncedInv`: an
announced alert that is still in the ring has its id among those seen, or the
app has just been restarted and every reply that could seed it carries the
alert; without the second case a restart of the app would break it. Together
with `TypeOK` they are inductive (`FeedInductive`); `AnnouncedIsRecorded`,
`ShownIsAnnounced` and `AnnouncedOnce` follow.

Only model-checked: the liveness properties, since fairness is out of the
prover's reach. Only proved: the type invariants, and what `Cron` computes.

## Not modelled

- The texts of requests, messages, replies and logs. One consequence is worth
  knowing: the detail of a job alert is cut at a byte count
  (`scheduler.cpp:393`), and a cut inside a character makes the status reply
  throw on the accept thread; to `Daemon` that is a `Crash`.
- Metrics: their samplers, the rows and getters that hold them, the `history`
  and `runs` queries. They are read and shown; nothing is decided by them but
  the alert rules, for which a sample is arbitrary.
- YAML and JSON syntax, the conversion of thresholds, the values of quiet hours
  as `config.yaml` gives them (`AlertEngine` takes any).
- Mutex fairness beyond weak fairness of threads; a wall clock that is set back
  under the scheduler; loss of database transactions at power failure; a second
  daemon at the same socket.
- The notifier (it starts `osascript` and waits), the app's views and form, and
  the packaging scripts.

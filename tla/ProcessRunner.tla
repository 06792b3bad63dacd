---------------------------- MODULE ProcessRunner ----------------------------
(***************************************************************************)
(* run_command, daemon/src/jobs/process_runner.{hpp,cpp}: one execution of *)
(* a job's command, from the two pipes to the RunResult.                   *)
(*                                                                         *)
(* The actors are the worker thread in run_command, the shell it spawns as *)
(* the leader of a process group, one more process the shell may start in  *)
(* the background, inside the group or escaped from it (setsid), and one   *)
(* that another thread of the daemon spawns while the pipes are set up.    *)
(* The processes write to the pipes, close them and end when they like.    *)
(* The daemon's signal handlers may run on this thread at any time.        *)
(*                                                                         *)
(* Time is counted in ticks since the start, output in blocks.  A tick is  *)
(* the unit of poll()'s timeout: in the code TicksPerSecond is 1000 and    *)
(* IntMax 2^31 - 1.                                                        *)
(***************************************************************************)
EXTENDS Integers

CONSTANTS
  Timeouts,         \* the values timeout_seconds may have
  TicksPerSecond,
  IntMax,           \* the largest int
  Cap,              \* kMaxCapture
  PipeSize,         \* what fits into a pipe
  Escapes,          \* whether a background process may leave the group
  Inherits,         \* whether another thread may spawn a process meanwhile
  MaxTicks, MaxOutput    \* bounds of the model, in the guards

ASSUME ProcessRunnerAssumption ==
  /\ Timeouts \subseteq Int
  /\ TicksPerSecond \in Nat \ {0} /\ IntMax \in Nat /\ Cap \in Nat \ {0} /\ PipeSize \in Nat \ {0}
  /\ Escapes \in BOOLEAN /\ Inherits \in BOOLEAN
  /\ MaxTicks \in Nat /\ MaxOutput \in Nat

Streams == {"out", "err"}
Procs   == {"shell", "background", "other"}

VARIABLES
  elapsed,     \* steady_clock::now() - start
  timeout,     \* timeout_seconds
  pc,          \* where run_command is
  poll_until,  \* when the poll() under way gives up, -1 otherwise
  reading,     \* read_out, read_err: the streams still read
  captured,    \* size of stdout_text, stderr_text
  truncated,   \* stdout_truncated, stderr_truncated: the streams flagged
  timed_out, killed,
  status,      \* RunResult::status
  proc,        \* the processes: "none", "group", "escaped" or how they ended
  holds,       \* holds[p]: the pipes p has open for writing
  pipe,        \* what each pipe contains
  written,     \* history: what was written to each pipe
  broken,      \* history: poll() failed
  interrupted  \* history: waitpid() failed with EINTR

code == <<timeout, pc, poll_until, reading, captured, truncated, timed_out,
          killed, status, broken, interrupted>>
vars == <<elapsed, code, proc, holds, pipe, written>>

Alive(p) == proc[p] \in {"group", "escaped"}
Open(s)  == \E p \in Procs : s \in holds[p]
-----------------------------------------------------------------------------
\* The result is SpawnError until the end.
Init ==
  /\ elapsed = 0 /\ timeout \in Timeouts
  /\ pc = "spawn" /\ poll_until = -1
  /\ reading = Streams /\ captured = [s \in Streams |-> 0] /\ truncated = {}
  /\ timed_out = FALSE /\ killed = FALSE /\ status = "spawn_error"
  /\ proc = [p \in Procs |-> "none"] /\ holds = [p \in Procs |-> {}]
  /\ pipe = [s \in Streams |-> 0] /\ written = [s \in Streams |-> 0]
  /\ broken = FALSE /\ interrupted = FALSE

\* posix_spawn: the shell leads a new process group and has both pipes.  The
\* pipes are not close-on-exec: what another thread spawns (the shell of another
\* job, osascript) before the write ends are closed here inherits them as well.
Spawn ==
  /\ pc = "spawn"
  /\ pc' = "loop"
  /\ \E inherited \in IF Inherits THEN SUBSET Streams ELSE {{}} :
       /\ proc' = [proc EXCEPT !["shell"] = "group",
                               !["other"] = IF inherited = {} THEN "none" ELSE "escaped"]
       /\ holds' = [holds EXCEPT !["shell"] = Streams, !["other"] = inherited]
  /\ UNCHANGED <<elapsed, timeout, poll_until, reading, captured, truncated,
                 timed_out, killed, status, broken, interrupted, pipe, written>>

\* pipe() or posix_spawn() fails.
SpawnFails ==
  /\ pc = "spawn"
  /\ pc' = "returned"
  /\ UNCHANGED <<elapsed, timeout, poll_until, reading, captured, truncated,
                 timed_out, killed, status, broken, interrupted, proc, holds, pipe, written>>

\* Mutant: the elapsed time is rounded up.
ElapsedRoundedUp == ((elapsed + TicksPerSecond - 1) \div TicksPerSecond) * TicksPerSecond
\* duration_cast<seconds>(elapsed)
WholeSeconds == (elapsed \div TicksPerSecond) * TicksPerSecond

\* static_cast<int>: what does not fit wraps around.
Narrow(n) == IF n <= IntMax THEN n
             ELSE ((n + IntMax + 1) % (2 * (IntMax + 1))) - (IntMax + 1)

\* timeout_ms
Remaining == LET left == timeout * TicksPerSecond - WholeSeconds
             IN  IF left > 0 THEN Narrow(left) ELSE 0

\* The head of the drain loop, up to the call of poll().  With a negative
\* timeout poll() never gives up, or refuses it (PollFails).
PollStart ==
  /\ pc = "loop" /\ reading # {}
  /\ pc' = "poll"
  /\ poll_until' = IF timeout > 0 /\ ~killed /\ Remaining >= 0
                   THEN elapsed + Remaining ELSE -1
  /\ UNCHANGED <<elapsed, timeout, reading, captured, truncated, timed_out,
                 killed, status, broken, interrupted, proc, holds, pipe, written>>

\* POLLIN or POLLHUP.
Ready(s) == s \in reading /\ (pipe[s] > 0 \/ ~Open(s))

\* Mutant: only the shell is killed.
KillShell(p) == p = "shell" /\ proc[p] = "group"
\* kill(-pid, SIGKILL) ends the members of the process group.
KilledByGroup(p) == proc[p] = "group"

\* poll() is at its timeout; it has nothing to return for.
TimeIsUp == poll_until >= 0 /\ elapsed >= poll_until
Blocked  == ~TimeIsUp /\ \A s \in Streams : ~Ready(s)

\* poll() returns 0: the group is killed and draining goes on.
PollTimesOut ==
  /\ pc = "poll" /\ TimeIsUp
  /\ \A s \in Streams : ~Ready(s)
  /\ pc' = "loop" /\ poll_until' = -1
  /\ timed_out' = TRUE /\ killed' = TRUE
  /\ proc' = [p \in Procs |-> IF KilledByGroup(p) THEN "signalled" ELSE proc[p]]
  /\ holds' = [p \in Procs |-> IF KilledByGroup(p) THEN {} ELSE holds[p]]
  /\ UNCHANGED <<elapsed, timeout, reading, captured, truncated,
                 status, broken, interrupted, pipe, written>>

\* Mutant: a stream filled to the brim is taken for truncated.
OverflowsAtCap(s, n) == captured[s] + n >= Cap
\* append_capped: n more blocks do not fit.
Overflows(s, n) == captured[s] + n > Cap

\* append_capped: what is kept of n more blocks.
Appended(s, n) == IF Overflows(s, n) THEN Cap ELSE captured[s] + n

\* poll() returns > 0: each ready stream is read once; it is dropped at its end
\* and when append_capped has no room for what was read.
Drain ==
  /\ pc = "poll" /\ \E s \in Streams : Ready(s)
  /\ \E n \in [Streams -> 0 .. PipeSize] :
       /\ \A s \in Streams : IF Ready(s) /\ pipe[s] > 0 THEN n[s] \in 1 .. pipe[s]
                                                        ELSE n[s] = 0
       /\ pipe' = [s \in Streams |-> pipe[s] - n[s]]
       /\ captured' = [s \in Streams |-> Appended(s, n[s])]
       /\ truncated' = truncated \cup {s \in Streams : n[s] > 0 /\ Overflows(s, n[s])}
       /\ reading' = {s \in reading : Ready(s) => n[s] > 0 /\ ~Overflows(s, n[s])}
  /\ pc' = "loop" /\ poll_until' = -1
  /\ UNCHANGED <<elapsed, timeout, timed_out, killed, status, broken,
                 interrupted, proc, holds, written>>

\* poll() fails for another reason than a signal.
PollFails ==
  /\ pc = "poll"
  /\ pc' = "wait" /\ poll_until' = -1 /\ broken' = TRUE
  /\ UNCHANGED <<elapsed, timeout, reading, captured, truncated,
                 timed_out, killed, status, interrupted, proc, holds, pipe, written>>

\* A signal handler of the daemon runs on this thread while it is in poll():
\* EINTR, and the loop goes round.
PollInterrupted ==
  /\ pc = "poll" /\ Blocked
  /\ pc' = "loop" /\ poll_until' = -1
  /\ UNCHANGED <<elapsed, timeout, reading, captured, truncated,
                 timed_out, killed, status, broken, interrupted, proc, holds, pipe, written>>

\* Both streams are done: the read ends are closed.
StopReading ==
  /\ pc = "loop" /\ reading = {}
  /\ pc' = "wait"
  /\ UNCHANGED <<elapsed, timeout, poll_until, reading, captured, truncated,
                 timed_out, killed, status, broken, interrupted, proc, holds, pipe, written>>

\* Mutant: the exit status is looked at first.
ResultByExit(exit) == IF exit = "exit0" THEN "success"
                      ELSE IF timed_out THEN "timeout" ELSE "failed"
Result(exit) == IF timed_out THEN "timeout"
                ELSE IF exit = "exit0" THEN "success" ELSE "failed"

\* waitpid returns once the shell has ended; then the result is made up.
WaitReturns ==
  /\ pc = "wait" /\ ~Alive("shell")
  /\ pc' = "returned"
  /\ status' = Result(proc["shell"])
  /\ UNCHANGED <<elapsed, timeout, poll_until, reading, captured, truncated,
                 timed_out, killed, broken, interrupted, proc, holds, pipe, written>>

\* A signal handler runs while waitpid waits (the handlers are installed without
\* SA_RESTART): it fails with EINTR, which goes unnoticed, and the exit status
\* looked at is the initial 0.
WaitInterrupted ==
  /\ pc = "wait" /\ Alive("shell")
  /\ pc' = "returned" /\ interrupted' = TRUE
  /\ status' = Result("exit0")
  /\ UNCHANGED <<elapsed, timeout, poll_until, reading, captured, truncated,
                 timed_out, killed, broken, proc, holds, pipe, written>>

RunCommand == \/ Spawn \/ SpawnFails \/ PollStart \/ PollTimesOut \/ Drain
              \/ StopReading \/ WaitReturns
-----------------------------------------------------------------------------
(* The processes that hold the pipes.  The one that inherited them does    *)
(* not know of them, and has them until it ends.                           *)

Write(p, s) ==
  /\ Alive(p) /\ p # "other" /\ s \in holds[p]
  /\ pc \in {"loop", "poll"} /\ pipe[s] < PipeSize /\ written[s] < MaxOutput
  /\ pipe' = [pipe EXCEPT ![s] = @ + 1]
  /\ written' = [written EXCEPT ![s] = @ + 1]
  /\ UNCHANGED <<elapsed, code, proc, holds>>

Close(p, s) ==
  /\ Alive(p) /\ p # "other" /\ s \in holds[p]
  /\ holds' = [holds EXCEPT ![p] = @ \ {s}]
  /\ UNCHANGED <<elapsed, code, proc, pipe, written>>

\* A process that gives up because its pipe is no longer read is one of the ends;
\* how it ended is only asked of the shell.
End(p) ==
  /\ Alive(p)
  /\ \E e \in {"exit0"} \cup (IF p = "shell" THEN {"exit1", "signalled"} ELSE {}) :
       proc' = [proc EXCEPT ![p] = e]
  /\ holds' = [holds EXCEPT ![p] = {}]
  /\ UNCHANGED <<elapsed, code, pipe, written>>

StartBackground ==
  /\ Alive("shell") /\ proc["background"] = "none"
  /\ \E g \in IF Escapes THEN {"group", "escaped"} ELSE {"group"} :
       proc' = [proc EXCEPT !["background"] = g]
  /\ holds' = [holds EXCEPT !["background"] = holds["shell"]]
  /\ UNCHANGED <<elapsed, code, pipe, written>>

Command == \/ StartBackground
           \/ \E p \in Procs : End(p) \/ \E s \in Streams : Write(p, s) \/ Close(p, s)

\* Time is of no account once the streams are done.
Tick ==
  /\ elapsed < MaxTicks /\ pc \in {"spawn", "loop", "poll"}
  /\ elapsed' = elapsed + 1
  /\ UNCHANGED <<code, proc, holds, pipe, written>>

Returned == pc = "returned" /\ UNCHANGED vars

Next == RunCommand \/ PollFails \/ PollInterrupted \/ WaitInterrupted \/ Command \/ Tick \/ Returned

Spec == Init /\ [][Next]_vars
\* The worker thread and time go on; the processes owe nothing, and a failing
\* poll() or a signal may come or not.
FairSpec == Spec /\ WF_vars(RunCommand) /\ WF_vars(Tick)
-----------------------------------------------------------------------------
DataOK ==
  /\ elapsed \in 0 .. MaxTicks /\ timeout \in Timeouts
  /\ pc \in {"spawn", "loop", "poll", "wait", "returned"} /\ poll_until \in Nat \cup {-1}
  /\ reading \subseteq Streams /\ truncated \subseteq Streams
  /\ captured \in [Streams -> 0 .. Cap]
  /\ status \in {"spawn_error", "success", "failed", "timeout"}
  /\ proc \in [Procs -> {"none", "group", "escaped", "exit0", "exit1", "signalled"}]
  /\ holds \in [Procs -> SUBSET Streams]
  /\ pipe \in [Streams -> 0 .. PipeSize] /\ written \in [Streams -> 0 .. MaxOutput]
FlagsOK == /\ timed_out \in BOOLEAN /\ killed \in BOOLEAN
           /\ broken \in BOOLEAN /\ interrupted \in BOOLEAN
\* Every variable holds a value of what it stands for; a capture never exceeds
\* the cap.
TypeOK == DataOK /\ FlagsOK

\* What is captured of a stream is all that was written to it, or the first Cap
\* blocks with the stream flagged as truncated, also when the output ends right
\* at the cap, when the command is killed, and when the streams end in turn.
CaptureIsExact ==
  pc = "returned" /\ ~broken => \A s \in Streams :
    /\ s \in truncated => captured[s] = Cap /\ written[s] > Cap
    /\ s \notin truncated => captured[s] = written[s]

\* Which statuses can be relied on: timeout only for a command that was killed,
\* with no process of its group left behind; failed only for a shell that ended
\* otherwise than with 0 and was left alone; success only for one that exited
\* with 0 and was left alone, or whose wait a signal cut short: then nothing is
\* known of it, it may still run.
StatusIsTrue ==
  /\ status = "timeout" => killed /\ \A p \in Procs : proc[p] # "group"
  /\ status = "failed" => proc["shell"] \in {"exit1", "signalled"} /\ ~killed
  /\ status = "success" => ~killed /\ (proc["shell"] = "exit0" \/ interrupted)

\* The time limit in milliseconds fits an int (it does up to 24.8 days).
Fits == timeout <= IntMax \div TicksPerSecond

\* Only a command with a time limit is killed, and not early as long as the limit
\* fits an int: cutting the elapsed time to whole seconds only ever adds to what
\* is left.  (A limit that does not fit may wrap around to a short one.)
NeverKilledEarly ==
  killed => timeout > 0 /\ (Fits => elapsed >= timeout * TicksPerSecond)

\* With a time limit that fits an int, run_command returns, unless the shell
\* outlives both streams (it closed them or filled the capture) or, after the
\* kill, a process outside the group holds one of the pipes open: one that left
\* the group, or one of another thread that inherited it.
TimedRunEnds ==
  timeout > 0 /\ Fits ~>
    \/ pc = "returned"
    \/ pc = "wait" /\ Alive("shell")
    \/ killed /\ \E p \in Procs : proc[p] = "escaped" /\ holds[p] \cap reading # {}
-----------------------------------------------------------------------------
(* The inductive invariants behind the properties above.                   *)

\* What a stream has given so far: all of it while it is read; all of it and
\* nobody left to write if it ended; more than Cap if it was dropped.
StreamInv ==
  /\ \A s \in Streams :
       /\ s \in reading => s \notin truncated /\ captured[s] + pipe[s] = written[s]
       /\ s \notin reading /\ s \notin truncated => captured[s] = written[s] /\ ~Open(s)
       /\ s \in truncated => captured[s] = Cap /\ written[s] > Cap
  /\ pc = "wait" /\ ~broken => reading = {}
  /\ pc = "returned" /\ ~broken => reading = {} \/ \A s \in Streams : ~Open(s) /\ pipe[s] = 0
  /\ pc = "spawn" => reading = Streams /\ \A s \in Streams : ~Open(s) /\ pipe[s] = 0
  /\ \A p \in Procs : proc[p] = "none" => holds[p] = {}
  /\ pc = "spawn" => \A p \in Procs : proc[p] = "none"

DeadlineInv ==
  /\ NeverKilledEarly
  /\ pc = "poll" /\ poll_until >= 0 =>
       timeout > 0 /\ (Fits => poll_until >= timeout * TicksPerSecond)

StatusInv ==
  /\ StatusIsTrue
  /\ timed_out <=> killed
  /\ killed => \A p \in Procs : proc[p] # "group"
  /\ status # "spawn_error" => pc = "returned"
  /\ pc = "returned" /\ ~interrupted => ~Alive("shell")
  /\ interrupted => status = "success"
  /\ proc["shell"] # "escaped"
  /\ pc \in {"loop", "poll", "wait"} => proc["shell"] # "none"
  /\ pc = "spawn" => ~killed /\ \A p \in Procs : proc[p] = "none"
-----------------------------------------------------------------------------
(* What the comments promise and the code does not keep.                   *)

\* "If timeout_seconds > 0 and the command runs longer, its process group is
\* killed": a command with a timeout does not run for ever (as long as poll()
\* works).
TimeoutEndsCommand == timeout > 0 ~> pc = "returned" \/ broken
==============================================================================

------------------------- MODULE ProcessRunnerProofs -------------------------
(* Theorems about run_command, for every timeout, capture cap, pipe size   *)
(* and length of output.                                                   *)
EXTENDS ProcessRunner, TLAPS

\* Every action keeps the Boolean flags Boolean.
LEMMA FlagTypes == ASSUME FlagsOK, [Next]_vars PROVE FlagsOK'
<1>1. \/ UNCHANGED <<timed_out, killed, broken, interrupted>>
      \/ timed_out' = TRUE /\ killed' = TRUE /\ UNCHANGED <<broken, interrupted>>
      \/ broken' = TRUE /\ UNCHANGED <<timed_out, killed, interrupted>>
      \/ interrupted' = TRUE /\ UNCHANGED <<timed_out, killed, broken>>
  BY DEF Next, RunCommand, Spawn, SpawnFails, PollStart, PollTimesOut, Drain, PollFails,
     PollInterrupted, StopReading, WaitReturns, WaitInterrupted, Command, StartBackground, End, Write, Close, Tick, Returned,
     vars, code
<1> QED BY <1>1, Zenon DEF FlagsOK

\* Drain keeps pipes and captures within their sizes.
LEMMA DrainTypes == ASSUME DataOK, Drain PROVE DataOK'
<1>1. PICK n \in [Streams -> 0 .. PipeSize] :
        /\ \A s \in Streams : IF Ready(s) /\ pipe[s] > 0 THEN n[s] \in 1 .. pipe[s]
                                                         ELSE n[s] = 0
        /\ pipe' = [s \in Streams |-> pipe[s] - n[s]]
        /\ captured' = [s \in Streams |-> Appended(s, n[s])]
        /\ truncated' = truncated \cup {s \in Streams : n[s] > 0 /\ Overflows(s, n[s])}
        /\ reading' = {s \in reading : Ready(s) => n[s] > 0 /\ ~Overflows(s, n[s])}
  BY DEF Drain
<1>2. \A s \in Streams : pipe[s] \in 0 .. PipeSize /\ n[s] \in 0 .. PipeSize /\ captured[s] \in 0 .. Cap
  BY <1>1 DEF DataOK
<1>3. \A s \in Streams : n[s] <= pipe[s]
  BY <1>1, <1>2
<1>4. \A s \in Streams : pipe[s] - n[s] \in 0 .. PipeSize
  BY <1>2, <1>3, ProcessRunnerAssumption
<1>5. pipe' \in [Streams -> 0 .. PipeSize]
  BY <1>1, <1>4
<1>6. \A s \in Streams : Appended(s, n[s]) \in 0 .. Cap
  BY <1>2, ProcessRunnerAssumption DEF Appended, Overflows
<1>7. captured' \in [Streams -> 0 .. Cap]
  BY <1>1, <1>6
<1> QED BY <1>1, <1>5, <1>7 DEF Drain, DataOK

\* What narrowing to int gives; what fits is kept.
LEMMA NarrowIsInt == ASSUME NEW n \in Int PROVE Narrow(n) \in Int
<1>1. IntMax \in Nat
  BY ProcessRunnerAssumption
<1>2. 2 * (IntMax + 1) \in Nat \ {0} /\ n + IntMax + 1 \in Int
  BY <1>1
<1>3. (n + IntMax + 1) % (2 * (IntMax + 1)) \in Int
  BY <1>2
<1> QED BY <1>1, <1>3 DEF Narrow

\* Every action keeps the data typed.
LEMMA DataTypes == ASSUME DataOK, [Next]_vars PROVE DataOK'
<1>0. CASE Spawn
  BY <1>0 DEF Spawn, DataOK, Procs
<1>1. CASE SpawnFails \/ StopReading \/ PollFails \/ PollInterrupted \/ Returned \/ UNCHANGED vars
  BY <1>1 DEF SpawnFails, StopReading, PollFails, PollInterrupted, Returned, vars, code, DataOK
<1>2. CASE PollStart
  <2>1. timeout \in Int /\ elapsed \in Nat /\ TicksPerSecond \in Nat \ {0}
    BY ProcessRunnerAssumption DEF DataOK
  <2>2. elapsed \div TicksPerSecond \in Int /\ WholeSeconds \in Int
    BY <2>1 DEF WholeSeconds
  <2>3. timeout * TicksPerSecond \in Int
    BY <2>1
  <2>4. Remaining \in Int
    BY <2>2, <2>3, NarrowIsInt DEF Remaining
  <2>5. poll_until' \in Nat \cup {-1}
    BY <1>2, <2>1, <2>4 DEF PollStart
  <2> QED BY <1>2, <2>5 DEF PollStart, DataOK
<1>3. CASE PollTimesOut
  BY <1>3 DEF PollTimesOut, DataOK
<1>4. CASE WaitReturns \/ WaitInterrupted
  BY <1>4 DEF WaitReturns, WaitInterrupted, Result, DataOK
<1>5. CASE Tick
  BY <1>5, ProcessRunnerAssumption DEF Tick, DataOK, code
<1>6. CASE StartBackground
  BY <1>6 DEF StartBackground, DataOK, code, Procs
<1>7. ASSUME NEW p \in Procs, End(p) PROVE DataOK'
  BY <1>7 DEF End, DataOK, code
<1>8. ASSUME NEW p \in Procs, NEW s \in Streams, Write(p, s) PROVE DataOK'
  <2>1. pipe[s] + 1 \in 0 .. PipeSize /\ written[s] + 1 \in 0 .. MaxOutput
    BY <1>8, ProcessRunnerAssumption DEF Write, DataOK
  <2> QED BY <1>8, <2>1 DEF Write, DataOK, code
<1>9. ASSUME NEW p \in Procs, NEW s \in Streams, Close(p, s) PROVE DataOK'
  BY <1>9 DEF Close, DataOK, code
<1> QED BY <1>0, <1>1, <1>2, <1>3, <1>4, <1>5, <1>6, <1>7, <1>8, <1>9, DrainTypes
     DEF Next, RunCommand, Command

\* run_command and its processes stay within their types: in particular a
\* capture never exceeds kMaxCapture.
THEOREM RunTypeCorrect == Spec => []TypeOK
<1>1. Init => TypeOK
  <2>1. Init => DataOK
    BY ProcessRunnerAssumption DEF Init, DataOK, Streams, Procs
  <2>2. Init => FlagsOK
    BY Zenon DEF Init, FlagsOK
  <2> QED BY <2>1, <2>2 DEF TypeOK
<1>2. TypeOK /\ [Next]_vars => TypeOK'
  BY FlagTypes, DataTypes DEF TypeOK
<1> QED BY <1>1, <1>2, PTL DEF Spec

\* Whole seconds never exceed the time they were cut from.
LEMMA CutDown == ASSUME NEW e \in Nat, NEW k \in Nat \ {0} PROVE (e \div k) * k <= e
OBVIOUS

\* A time limit that fits an int does so in milliseconds.
LEMMA FitsInTicks == ASSUME DataOK, Fits PROVE timeout * TicksPerSecond <= IntMax
<1>1. timeout \in Int /\ TicksPerSecond \in Nat \ {0} /\ IntMax \in Nat
  BY ProcessRunnerAssumption DEF DataOK
<1>2. timeout <= IntMax \div TicksPerSecond /\ IntMax \div TicksPerSecond \in Int
  BY <1>1 DEF Fits
<1>3. (IntMax \div TicksPerSecond) * TicksPerSecond <= IntMax
  BY <1>1, CutDown
<1>4. \A a, b \in Int, k \in Nat : a <= b => a * k <= b * k
  OBVIOUS
<1>5. timeout * TicksPerSecond <= (IntMax \div TicksPerSecond) * TicksPerSecond
  BY <1>1, <1>2, <1>4
<1>6. timeout * TicksPerSecond \in Int /\ (IntMax \div TicksPerSecond) * TicksPerSecond \in Int
  BY <1>1, <1>2
<1> QED BY <1>1, <1>3, <1>5, <1>6

\* A poll that can time out does so at the deadline or later.
LEMMA PollDeadline ==
  ASSUME DataOK, PollStart, poll_until' >= 0
  PROVE  timeout > 0 /\ (Fits => poll_until' >= timeout * TicksPerSecond)
<1>1. timeout \in Int /\ elapsed \in Nat /\ TicksPerSecond \in Nat \ {0} /\ IntMax \in Nat
  BY ProcessRunnerAssumption DEF DataOK
<1>2. WholeSeconds \in Nat /\ WholeSeconds <= elapsed
  BY <1>1, CutDown DEF WholeSeconds
<1>3. timeout * TicksPerSecond \in Int
  BY <1>1
<1>4. timeout > 0 /\ poll_until' = elapsed + Remaining
  BY DEF PollStart
<1>5. ASSUME Fits PROVE elapsed + Remaining >= timeout * TicksPerSecond
  <2>1. timeout * TicksPerSecond - WholeSeconds <= IntMax
    BY <1>1, <1>2, <1>3, <1>5, FitsInTicks
  <2> QED BY <1>1, <1>2, <1>3, <2>1 DEF Remaining, Narrow
<1> QED BY <1>4, <1>5

\* No step kills before the deadline.
LEMMA NextDeadline == ASSUME DataOK, DeadlineInv, [Next]_vars PROVE DeadlineInv'
<1>0. /\ timeout \in Int /\ elapsed \in Nat /\ TicksPerSecond \in Nat \ {0}
      /\ poll_until \in Int /\ timeout * TicksPerSecond \in Int
  BY ProcessRunnerAssumption DEF DataOK
<1>1. timeout' = timeout /\ (Fits' <=> Fits)
  BY DEF Fits, Next, RunCommand, Spawn, SpawnFails, PollStart, PollTimesOut, Drain, PollFails,
     PollInterrupted, StopReading, WaitReturns, WaitInterrupted, Command, StartBackground, End, Write, Close, Tick, Returned,
     vars, code
<1>2. CASE PollStart
  BY <1>1, <1>2, PollDeadline DEF PollStart, DeadlineInv, NeverKilledEarly
<1>3. CASE PollTimesOut
  BY <1>0, <1>1, <1>3 DEF PollTimesOut, TimeIsUp, DeadlineInv, NeverKilledEarly
<1>4. CASE Tick
  BY <1>0, <1>1, <1>4 DEF Tick, code, DeadlineInv, NeverKilledEarly
<1>5. CASE ~PollStart /\ ~PollTimesOut /\ ~Tick
  <2>1. UNCHANGED <<elapsed, killed>> /\ (pc' = "poll" => pc = "poll" /\ poll_until' = poll_until)
    BY <1>5 DEF Next, RunCommand, Spawn, SpawnFails, Drain, PollFails, PollInterrupted,
       StopReading, WaitReturns, WaitInterrupted, Command, StartBackground, End, Write, Close, Returned,
       vars, code
  <2> QED BY <1>1, <2>1 DEF DeadlineInv, NeverKilledEarly
<1> QED BY <1>2, <1>3, <1>4, <1>5

\* A command without a time limit is never killed, and one whose limit fits an
\* int not before it is over, whatever fraction of a second the elapsed time is
\* cut by and however often a signal restarts the poll.
THEOREM KillsAreNotEarly == Spec => []NeverKilledEarly
<1>1. Init => DeadlineInv
  BY DEF Init, DeadlineInv, NeverKilledEarly
<1>2. TypeOK /\ DeadlineInv /\ [Next]_vars => DeadlineInv'
  BY NextDeadline DEF TypeOK
<1>3. DeadlineInv => NeverKilledEarly
  BY DEF DeadlineInv
<1> QED BY <1>1, <1>2, <1>3, RunTypeCorrect, PTL DEF Spec

\* No step makes the status say more than is known.
LEMMA NextStatus == ASSUME DataOK, StatusInv, [Next]_vars PROVE StatusInv'
<1> USE DEF Procs
<1>1. CASE Spawn
  BY <1>1 DEF Spawn, StatusInv, StatusIsTrue, DataOK, Alive
<1>2. CASE PollTimesOut
  BY <1>2 DEF PollTimesOut, KilledByGroup, StatusInv, StatusIsTrue, DataOK, Alive
<1>3. CASE WaitReturns
  BY <1>3 DEF WaitReturns, Result, StatusInv, StatusIsTrue, DataOK, Alive
<1>4. CASE SpawnFails
  BY <1>4 DEF SpawnFails, StatusInv, StatusIsTrue, DataOK, Alive
<1>5. CASE WaitInterrupted
  BY <1>5 DEF WaitInterrupted, Result, StatusInv, StatusIsTrue, DataOK, Alive
<1>6. CASE PollStart \/ Drain \/ PollFails \/ PollInterrupted \/ StopReading \/ Tick \/ Returned \/ UNCHANGED vars
      \/ \E p \in Procs, s \in Streams : Write(p, s) \/ Close(p, s)
  BY <1>6 DEF PollStart, Drain, PollFails, PollInterrupted, StopReading, Tick, Returned, Write, Close, vars, code,
     StatusInv, StatusIsTrue, Alive
<1>7. CASE StartBackground
  BY <1>7 DEF StartBackground, code, StatusInv, StatusIsTrue, DataOK, Alive
<1>8. ASSUME NEW p \in Procs, End(p) PROVE StatusInv'
  BY <1>8 DEF End, code, StatusInv, StatusIsTrue, DataOK, Alive
<1> QED BY <1>1, <1>2, <1>3, <1>4, <1>5, <1>6, <1>7, <1>8 DEF Next, RunCommand, Command

\* RunResult::status can be relied on, but for a success reported after a signal
\* has cut the wait for the shell short.
THEOREM StatusIsTruthful == Spec => []StatusIsTrue
<1>1. Init => StatusInv
  BY DEF Init, StatusInv, StatusIsTrue, Alive, Procs
<1>2. TypeOK /\ StatusInv /\ [Next]_vars => StatusInv'
  BY NextStatus DEF TypeOK
<1>3. StatusInv => StatusIsTrue
  BY DEF StatusInv
<1> QED BY <1>1, <1>2, <1>3, RunTypeCorrect, PTL DEF Spec

\* One read of each ready stream.
LEMMA DrainStreams == ASSUME DataOK, StreamInv, Drain PROVE StreamInv'
<1>1. PICK n \in [Streams -> 0 .. PipeSize] :
        /\ \A s \in Streams : IF Ready(s) /\ pipe[s] > 0 THEN n[s] \in 1 .. pipe[s]
                                                         ELSE n[s] = 0
        /\ pipe' = [s \in Streams |-> pipe[s] - n[s]]
        /\ captured' = [s \in Streams |-> Appended(s, n[s])]
        /\ truncated' = truncated \cup {s \in Streams : n[s] > 0 /\ Overflows(s, n[s])}
        /\ reading' = {s \in reading : Ready(s) => n[s] > 0 /\ ~Overflows(s, n[s])}
  BY DEF Drain
<1>2. ASSUME NEW s \in Streams
      PROVE  /\ s \in reading' => s \notin truncated' /\ captured'[s] + pipe'[s] = written[s]
             /\ s \notin reading' /\ s \notin truncated' => captured'[s] = written[s] /\ ~Open(s)
             /\ s \in truncated' => captured'[s] = Cap /\ written[s] > Cap
  <2>1. /\ pipe[s] \in Nat /\ captured[s] \in Nat /\ written[s] \in Nat /\ n[s] \in Nat
        /\ Cap \in Nat /\ captured[s] <= Cap
    BY <1>1, ProcessRunnerAssumption DEF DataOK
  <2>2. /\ pipe'[s] = pipe[s] - n[s] /\ captured'[s] = Appended(s, n[s])
        /\ s \in truncated' <=> s \in truncated \/ (n[s] > 0 /\ Overflows(s, n[s]))
        /\ s \in reading' <=> s \in reading /\ (Ready(s) => n[s] > 0 /\ ~Overflows(s, n[s]))
    BY <1>1
  <2>3. CASE s \notin reading
    <3>1. n[s] = 0
      BY <1>1, <2>3 DEF Ready
    <3>2. captured'[s] = captured[s] /\ (s \in truncated' <=> s \in truncated) /\ s \notin reading'
      BY <2>1, <2>2, <2>3, <3>1 DEF Appended, Overflows
    <3> QED BY <2>3, <3>2 DEF StreamInv
  <2>4. CASE s \in reading
    <3>1. s \notin truncated /\ captured[s] + pipe[s] = written[s]
      BY <2>4 DEF StreamInv
    <3>2. CASE n[s] = 0
      <4>1. captured'[s] = captured[s] /\ pipe'[s] = pipe[s] /\ s \notin truncated'
        BY <2>1, <2>2, <3>1, <3>2 DEF Appended, Overflows
      <4>2. s \notin reading' => pipe[s] = 0 /\ ~Open(s)
        BY <1>1, <2>1, <2>2, <2>4, <3>2 DEF Ready
      <4> QED BY <2>1, <3>1, <4>1, <4>2
    <3>3. CASE n[s] > 0
      <4>1. n[s] <= pipe[s] /\ Ready(s)
        BY <1>1, <2>1, <3>3
      <4>2. CASE Overflows(s, n[s])
        <5>1. s \notin reading' /\ s \in truncated' /\ captured'[s] = Cap
          BY <2>2, <3>3, <4>1, <4>2 DEF Appended
        <5>2. written[s] > Cap
          BY <2>1, <3>1, <4>1, <4>2 DEF Overflows
        <5> QED BY <5>1, <5>2
      <4>3. CASE ~Overflows(s, n[s])
        <5>1. s \in reading' /\ s \notin truncated' /\ captured'[s] = captured[s] + n[s]
          BY <2>2, <2>4, <3>1, <3>3, <4>3 DEF Appended
        <5> QED BY <2>1, <2>2, <3>1, <5>1
      <4> QED BY <4>2, <4>3
    <3> QED BY <2>1, <3>2, <3>3
  <2> QED BY <2>3, <2>4
<1>3. UNCHANGED <<written, holds, proc, broken>> /\ pc' = "loop"
  BY DEF Drain
<1> QED BY <1>2, <1>3 DEF StreamInv, Open

\* No step loses track of what a stream has given.
LEMMA NextStreams == ASSUME DataOK, StreamInv, [Next]_vars PROVE StreamInv'
<1>1. CASE Spawn
  <2>1. reading' = reading /\ truncated' = truncated /\ pc' = "loop" /\ broken' = broken
        /\ UNCHANGED <<captured, pipe, written>>
    BY <1>1 DEF Spawn
  <2>2. reading = Streams
    BY <1>1 DEF Spawn, StreamInv
  <2>3. \A p \in Procs : proc'[p] = "none" => holds'[p] = {}
    BY <1>1 DEF Spawn, StreamInv, DataOK, Procs
  <2> QED BY <2>1, <2>2, <2>3 DEF StreamInv
<1>2. CASE SpawnFails \/ PollStart \/ PollFails \/ PollInterrupted \/ StopReading \/ WaitReturns
           \/ WaitInterrupted \/ Tick \/ Returned \/ UNCHANGED vars
  BY <1>2 DEF SpawnFails, PollStart, PollFails, PollInterrupted, StopReading, WaitReturns,
     WaitInterrupted, Tick, Returned,
     vars, code, StreamInv, Open
<1>3. CASE PollTimesOut
  <2>1. \A s \in Streams : Open(s)' => Open(s)
    BY <1>3 DEF PollTimesOut, Open, DataOK
  <2>2. \A p \in Procs : proc'[p] = "none" => holds'[p] = {}
    BY <1>3 DEF PollTimesOut, StreamInv, DataOK
  <2> QED BY <1>3, <2>1, <2>2 DEF PollTimesOut, StreamInv
<1>4. ASSUME NEW p \in Procs, NEW s \in Streams, Write(p, s) PROVE StreamInv'
  <2>1. /\ pipe'[s] = pipe[s] + 1 /\ written'[s] = written[s] + 1
        /\ \A r \in Streams \ {s} : pipe'[r] = pipe[r] /\ written'[r] = written[r]
        /\ UNCHANGED <<pc, broken, reading, truncated, captured, proc, holds>>
        /\ pc \in {"loop", "poll"} /\ Open(s)
    BY <1>4 DEF Write, DataOK, code, Open
  <2>2. \A r \in Streams : pipe[r] \in Nat /\ written[r] \in Nat /\ captured[r] \in Nat
    BY DEF DataOK
  <2>3. Cap \in Nat
    BY ProcessRunnerAssumption
  <2>4. \A r \in Streams : Open(r)' <=> Open(r)
    BY <2>1 DEF Open
  <2>5. \A r \in Streams :
          /\ r \in reading' => r \notin truncated' /\ captured'[r] + pipe'[r] = written'[r]
          /\ r \notin reading' /\ r \notin truncated' => captured'[r] = written'[r] /\ ~Open(r)'
          /\ r \in truncated' => captured'[r] = Cap /\ written'[r] > Cap
    BY <2>1, <2>2, <2>3, <2>4 DEF StreamInv
  <2> QED BY <2>1, <2>5 DEF StreamInv
<1>5. ASSUME NEW p \in Procs, (\E s \in Streams : Close(p, s)) \/ End(p) PROVE StreamInv'
  <2>1. /\ UNCHANGED <<pc, broken, reading, truncated, captured, pipe, written>>
        /\ Alive(p) /\ pc # "spawn"
    BY <1>5 DEF Close, End, code, StreamInv, Alive
  <2>2. \A s \in Streams : Open(s)' => Open(s)
    BY <1>5 DEF Close, End, Open, DataOK
  <2>3. \A q \in Procs : proc'[q] = "none" => holds'[q] = {}
    BY <1>5 DEF Close, End, Alive, StreamInv, DataOK
  <2> QED BY <2>1, <2>2, <2>3 DEF StreamInv
<1>6. CASE StartBackground
  <2>1. /\ UNCHANGED <<pc, broken, reading, truncated, captured, pipe, written>>
        /\ pc # "spawn"
    BY <1>6 DEF StartBackground, code, StreamInv, Alive, Procs
  <2>2. \A s \in Streams : Open(s)' => Open(s)
    BY <1>6 DEF StartBackground, Open, DataOK, Procs
  <2>3. \A q \in Procs : proc'[q] = "none" => holds'[q] = {}
    BY <1>6 DEF StartBackground, Alive, StreamInv, DataOK, Procs
  <2> QED BY <2>1, <2>2, <2>3 DEF StreamInv
<1> QED BY <1>1, <1>2, <1>3, <1>4, <1>5, <1>6, DrainStreams DEF Next, RunCommand, Command

\* The captured output is complete, or cut at the cap and flagged.
THEOREM CapturesAreExact == Spec => []CaptureIsExact
<1>1. Init => StreamInv
  BY DEF Init, StreamInv, Open, Streams, Procs
<1>2. TypeOK /\ StreamInv /\ [Next]_vars => StreamInv'
  BY NextStreams DEF TypeOK
<1>3. TypeOK /\ StreamInv => CaptureIsExact
  <2> SUFFICES ASSUME DataOK, StreamInv, pc = "returned", ~broken, NEW s \in Streams
               PROVE  /\ s \in truncated => captured[s] = Cap /\ written[s] > Cap
                      /\ s \notin truncated => captured[s] = written[s]
    BY DEF CaptureIsExact, TypeOK
  <2>1. captured[s] \in Nat /\ pipe[s] \in Nat /\ written[s] \in Nat
    BY DEF DataOK
  <2> QED BY <2>1 DEF StreamInv
<1> QED BY <1>1, <1>2, <1>3, RunTypeCorrect, PTL DEF Spec
==============================================================================

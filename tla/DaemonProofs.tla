----------------------------- MODULE DaemonProofs -----------------------------
(***************************************************************************)
(* What holds of the process and its connections for any number of         *)
(* clients: the safety properties of Daemon.tla.                           *)
(***************************************************************************)
EXTENDS Daemon, TLAPS

\* What the monitor's thread and its handle are like at each place of main.
MonitorInv ==
  /\ pc \in {"boot", "bound", "ready"} =>
       mon = "none" /\ ~joinable /\ ~watching /\ quit = "no"
  /\ pc \in {"sample", "stop_monitor"} =>
       quit = "no" /\ mon \notin {"none", "end"} /\ (~watching => mon = "failed")
  /\ pc = "await_loop" => quit = "no" /\ mon # "none"
  /\ pc = "join_monitor" => mon # "none"
  /\ pc \in {"stop_server", "join_server", "close", "unlink", "stop_scheduler", "return"} =>
       mon \in {"end", "failed"} /\ (joinable => mon = "failed")
  /\ AbortOnlyIfInert
  /\ pc \in Ended => ~joinable /\ ~watching /\ quit = "no" /\ mon \in {"none", "end", "failed"}

\* What the accept thread and the socket are like at each place of main.
ServerInv ==
  /\ pc \in Ended \cup {"boot"} => srv = "none"
  /\ running => srv # "none"
  /\ srv # "none" /\ ~running =>
       pc \in {"join_server", "close", "unlink", "stop_scheduler", "return"}
  /\ pc \in {"join_server", "close", "unlink"} => srv # "none"
  /\ pc \in {"close", "unlink", "stop_scheduler", "return"} => srv \in {"none", "done"}
  /\ path = "live" <=> (srv # "none" /\ pc \notin {"unlink", "stop_scheduler", "return"})
  /\ path # "live" => queue = <<>>
  /\ pc \in {"stop_scheduler", "return"} /\ srv # "none" => path = "none"

Inv == TypeOK /\ MonitorInv /\ ServerInv /\ NoLostConnection

\* TypeOK in two parts: the flags, and the rest.
FlagsOK == /\ g_stop \in BOOLEAN /\ busy \in BOOLEAN /\ running \in BOOLEAN
           /\ watching \in BOOLEAN /\ joinable \in BOOLEAN
DataOK ==
  /\ pc \in MainPcs /\ path \in {"none", "live", "stale"}
  /\ srv \in {"none", "poll", "read", "handle", "write", "done"}
  /\ serving \in Clients \cup {Nobody}
  /\ serving = Nobody <=> srv \in {"none", "poll", "done"}
  /\ queue \in Seq(Clients)
  /\ client \in [Clients -> Connection]
  /\ mon \in {"none", "register", "loaded", "run", "callback", "end", "failed"}
  /\ quit \in {"no", "asked", "late"}

LEMMA TypeParts == TypeOK <=> FlagsOK /\ DataOK
  BY Zenon DEF TypeOK, FlagsOK, DataOK

LEMMA ClosedType ==
  ASSUME DataOK, NEW c \in Clients, NEW out \in {"reply", "cut"}
  PROVE  Closed(c, out) \in Connection
  BY DEF DataOK, Closed, Connection

LEMMA InitInv == Init => Inv
PROOF
<1> SUFFICES ASSUME Init PROVE Inv
  OBVIOUS
<1>1. FlagsOK
  BY Zenon DEF Init, FlagsOK
<1>2. DataOK
  BY DEF Init, DataOK, MainPcs, Fresh, Connection
<1>3. MonitorInv /\ ServerInv
  BY DEF Init, MonitorInv, ServerInv, AbortOnlyIfInert, Ended
<1>4. NoLostConnection
  BY DaemonAssumption DEF Init, NoLostConnection, Fresh
<1> QED BY <1>1, <1>2, <1>3, <1>4, TypeParts DEF Inv

\* Types are kept: the flags.
LEMMA FlagsStep == ASSUME FlagsOK, [Next]_vars PROVE FlagsOK'
PROOF
<1> USE DaemonAssumption DEF FlagsOK, mainVars, serverVars, monVars
<1>1. CASE BootFails
  BY Zenon, <1>1 DEF BootFails, ProcessEnds
<1>2. CASE StartServer
  BY Zenon, <1>2 DEF StartServer
<1>3. CASE InstallSignalHandlers
  BY Zenon, <1>3 DEF InstallSignalHandlers
<1>4. CASE StartMonitor
  BY Zenon, <1>4 DEF StartMonitor
<1>5. CASE SamplerReturns
  BY Zenon, <1>5 DEF SamplerReturns
<1>6. CASE StopMonitor
  BY Zenon, <1>6 DEF StopMonitor
<1>7. CASE AwaitLoop
  BY Zenon, <1>7 DEF AwaitLoop
<1>8. CASE JoinMonitor
  BY Zenon, <1>8 DEF JoinMonitor
<1>9. CASE StopServer
  BY Zenon, <1>9 DEF StopServer
<1>10. CASE JoinServer
  BY Zenon, <1>10 DEF JoinServer
<1>11. CASE CloseSocket
  BY Zenon, <1>11 DEF CloseSocket
<1>12. CASE UnlinkSocket
  BY Zenon, <1>12 DEF UnlinkSocket
<1>13. CASE StopScheduler
  BY Zenon, <1>13 DEF StopScheduler
<1>14. CASE Return
  BY Zenon, <1>14 DEF Return, ProcessEnds
<1>15. CASE Signal
  BY Zenon, <1>15 DEF Signal, ProcessEnds
<1>16. CASE Crash
  BY Zenon, <1>16 DEF Crash, ProcessEnds
<1>17. CASE StartAgain
  BY Zenon, <1>17 DEF StartAgain
<1>18. CASE AcceptLoop
  BY Zenon, <1>18 DEF AcceptLoop
<1>19. CASE PollFails
  BY Zenon, <1>19 DEF PollFails
<1>20. CASE Read
  BY Zenon, <1>20 DEF Read, CloseConnection
<1>21. CASE Handle
  BY Zenon, <1>21 DEF Handle
<1>22. CASE Write
  BY Zenon, <1>22 DEF Write, ProcessEnds, CloseConnection
<1>23. CASE Register
  BY Zenon, <1>23 DEF Register
<1>24. CASE RunLoop
  BY Zenon, <1>24 DEF RunLoop
<1>25. CASE PowerCallback
  BY Zenon, <1>25 DEF PowerCallback
<1>26. CASE TearDown
  BY Zenon, <1>26 DEF TearDown
<1>27. ASSUME NEW c \in Clients, Connect(c) \/ Send(c) \/ HangUp(c) PROVE FlagsOK'
  BY Zenon, <1>27 DEF Connect, Send, HangUp
<1>28. CASE JobStarts \/ JobEnds
  BY Zenon, <1>28 DEF JobStarts, JobEnds
<1>29. CASE UNCHANGED vars
  <2>1. UNCHANGED mainVars /\ UNCHANGED serverVars /\ UNCHANGED monVars
    BY Zenon, <1>29 DEF vars
  <2>2. g_stop' = g_stop /\ busy' = busy
    BY Zenon, <2>1
  <2>3. running' = running
    BY Zenon, <2>1
  <2>4. watching' = watching /\ joinable' = joinable
    BY Zenon, <2>1
  <2> QED BY Zenon, <2>2, <2>3, <2>4
<1> QED BY <1>1, <1>2, <1>3, <1>4, <1>5, <1>6, <1>7, <1>8, <1>9, <1>10, <1>11, <1>12,
           <1>13, <1>14, <1>15, <1>16, <1>17, <1>18, <1>19, <1>20, <1>21, <1>22, <1>23, <1>24, <1>25, <1>26, <1>27, <1>28,
           <1>29 DEF Next, MainStep

\* Types are kept: the rest.
LEMMA DataStep == ASSUME DataOK, ServerInv, [Next]_vars PROVE DataOK'
PROOF
<1> USE DaemonAssumption DEF DataOK, mainVars, serverVars, monVars, Ended, MainPcs, Fresh
<1>1. CASE BootFails
  BY <1>1, ClosedType DEF BootFails, ProcessEnds
<1>2. CASE StartServer
  <2>1. /\ pc' = "bound" /\ serving' = serving /\ queue' = queue /\ client' = client
        /\ mon' = mon /\ quit' = quit /\ srv = "none"
    BY <1>2 DEF StartServer, ServerInv
  <2>2. path' \in {"none", "live", "stale"} /\ srv' \in {"none", "poll"}
    BY Zenon, <1>2, <2>1 DEF StartServer
  <2> QED BY <2>1, <2>2
<1>3. CASE InstallSignalHandlers
  BY <1>3 DEF InstallSignalHandlers
<1>4. CASE StartMonitor
  BY <1>4 DEF StartMonitor
<1>5. CASE SamplerReturns
  BY <1>5 DEF SamplerReturns
<1>6. CASE StopMonitor
  BY <1>6 DEF StopMonitor
<1>7. CASE AwaitLoop
  BY <1>7 DEF AwaitLoop
<1>8. CASE JoinMonitor
  BY <1>8 DEF JoinMonitor
<1>9. CASE StopServer
  BY <1>9 DEF StopServer
<1>10. CASE JoinServer
  BY <1>10 DEF JoinServer
<1>11. CASE CloseSocket
  BY <1>11, ClosedType DEF CloseSocket
<1>12. CASE UnlinkSocket
  BY <1>12 DEF UnlinkSocket
<1>13. CASE StopScheduler
  BY <1>13 DEF StopScheduler
<1>14. CASE Return
  BY <1>14, ClosedType DEF Return, ProcessEnds
<1>15. CASE Signal
  <2>1. CASE Installed
    BY <1>15, <2>1 DEF Signal
  <2>2. CASE ~Installed
    BY <1>15, <2>2, ClosedType DEF Signal, ProcessEnds
  <2> QED BY <2>1, <2>2
<1>16. CASE Crash
  BY <1>16, ClosedType DEF Crash, ProcessEnds, Up
<1>17. CASE StartAgain
  BY <1>17 DEF StartAgain
<1>18. CASE AcceptLoop
  BY <1>18 DEF AcceptLoop
<1>19. CASE PollFails
  BY <1>19 DEF PollFails
<1>20. CASE Read
  <2>1. CASE srv' = "handle" /\ UNCHANGED <<serving, client>>
    BY <1>20, <2>1 DEF Read
  <2>2. CASE CloseConnection("cut")
    <3>1. serving \in Clients /\ Closed(serving, "cut") \in Connection
      BY <1>20, ClosedType DEF Read
    <3> QED BY <1>20, <2>2, <3>1 DEF Read, CloseConnection
  <2> QED BY <1>20, <2>1, <2>2 DEF Read
<1>21. CASE Handle
  BY <1>21 DEF Handle
<1>22. CASE Write
  <2>1. CASE ProcessEnds("dead") /\ mon' = "none"
    BY <2>1, ClosedType DEF ProcessEnds
  <2>2. CASE CloseConnection("reply") /\ UNCHANGED <<mainVars, path, running, queue, monVars>>
    <3>1. serving \in Clients /\ Closed(serving, "reply") \in Connection
      BY <1>22, ClosedType DEF Write
    <3> QED BY <2>2, <3>1 DEF CloseConnection
  <2> QED BY <1>22, <2>1, <2>2 DEF Write
<1>23. CASE Register
  BY <1>23 DEF Register
<1>24. CASE RunLoop
  BY <1>24 DEF RunLoop
<1>25. CASE PowerCallback
  BY <1>25 DEF PowerCallback
<1>26. CASE TearDown
  BY <1>26 DEF TearDown
<1>27. ASSUME NEW c \in Clients, Connect(c) \/ Send(c) \/ HangUp(c) PROVE DataOK'
  <2>1. CASE Connect(c)
    <3>1. Fresh("open", "none") \in Connection /\ Fresh("off", "error") \in Connection
      BY DEF Connection
    <3>2. Append(queue, c) \in Seq(Clients)
      OBVIOUS
    <3> HIDE DEF Fresh
    <3> QED BY SMTT(30), <2>1, <3>1, <3>2 DEF Connect
  <2>2. CASE Send(c)
    <3>1. PICK text \in {"line", "long"} : client' = [client EXCEPT ![c].sent = text]
      BY ZenonT(30), <2>2 DEF Send
    <3>2. client' \in [Clients -> Connection]
      BY <3>1 DEF Connection
    <3> QED BY <2>2, <3>2 DEF Send
  <2>3. CASE HangUp(c)
    BY <2>3 DEF HangUp, Connection
  <2> QED BY <1>27, <2>1, <2>2, <2>3
<1>28. CASE JobStarts \/ JobEnds
  BY <1>28 DEF JobStarts, JobEnds
<1>29. CASE UNCHANGED vars
  BY <1>29 DEF vars, serverVars
<1> QED BY SMTT(30), <1>1, <1>2, <1>3, <1>4, <1>5, <1>6, <1>7, <1>8, <1>9, <1>10,
           <1>11, <1>12,
           <1>13, <1>14, <1>15, <1>16, <1>17, <1>18, <1>19, <1>20, <1>21, <1>22, <1>23, <1>24, <1>25, <1>26, <1>27, <1>28,
           <1>29 DEF Next, MainStep

\* The facts about the monitor are kept.
LEMMA MonitorStep == ASSUME FlagsOK, MonitorInv, [Next]_vars PROVE MonitorInv'
PROOF
<1> USE DaemonAssumption DEF FlagsOK, MonitorInv, AbortOnlyIfInert, mainVars, serverVars, monVars, Ended
<1>1. CASE BootFails
  BY <1>1 DEF BootFails, ProcessEnds, Closed
<1>2. CASE StartServer
  BY <1>2 DEF StartServer
<1>3. CASE InstallSignalHandlers
  BY <1>3 DEF InstallSignalHandlers
<1>4. CASE StartMonitor
  BY <1>4 DEF StartMonitor
<1>5. CASE SamplerReturns
  BY <1>5 DEF SamplerReturns
<1>6. CASE StopMonitor
  BY <1>6 DEF StopMonitor
<1>7. CASE AwaitLoop
  BY <1>7 DEF AwaitLoop
<1>8. CASE JoinMonitor
  BY <1>8 DEF JoinMonitor
<1>9. CASE StopServer
  BY <1>9 DEF StopServer
<1>10. CASE JoinServer
  BY <1>10 DEF JoinServer
<1>11. CASE CloseSocket
  BY <1>11 DEF CloseSocket, Closed
<1>12. CASE UnlinkSocket
  BY <1>12 DEF UnlinkSocket
<1>13. CASE StopScheduler
  BY <1>13 DEF StopScheduler
<1>14. CASE Return
  BY <1>14 DEF Return, ProcessEnds, Closed
<1>15. CASE Signal
  BY <1>15 DEF Signal, ProcessEnds, Closed, Installed, Up
<1>16. CASE Crash
  BY <1>16 DEF Crash, ProcessEnds, Closed, Up
<1>17. CASE StartAgain
  BY <1>17 DEF StartAgain
<1>18. CASE AcceptLoop
  BY <1>18 DEF AcceptLoop
<1>19. CASE PollFails
  BY <1>19 DEF PollFails
<1>20. CASE Read
  BY <1>20 DEF Read, Closed, CloseConnection
<1>21. CASE Handle
  BY <1>21 DEF Handle
<1>22. CASE Write
  BY <1>22 DEF Write, ProcessEnds, Closed, CloseConnection, Installed
<1>23. CASE Register
  BY <1>23 DEF Register
<1>24. CASE RunLoop
  BY <1>24 DEF RunLoop
<1>25. CASE PowerCallback
  BY <1>25 DEF PowerCallback
<1>26. CASE TearDown
  BY <1>26 DEF TearDown
<1>27. ASSUME NEW c \in Clients, Connect(c) \/ Send(c) \/ HangUp(c) PROVE MonitorInv'
  BY <1>27 DEF Connect, Send, HangUp
<1>28. CASE JobStarts \/ JobEnds
  BY <1>28 DEF JobStarts, JobEnds
<1>29. CASE UNCHANGED vars
  BY SMTT(30), <1>29 DEF vars, serverVars
<1> QED BY Zenon, <1>1, <1>2, <1>3, <1>4, <1>5, <1>6, <1>7, <1>8, <1>9, <1>10, <1>11,
           <1>12,
           <1>13, <1>14, <1>15, <1>16, <1>17, <1>18, <1>19, <1>20, <1>21, <1>22, <1>23, <1>24, <1>25, <1>26, <1>27, <1>28,
           <1>29 DEF Next, MainStep

\* The facts about the accept thread are kept.
LEMMA ServerStep == ASSUME FlagsOK, DataOK, ServerInv, [Next]_vars PROVE ServerInv'
PROOF
<1> USE DaemonAssumption DEF FlagsOK, DataOK, ServerInv, mainVars, serverVars, monVars, Ended
<1>1. CASE BootFails
  BY <1>1 DEF BootFails, ProcessEnds, Closed
<1>2. CASE StartServer
  BY <1>2 DEF StartServer
<1>3. CASE InstallSignalHandlers
  BY <1>3 DEF InstallSignalHandlers
<1>4. CASE StartMonitor
  BY <1>4 DEF StartMonitor
<1>5. CASE SamplerReturns
  BY <1>5 DEF SamplerReturns
<1>6. CASE StopMonitor
  BY <1>6 DEF StopMonitor
<1>7. CASE AwaitLoop
  BY <1>7 DEF AwaitLoop
<1>8. CASE JoinMonitor
  BY <1>8 DEF JoinMonitor
<1>9. CASE StopServer
  BY <1>9 DEF StopServer
<1>10. CASE JoinServer
  BY <1>10 DEF JoinServer
<1>11. CASE CloseSocket
  BY <1>11 DEF CloseSocket, Closed
<1>12. CASE UnlinkSocket
  BY <1>12 DEF UnlinkSocket
<1>13. CASE StopScheduler
  BY <1>13 DEF StopScheduler
<1>14. CASE Return
  BY <1>14 DEF Return, ProcessEnds, Closed
<1>15. CASE Signal
  BY <1>15 DEF Signal, ProcessEnds, Closed, Installed, Up
<1>16. CASE Crash
  BY <1>16 DEF Crash, ProcessEnds, Closed, Up
<1>17. CASE StartAgain
  BY <1>17 DEF StartAgain
<1>18. CASE AcceptLoop
  BY <1>18 DEF AcceptLoop
<1>19. CASE PollFails
  BY <1>19 DEF PollFails
<1>20. CASE Read
  BY <1>20 DEF Read, Closed, CloseConnection
<1>21. CASE Handle
  BY <1>21 DEF Handle
<1>22. CASE Write
  BY <1>22 DEF Write, ProcessEnds, Closed, CloseConnection, Installed
<1>23. CASE Register
  BY <1>23 DEF Register
<1>24. CASE RunLoop
  BY <1>24 DEF RunLoop
<1>25. CASE PowerCallback
  BY <1>25 DEF PowerCallback
<1>26. CASE TearDown
  BY <1>26 DEF TearDown
<1>27. ASSUME NEW c \in Clients, Connect(c) \/ Send(c) \/ HangUp(c) PROVE ServerInv'
  BY <1>27 DEF Connect, Send, HangUp
<1>28. CASE JobStarts \/ JobEnds
  BY <1>28 DEF JobStarts, JobEnds
<1>29. CASE UNCHANGED vars
  BY SMTT(30), <1>29 DEF vars, serverVars
<1> QED BY ZenonT(30), <1>1, <1>2, <1>3, <1>4, <1>5, <1>6, <1>7, <1>8, <1>9, <1>10,
           <1>11, <1>12,
           <1>13, <1>14, <1>15, <1>16, <1>17, <1>18, <1>19, <1>20, <1>21, <1>22, <1>23, <1>24, <1>25, <1>26, <1>27, <1>28,
           <1>29 DEF Next, MainStep

\* Connections are kept track of.
LEMMA ConnectionStep == ASSUME DataOK, ServerInv, NoLostConnection, [Next]_vars PROVE NoLostConnection'
PROOF
<1> USE DaemonAssumption DEF DataOK, NoLostConnection, mainVars, serverVars, monVars, Fresh
<1>1. CASE BootFails
  BY <1>1 DEF BootFails, ProcessEnds, Closed
<1>2. CASE StartServer
  BY <1>2 DEF StartServer
<1>3. CASE InstallSignalHandlers
  BY <1>3 DEF InstallSignalHandlers
<1>4. CASE StartMonitor
  BY <1>4 DEF StartMonitor
<1>5. CASE SamplerReturns
  BY <1>5 DEF SamplerReturns
<1>6. CASE StopMonitor
  BY <1>6 DEF StopMonitor
<1>7. CASE AwaitLoop
  BY <1>7 DEF AwaitLoop
<1>8. CASE JoinMonitor
  BY <1>8 DEF JoinMonitor
<1>9. CASE StopServer
  BY <1>9 DEF StopServer
<1>10. CASE JoinServer
  BY <1>10 DEF JoinServer
<1>11. CASE CloseSocket
  BY <1>11 DEF CloseSocket, Closed
<1>12. CASE UnlinkSocket
  BY <1>12 DEF UnlinkSocket
<1>13. CASE StopScheduler
  BY <1>13 DEF StopScheduler
<1>14. CASE Return
  BY <1>14 DEF Return, ProcessEnds, Closed
<1>15. CASE Signal
  BY <1>15 DEF Signal, ProcessEnds, Closed, Installed, Up
<1>16. CASE Crash
  BY <1>16 DEF Crash, ProcessEnds, Closed, Up
<1>17. CASE StartAgain
  BY <1>17 DEF StartAgain
<1>18. CASE AcceptLoop
  <2>1. CASE running /\ queue # <<>>
    <3>1. /\ serving' = Head(queue) /\ queue' = Tail(queue) /\ client' = client /\ serving = Nobody
      BY <1>18, <2>1 DEF AcceptLoop
    <3>2. /\ Len(queue) \in Nat \ {0} /\ DOMAIN queue = 1..Len(queue) /\ Head(queue) = queue[1]
          /\ DOMAIN Tail(queue) = 1..(Len(queue) - 1)
          /\ \A k \in 1..(Len(queue) - 1) : Tail(queue)[k] = queue[k + 1]
          /\ Head(queue) \in Clients
      BY <2>1
    <3>3. \A c \in Clients : (\E k \in DOMAIN queue : queue[k] = c) <=>
             (Head(queue) = c \/ \E k \in DOMAIN Tail(queue) : Tail(queue)[k] = c)
      <4> TAKE c \in Clients
      <4>1. ASSUME NEW k \in DOMAIN queue, queue[k] = c, Head(queue) # c
            PROVE  k - 1 \in DOMAIN Tail(queue) /\ Tail(queue)[k - 1] = c
        BY <4>1, <3>2
      <4>2. ASSUME NEW k \in DOMAIN Tail(queue), Tail(queue)[k] = c
            PROVE  k + 1 \in DOMAIN queue /\ queue[k + 1] = c
        BY <4>2, <3>2
      <4>3. ASSUME NEW k \in DOMAIN queue, queue[k] = c
            PROVE  Head(queue) = c \/ \E m \in DOMAIN Tail(queue) : Tail(queue)[m] = c
        BY <4>3, <4>1
      <4>4. ASSUME Head(queue) = c PROVE \E k \in DOMAIN queue : queue[k] = c
        BY <4>4, <3>2
      <4> QED BY <4>2, <4>3, <4>4
    <3>4. \A i, k \in DOMAIN Tail(queue) : Tail(queue)[i] = Tail(queue)[k] => i = k
      <4> TAKE i, k \in DOMAIN Tail(queue)
      <4>1. i + 1 \in DOMAIN queue /\ k + 1 \in DOMAIN queue /\ queue[i + 1] \in Clients
        BY <3>2
      <4> QED BY <4>1, <3>2
    <3>5. \A k \in DOMAIN Tail(queue) : Tail(queue)[k] # Head(queue)
      <4> TAKE k \in DOMAIN Tail(queue)
      <4>1. k + 1 \in DOMAIN queue /\ 1 \in DOMAIN queue /\ k + 1 # 1
        BY <3>2
      <4> QED BY <4>1, <3>2
    <3> QED BY SMTT(30), <3>1, <3>2, <3>3, <3>4, <3>5
  <2>2. CASE UNCHANGED <<serving, queue, client>>
    BY <2>2
  <2> QED BY <1>18, <2>1, <2>2 DEF AcceptLoop
<1>19. CASE PollFails
  BY <1>19 DEF PollFails
<1>20. CASE Read
  BY <1>20 DEF Read, Closed, CloseConnection
<1>21. CASE Handle
  BY <1>21 DEF Handle
<1>22. CASE Write
  BY <1>22 DEF Write, ProcessEnds, Closed, CloseConnection, Installed
<1>23. CASE Register
  BY <1>23 DEF Register
<1>24. CASE RunLoop
  BY <1>24 DEF RunLoop
<1>25. CASE PowerCallback
  BY <1>25 DEF PowerCallback
<1>26. CASE TearDown
  BY SMTT(30), <1>26 DEF TearDown
<1>27. ASSUME NEW c \in Clients, Connect(c) \/ Send(c) \/ HangUp(c) PROVE NoLostConnection'
  <2>1. CASE Connect(c) /\ path = "live" /\ Len(queue) < Backlog
    <3>1. /\ client' = [client EXCEPT ![c] = Fresh("open", "none")] /\ queue' = Append(queue, c)
          /\ serving' = serving /\ client[c].conn = "off"
      BY SMTT(30), <2>1 DEF Connect
    <3>2. /\ DOMAIN queue' = 1..(Len(queue) + 1) /\ DOMAIN queue = 1..Len(queue)
          /\ Len(queue) \in Nat /\ queue'[Len(queue) + 1] = c
          /\ \A k \in DOMAIN queue : queue'[k] = queue[k]
      BY SMTT(30), <3>1
    <3>3. \A d \in Clients : (\E k \in DOMAIN queue' : queue'[k] = d) <=>
             (c = d \/ \E k \in DOMAIN queue : queue[k] = d)
      BY SMTT(30), <3>2
    <3>4. serving # c /\ \A k \in DOMAIN queue : queue[k] # c
      BY <3>1
    <3>5. \A d \in Clients : client'[d].conn = IF d = c THEN "open" ELSE client[d].conn
      BY SMTT(30), <3>1
    <3> QED BY SMTT(30), <3>1, <3>2, <3>3, <3>4, <3>5
  <2>2. CASE Connect(c) /\ ~(path = "live" /\ Len(queue) < Backlog)
    BY <2>2 DEF Connect
  <2>3. CASE Send(c)
    <3>1. PICK text : client' = [client EXCEPT ![c].sent = text]
      BY Zenon, <2>3 DEF Send
    <3>2. \A d \in Clients : client'[d].conn = client[d].conn
      BY <3>1 DEF Connection
    <3> QED BY <2>3, <3>2 DEF Send
  <2>4. CASE HangUp(c)
    <3>1. \A d \in Clients : client'[d].conn = IF d = c THEN "hungup" ELSE client[d].conn
      BY <2>4 DEF HangUp, Connection
    <3> QED BY <2>4, <3>1 DEF HangUp
  <2> QED BY SMTT(30), <1>27, <2>1, <2>2, <2>3, <2>4
<1>28. CASE JobStarts \/ JobEnds
  BY <1>28 DEF JobStarts, JobEnds
<1>29. CASE UNCHANGED vars
  BY <1>29 DEF vars, serverVars
<1> QED BY ZenonT(30), <1>1, <1>2, <1>3, <1>4, <1>5, <1>6, <1>7, <1>8, <1>9, <1>10,
           <1>11, <1>12,
           <1>13, <1>14, <1>15, <1>16, <1>17, <1>18, <1>19, <1>20, <1>21, <1>22, <1>23, <1>24, <1>25, <1>26, <1>27, <1>28,
           <1>29 DEF Next, MainStep

\* The invariant is inductive.
LEMMA InvStep == ASSUME Inv, [Next]_vars PROVE Inv'
PROOF
<1>1. FlagsOK /\ DataOK /\ MonitorInv /\ ServerInv /\ NoLostConnection
  BY TypeParts DEF Inv
<1>2. FlagsOK' /\ DataOK' /\ MonitorInv' /\ ServerInv' /\ NoLostConnection'
  BY <1>1, FlagsStep, DataStep, MonitorStep, ServerStep, ConnectionStep
<1>3. TypeOK'
  BY <1>2, Zenon DEF TypeOK, FlagsOK, DataOK
<1> QED BY <1>2, <1>3 DEF Inv

\* The invariant holds in every reachable state, for any number of clients.
THEOREM Inductive == Spec => []Inv
PROOF
<1>1. Inv /\ [Next]_vars => Inv'
  BY InvStep
<1> QED BY InitInv, <1>1, PTL DEF Spec

\* When Scheduler::stop is called, the accept thread and the monitor's thread
\* have returned.
THEOREM SchedulerLast == Spec => []SchedulerStopsLast
PROOF
<1>1. Inv => SchedulerStopsLast
  BY DEF Inv, MonitorInv, ServerInv, SchedulerStopsLast
<1> QED BY Inductive, <1>1, PTL

\* Between a wait for accept(), serve_connection and close, no connection is lost.
THEOREM ConnectionsKept == Spec => []NoLostConnection
PROOF
<1>1. Inv => NoLostConnection
  BY DEF Inv
<1> QED BY Inductive, <1>1, PTL

\* The socket path is what clients take it for, and a clean exit removes it and
\* leaves nobody waiting.
THEOREM PathHonest == Spec => []PathIsHonest
PROOF
<1>1. Inv => PathIsHonest
  <2> SUFFICES ASSUME Inv PROVE PathIsHonest
    OBVIOUS
  <2>1. ASSUME pc \in {"stop_scheduler", "return"}, srv # "none"
        PROVE  path = "none" /\ \A c \in Clients : client[c].conn = "off"
    <3>1. srv = "done" /\ path = "none" /\ queue = <<>>
      BY <2>1 DEF Inv, ServerInv
    <3>2. serving = Nobody
      BY <3>1 DEF Inv, TypeOK
    <3>3. \A c \in Clients : client[c].conn = "off"
      BY <3>1, <3>2, DaemonAssumption DEF Inv, NoLostConnection
    <3> QED BY <3>1, <3>3
  <2> QED BY <2>1 DEF Inv, ServerInv, PathIsHonest
<1> QED BY Inductive, <1>1, PTL

\* std::terminate at the end of main needs a monitor that could not register.
THEOREM AbortNeedsInertMonitor == Spec => []AbortOnlyIfInert
PROOF
<1>1. Inv => AbortOnlyIfInert
  BY DEF Inv, MonitorInv
<1> QED BY Inductive, <1>1, PTL

\* A request that reached the handler is answered unless its client or the
\* process goes away.
THEOREM HandledAreAnswered == Spec => HandledIsAnswered
PROOF
<1> DEFINE Kept == \A c \in Clients :
       serving = c /\ srv \in {"handle", "write"} /\ serving' # c /\ pc' \notin Ended
         => client'[c].out = "reply" \/ client[c].conn = "hungup"
<1>1. Inv /\ [Next]_vars => [Kept]_vars
  <2> SUFFICES ASSUME Inv, Next, NEW c \in Clients, serving = c, srv \in {"handle", "write"},
                      serving' # c, pc' \notin Ended, client[c].conn # "hungup"
               PROVE  client'[c].out = "reply"
    BY Zenon
  <2>1. Write
    BY DEF Next, MainStep, BootFails, StartServer, InstallSignalHandlers,
       StartMonitor,
       SamplerReturns, StopMonitor, AwaitLoop, JoinMonitor, StopServer, JoinServer, CloseSocket,
       UnlinkSocket, StopScheduler, Return, Signal, Crash, StartAgain, AcceptLoop, PollFails, Read,
       Handle, JobStarts, JobEnds, Register, RunLoop, PowerCallback, TearDown, Connect, Send, HangUp, ProcessEnds,
       serverVars, Ended
  <2>2. client' = [client EXCEPT ![c] = Closed(c, "reply")]
    BY <2>1 DEF Write, CloseConnection
  <2> QED BY <2>2 DEF Inv, TypeOK, Closed
<1> QED BY Inductive, <1>1, PTL DEF Spec, HandledIsAnswered

-----------------------------------------------------------------------------
(* The daemon keeps to SchedulerUse.                                       *)

\* When the handler and the callback stay where they are, so do the calls.
LEMMA CallsFrame ==
  ASSUME (srv' = "handle") <=> (srv = "handle"), (mon' = "callback") <=> (mon = "callback")
  PROVE  SchedulerCalls' = SchedulerCalls
BY SMTT(30) DEF SchedulerCalls

LEMMA NoCalls ==
  ASSUME srv # "handle", mon # "callback" PROVE SchedulerCalls = {}
BY SMTT(30) DEF SchedulerCalls

\* The end of the process, wherever it is.
LEMMA EndIsGone ==
  ASSUME Up, pc' \in Ended, srv' = "none", mon' # "callback" PROVE Use!Gone
<1>1. SchedulerCalls' = {}
  BY SMTT(30) DEF SchedulerCalls
<1>2. SchedulerLife # "absent" /\ SchedulerLife' = "absent"
  BY SMTT(30) DEF SchedulerLife, Up, Ended
<1> QED BY <1>1, <1>2 DEF Use!Gone

\* A handler, or a power callback, is entered only while the scheduler serves.
LEMMA InsideIsServing ==
  ASSUME Inv, srv \in {"read", "handle", "write"} \/ mon \in {"run", "callback"}
  PROVE  SchedulerLife = "serving"
BY SMTT(30) DEF Inv, TypeOK, MainPcs, MonitorInv, ServerInv, SchedulerLife, Ended

\* Every step of the daemon is a step of SchedulerUse or a stutter.
LEMMA UseStep == ASSUME Inv, [Next]_vars PROVE [Use!Next]_(Use!vars)
<1> USE DEF mainVars, serverVars, monVars
<1> DEFINE Same == UNCHANGED <<SchedulerLife, SchedulerCalls>>
<1>1. Same => [Use!Next]_(Use!vars)
  BY DEF Use!vars
<1> HIDE DEF Same
<1>2. ASSUME UNCHANGED pc, (srv' = "handle") <=> (srv = "handle"),
             (mon' = "callback") <=> (mon = "callback")
      PROVE  Same
  BY <1>2, CallsFrame DEF Same, SchedulerLife
<1>3. CASE InstallSignalHandlers \/ StartMonitor \/ SamplerReturns \/ StopMonitor
           \/ AwaitLoop \/ JoinMonitor \/ JoinServer \/ CloseSocket \/ StopScheduler
  <2>1. SchedulerLife' = SchedulerLife
    BY SMTT(30), <1>3 DEF SchedulerLife, Ended, InstallSignalHandlers, StartMonitor,
       SamplerReturns, StopMonitor, AwaitLoop, JoinMonitor, JoinServer, CloseSocket,
       StopScheduler
  <2>2. srv' = srv /\ ((mon' = "callback") <=> (mon = "callback"))
    BY SMTT(30), <1>3 DEF InstallSignalHandlers, StartMonitor, SamplerReturns, StopMonitor,
       AwaitLoop, JoinMonitor, JoinServer, CloseSocket, StopScheduler, Inv, MonitorInv
  <2> QED BY <1>1, <2>1, <2>2, CallsFrame DEF Same
<1>4. CASE AcceptLoop \/ PollFails \/ Register \/ RunLoop \/ TearDown \/ UNCHANGED vars
  BY SMTT(30), <1>1, <1>2, <1>4 DEF AcceptLoop, PollFails, Register, RunLoop, TearDown, vars
<1>5. ASSUME NEW c \in Clients, Connect(c) \/ Send(c) \/ HangUp(c)
      PROVE  [Use!Next]_(Use!vars)
  BY ZenonT(30), <1>1, <1>2, <1>5 DEF Connect, Send, HangUp
<1>6. CASE BootFails \/ Return \/ Crash
  <2>1. Up /\ pc' \in Ended /\ srv' = "none"
    BY Zenon, <1>6 DEF BootFails, Return, Crash, ProcessEnds, Up, Ended
  <2>2. mon' = "none" \/ (mon' = mon /\ pc \in {"boot", "return"})
    BY Zenon, <1>6 DEF BootFails, Return, Crash
  <2>3. mon' # "callback"
    BY SMTT(30), <2>2 DEF Inv, MonitorInv
  <2> QED BY <2>1, <2>3, EndIsGone DEF Use!Next
<1>7. CASE Signal
  <2>1. CASE Installed
    BY <1>1, <1>2, <1>7, <2>1 DEF Signal
  <2>2. CASE ~Installed
    BY <1>7, <2>2, EndIsGone DEF Signal, ProcessEnds, Ended, Use!Next
  <2> QED BY <2>1, <2>2
<1>8. CASE Write
  <2>1. CASE ProcessEnds("dead") /\ mon' = "none"
    <3>1. Up
      BY <1>8 DEF Write, Inv, ServerInv, Up
    <3> QED BY <2>1, <3>1, EndIsGone DEF ProcessEnds, Ended, Use!Next
  <2>2. CASE CloseConnection("reply") /\ UNCHANGED <<mainVars, path, running, queue, monVars>>
    BY <1>1, <1>2, <1>8, <2>2 DEF Write, CloseConnection
  <2> QED BY <1>8, <2>1, <2>2 DEF Write
<1>9. CASE StartServer
  <2>1. SchedulerLife = "starting" /\ SchedulerLife' = "serving"
    BY SMTT(30), <1>9 DEF StartServer, SchedulerLife, Ended
  <2>2. SchedulerCalls' = SchedulerCalls
    BY <1>9, CallsFrame DEF StartServer, Inv, ServerInv
  <2> QED BY <2>1, <2>2 DEF Use!Next, Use!Open
<1>10. CASE StartAgain
  <2>1. SchedulerLife = "absent" /\ SchedulerLife' = "starting"
    BY SMTT(30), <1>10 DEF StartAgain, SchedulerLife, Ended
  <2>2. SchedulerCalls' = SchedulerCalls
    BY <1>10, CallsFrame DEF StartAgain, Inv, MonitorInv
  <2> QED BY <2>1, <2>2 DEF Use!Next, Use!Start
\* The scheduler is stopped after the server, or at once if there is none.
<1>11. ASSUME pc \in {"stop_server", "unlink"}, pc' = "stop_scheduler", UNCHANGED <<srv, mon>>,
              pc = "stop_server" => ~running
       PROVE  Use!Stop
  <2>1. srv # "handle" /\ mon # "callback"
    BY SMTT(30), <1>11 DEF Inv, MonitorInv, ServerInv
  <2>2. SchedulerCalls = {} /\ SchedulerCalls' = SchedulerCalls
    BY <1>11, <2>1, NoCalls, CallsFrame
  <2>3. SchedulerLife = "serving" /\ SchedulerLife' = "stopping"
    BY SMTT(30), <1>11 DEF SchedulerLife, Ended
  <2> QED BY <2>2, <2>3 DEF Use!Stop
<1>12. CASE StopServer
  <2>1. CASE running
    <3>1. SchedulerLife' = SchedulerLife
      BY SMTT(30), <1>12, <2>1 DEF StopServer, SchedulerLife, Ended
    <3> QED BY <1>1, <1>12, <3>1, CallsFrame DEF StopServer, Same
  <2>2. CASE ~running
    BY <1>11, <1>12, <2>2 DEF StopServer, Use!Next
  <2> QED BY <2>1, <2>2
<1>13. CASE UnlinkSocket
  BY <1>11, <1>13 DEF UnlinkSocket, Use!Next
<1>14. CASE Read
  <2>1. CASE srv' = "handle"
    <3>1. SchedulerLife = "serving" /\ SchedulerLife' = SchedulerLife
      BY <1>14, InsideIsServing DEF Read, SchedulerLife
    <3>2. "accept" \notin SchedulerCalls /\ SchedulerCalls' = SchedulerCalls \cup {"accept"}
      BY SMTT(30), <1>14, <2>1 DEF Read, SchedulerCalls
    <3> QED BY <3>1, <3>2 DEF Use!Next, Use!Enter
  <2>2. CASE srv' # "handle"
    BY <1>1, <1>2, <1>14, <2>2 DEF Read
  <2> QED BY <2>1, <2>2
<1>15. CASE Handle
  <2>1. SchedulerLife' = SchedulerLife
    BY <1>15 DEF Handle, SchedulerLife
  <2>2. "accept" \in SchedulerCalls /\ SchedulerCalls' = SchedulerCalls \ {"accept"}
    BY SMTT(30), <1>15 DEF Handle, SchedulerCalls
  <2> QED BY <2>1, <2>2 DEF Use!Next, Use!Leave
<1>16. CASE PowerCallback
  <2>1. SchedulerLife = "serving" /\ SchedulerLife' = SchedulerLife
    BY <1>16, InsideIsServing DEF PowerCallback, SchedulerLife
  <2>2. CASE mon = "run"
    <3>1. "monitor" \notin SchedulerCalls /\ SchedulerCalls' = SchedulerCalls \cup {"monitor"}
      BY SMTT(30), <1>16, <2>2 DEF PowerCallback, SchedulerCalls
    <3> QED BY <2>1, <3>1 DEF Use!Next, Use!Enter
  <2>3. CASE mon = "callback"
    <3>1. "monitor" \in SchedulerCalls /\ SchedulerCalls' = SchedulerCalls \ {"monitor"}
      BY SMTT(30), <1>16, <2>3 DEF PowerCallback, SchedulerCalls
    <3> QED BY <2>1, <3>1 DEF Use!Next, Use!Leave
  <2> QED BY <1>16, <2>2, <2>3 DEF PowerCallback
<1>17. CASE JobStarts \/ JobEnds
  BY Zenon, <1>1, <1>2, <1>17 DEF JobStarts, JobEnds
<1> QED BY ZenonT(60), <1>3, <1>4, <1>5, <1>6, <1>7, <1>8, <1>9, <1>10, <1>12, <1>13, <1>14,
           <1>15, <1>16, <1>17 DEF Next, MainStep

\* For any number of clients, the threads of the daemon use the scheduler as
\* SchedulerUse allows: calls only while it serves, and none when it is stopped.
THEOREM DaemonKeepsToUse == Spec => KeepsToUse
<1>1. Init => Use!Init
  BY SMTT(30) DEF Init, Use!Init, SchedulerLife, SchedulerCalls, Ended
<1>2. Inv /\ [Next]_vars => [Use!Next]_(Use!vars)
  BY UseStep
<1> QED BY <1>1, <1>2, Inductive, PTL DEF Spec, KeepsToUse, Use!Spec
===============================================================================

-------------------------------- MODULE Daemon --------------------------------
(***************************************************************************)
(* The life of the agentpulsed process and of its connections: main        *)
(* (main.cpp), the accept thread (ipc/socket_server.cpp), the sleep        *)
(* monitor's thread (power/sleep_monitor.cpp), and the clients at the      *)
(* socket: apctl (cli/src/main.cpp), the menu-bar app (SocketClient.swift) *)
(* and others.  What a request does is Scheduler.tla, JobDefs.tla and      *)
(* AlertFeed.tla.                                                          *)
(***************************************************************************)
EXTENDS Integers, Sequences, FiniteSets

CONSTANTS
  Clients,   \* connections that are open at the same time
  Prompt,    \* those of apctl and the app: they write at once and read the answer
  Nobody,    \* no client
  Backlog    \* the backlog of listen()

ASSUME DaemonAssumption ==
  Prompt \subseteq Clients /\ Nobody \notin Clients /\ Backlog \in Nat \ {0}

VARIABLES
  pc,         \* where main is
  g_stop,     \* main's g_stop
  busy,       \* whether a worker of the scheduler is in the command of a job
  path,       \* the socket path: "none", "live", or "stale" when nobody listens
  running,    \* SocketServer::running_
  srv,        \* where the accept thread is
  serving,    \* the client of serve_connection
  queue,      \* connections that wait for accept()
  client,     \* client[c]: the connection of c, what it sent and how it ended
  watching,   \* SleepMonitor::running_
  mon,        \* where the monitor's thread is
  quit,       \* whether CFRunLoopStop was called, and in time
  joinable    \* whether SleepMonitor::thread_ is joinable

mainVars   == <<pc, g_stop, busy>>
serverVars == <<path, running, srv, serving, queue, client>>
monVars    == <<watching, mon, quit, joinable>>
vars       == <<mainVars, serverVars, monVars>>

Ended == {"exited", "aborted", "dead"}
MainPcs == Ended \cup {"boot", "bound", "ready", "sample", "stop_monitor", "await_loop",
  "join_monitor", "stop_server", "join_server", "close", "unlink", "stop_scheduler", "return"}

Up        == pc \notin Ended
Installed == pc \notin {"boot", "bound"}   \* install_signal_handlers has run

\* A connection over which nothing was sent yet.
Fresh(conn, out) == [conn |-> conn, sent |-> "nothing", out |-> out]

Init ==
  /\ pc = "boot" /\ g_stop = FALSE /\ busy = FALSE
  /\ path \in {"none", "stale"} /\ running = FALSE
  /\ srv = "none" /\ serving = Nobody /\ queue = <<>>
  /\ client = [c \in Clients |-> Fresh("off", "none")]
  /\ watching = FALSE /\ mon = "none" /\ quit = "no" /\ joinable = FALSE
-----------------------------------------------------------------------------
(* Clients.                                                                *)

\* connect(): a socket nobody listens on, or with a full backlog, refuses.
Connect(c) ==
  /\ client[c].conn = "off"
  /\ IF path = "live" /\ Len(queue) < Backlog
     THEN client' = [client EXCEPT ![c] = Fresh("open", "none")] /\ queue' = Append(queue, c)
     ELSE client' = [client EXCEPT ![c] = Fresh("off", "error")] /\ UNCHANGED queue
  /\ UNCHANGED <<mainVars, path, running, srv, serving, monVars>>

\* The request line is written; others than apctl and the app may write
\* kMaxRequestBytes without ending the line.
Send(c) ==
  /\ client[c].conn = "open" /\ client[c].sent = "nothing"
  /\ \E text \in IF c \in Prompt THEN {"line"} ELSE {"line", "long"} :
       client' = [client EXCEPT ![c].sent = text]
  /\ UNCHANGED <<mainVars, path, running, srv, serving, queue, monVars>>

\* The client goes away; the server's end stays until it is served.
HangUp(c) ==
  /\ client[c].conn = "open"
  /\ client' = [client EXCEPT ![c].conn = "hungup"]
  /\ UNCHANGED <<mainVars, path, running, srv, serving, queue, monVars>>

\* The server's end of c is closed.  send_request and SocketClient.send take an
\* end of file for the end of the answer.
Closed(c, out) ==
  [conn |-> "off", sent |-> client[c].sent,
   out |-> IF client[c].conn = "hungup" \/ (out = "cut" /\ client[c].sent = "nothing")
           THEN "error" ELSE out]
-----------------------------------------------------------------------------
(* The accept thread.                                                      *)

\* Every thread is gone and the kernel closes all connections.
ProcessEnds(how) ==
  /\ pc' = how /\ g_stop' = FALSE /\ busy' = FALSE
  /\ path' = IF path = "live" THEN "stale" ELSE path
  /\ running' = FALSE /\ srv' = "none" /\ serving' = Nobody /\ queue' = <<>>
  /\ client' = [c \in Clients |-> IF client[c].conn = "off" THEN client[c] ELSE Closed(c, "cut")]
  /\ watching' = FALSE /\ quit' = "no" /\ joinable' = FALSE

\* The head of accept_loop: leave, accept, or time out (no step).
AcceptLoop ==
  /\ srv = "poll"
  /\ \/ ~running /\ srv' = "done" /\ UNCHANGED <<serving, queue>>
     \/ /\ running /\ queue # <<>>
        /\ srv' = "read" /\ serving' = Head(queue) /\ queue' = Tail(queue)
  /\ UNCHANGED <<mainVars, path, running, client, monVars>>

\* poll() fails for another reason than a signal: the loop ends, the server does not.
PollFails ==
  /\ srv = "poll" /\ running /\ srv' = "done"
  /\ UNCHANGED <<mainVars, path, running, serving, queue, client, monVars>>

\* Mutant: the descriptor is not closed.
LeakConnection(out) == srv' = "poll" /\ serving' = Nobody /\ UNCHANGED client
\* ::close(client) after serve_connection.
CloseConnection(out) ==
  /\ srv' = "poll" /\ serving' = Nobody
  /\ client' = [client EXCEPT ![serving] = Closed(serving, out)]

\* Mutant: an end of file is retried like an interrupted read.
ReadAgain ==
  /\ srv = "read" /\ client[serving].sent = "line"
  /\ srv' = "handle" /\ UNCHANGED <<serving, client>>
  /\ UNCHANGED <<mainVars, path, running, queue, monVars>>
\* read(): blocks until the client has written its line or too much, or is gone.
Read ==
  /\ srv = "read"
  /\ \/ client[serving].sent = "line" /\ srv' = "handle" /\ UNCHANGED <<serving, client>>
     \/ /\ client[serving].sent = "long" \/ client[serving] = Fresh("hungup", "none")
        /\ CloseConnection("cut")
  /\ UNCHANGED <<mainVars, path, running, queue, monVars>>

\* Mutant: a request read while the server stops is dropped.
HandleIfRunning ==
  /\ srv = "handle"
  /\ \/ running /\ srv' = "write" /\ UNCHANGED <<serving, client>>
     \/ ~running /\ CloseConnection("cut")
  /\ UNCHANGED <<mainVars, path, running, queue, monVars>>
\* handler(request).
Handle ==
  /\ srv = "handle" /\ srv' = "write"
  /\ UNCHANGED <<mainVars, path, running, serving, queue, client, monVars>>

\* write(): to a client that is gone it fails, and kills the process while
\* SIGPIPE is not yet ignored.
Write ==
  /\ srv = "write"
  /\ IF client[serving].conn = "hungup" /\ ~Installed
     THEN ProcessEnds("dead") /\ mon' = "none"
     ELSE CloseConnection("reply") /\ UNCHANGED <<mainVars, path, running, queue, monVars>>
-----------------------------------------------------------------------------
(* The scheduler's workers (Scheduler.tla).                                *)

\* A command starts at any time until stop() has cleared active_; the ones before
\* the shutdown make no difference here and are left out.
JobStarts ==
  /\ pc \in {"stop_server", "join_server", "close", "unlink"} /\ ~busy
  /\ busy' = TRUE
  /\ UNCHANGED <<pc, g_stop, serverVars, monVars>>

\* The last command under way ends.
JobEnds ==
  /\ busy /\ busy' = FALSE
  /\ UNCHANGED <<pc, g_stop, serverVars, monVars>>
-----------------------------------------------------------------------------
(* The sleep monitor's thread.                                             *)

Register ==
  /\ mon = "register"
  /\ \/ mon' = "loaded" /\ UNCHANGED watching     \* run_loop_ is stored
     \/ mon' = "failed" /\ watching' = FALSE
  /\ UNCHANGED <<mainVars, serverVars, quit, joinable>>

RunLoop ==
  /\ mon = "loaded" /\ mon' = "run"
  /\ UNCHANGED <<mainVars, serverVars, watching, quit, joinable>>

\* power_callback on a wake-up: it calls into the scheduler and returns.
PowerCallback ==
  /\ \/ mon = "run" /\ quit # "asked" /\ mon' = "callback"
     \/ mon = "callback" /\ mon' = "run"
  /\ UNCHANGED <<mainVars, serverVars, watching, quit, joinable>>

TearDown ==
  /\ mon = "run" /\ quit = "asked" /\ mon' = "end"
  /\ UNCHANGED <<mainVars, serverVars, watching, quit, joinable>>
-----------------------------------------------------------------------------
(* main.                                                                   *)

\* The database, the configuration or the scheduler cannot be set up: return 1.
BootFails == pc = "boot" /\ ProcessEnds("dead") /\ UNCHANGED mon

\* server.start(): a stale socket is unlinked; a failure is not fatal.
StartServer ==
  /\ pc = "boot" /\ pc' = "bound"
  /\ \/ path' = "live" /\ running' = TRUE /\ srv' = "poll"
     \/ path' \in {path, "none"} /\ UNCHANGED <<running, srv>>
  /\ UNCHANGED <<g_stop, busy, serving, queue, client, monVars>>

InstallSignalHandlers ==
  /\ pc = "bound" /\ pc' = "ready"
  /\ UNCHANGED <<g_stop, busy, serverVars, monVars>>

StartMonitor ==
  /\ pc = "ready" /\ pc' = "sample"
  /\ watching' = TRUE /\ mon' = "register" /\ joinable' = TRUE
  /\ UNCHANGED <<g_stop, busy, serverVars, quit>>

\* SIGTERM or SIGINT: handle_signal, or the default action.
Signal ==
  /\ Up
  /\ IF Installed THEN g_stop' = TRUE /\ UNCHANGED <<pc, busy, serverVars, monVars>>
                  ELSE ProcessEnds("dead") /\ mon' = "none"

\* A power failure, SIGKILL or a fault.
Crash == Up /\ ProcessEnds("dead") /\ mon' = "none"

SamplerReturns ==
  /\ pc = "sample" /\ g_stop /\ pc' = "stop_monitor"
  /\ UNCHANGED <<g_stop, busy, serverVars, monVars>>

StopMonitor ==
  /\ pc = "stop_monitor"
  /\ pc' = IF watching THEN "await_loop" ELSE "stop_server"
  /\ watching' = FALSE
  /\ UNCHANGED <<g_stop, busy, serverVars, mon, quit, joinable>>

\* Mutant: the loop is not stopped.
AwaitOnly ==
  /\ pc = "await_loop" /\ pc' = "join_monitor"
  /\ UNCHANGED <<g_stop, busy, serverVars, watching, mon, quit, joinable>>
\* run_loop_ is there, or 50 looks did not find it.  CFRunLoopStop has no effect
\* on a loop that does not run yet.
AwaitLoop ==
  /\ pc = "await_loop" /\ pc' = "join_monitor"
  /\ quit' = IF mon \in {"run", "callback"} THEN "asked" ELSE "late"
  /\ UNCHANGED <<g_stop, busy, serverVars, watching, mon, joinable>>

\* Mutant: the thread is waited for but not joined.
WaitForMonitor ==
  /\ pc = "join_monitor" /\ mon \in {"end", "failed"} /\ pc' = "stop_server"
  /\ UNCHANGED <<g_stop, busy, serverVars, watching, mon, quit, joinable>>
JoinMonitor ==
  /\ pc = "join_monitor" /\ mon \in {"end", "failed"} /\ pc' = "stop_server"
  /\ joinable' = FALSE
  /\ UNCHANGED <<g_stop, busy, serverVars, watching, mon, quit>>

StopServer ==
  /\ pc = "stop_server"
  /\ pc' = IF running THEN "join_server" ELSE "stop_scheduler"
  /\ running' = FALSE
  /\ UNCHANGED <<g_stop, busy, path, srv, serving, queue, client, monVars>>

\* Mutant: the accept thread is not waited for.
DetachServer ==
  /\ pc = "join_server" /\ pc' = "close"
  /\ UNCHANGED <<g_stop, busy, serverVars, monVars>>
JoinServer ==
  /\ pc = "join_server" /\ srv = "done" /\ pc' = "close"
  /\ UNCHANGED <<g_stop, busy, serverVars, monVars>>

\* close(listen_fd_): whoever waits for accept() is cut off.
CloseSocket ==
  /\ pc = "close" /\ pc' = "unlink"
  /\ path' = "stale" /\ queue' = <<>>
  /\ client' = [c \in Clients |->
       IF \E k \in DOMAIN queue : queue[k] = c THEN Closed(c, "cut") ELSE client[c]]
  /\ UNCHANGED <<g_stop, busy, running, srv, serving, monVars>>

\* Mutant: the path stays.
UnlinkNothing ==
  /\ pc = "unlink" /\ pc' = "stop_scheduler"
  /\ UNCHANGED <<g_stop, busy, serverVars, monVars>>
UnlinkSocket ==
  /\ pc = "unlink" /\ pc' = "stop_scheduler"
  /\ path' = "none"
  /\ UNCHANGED <<g_stop, busy, running, srv, serving, queue, client, monVars>>

\* Scheduler::stop() joins the workers, so it waits for their commands.
StopScheduler ==
  /\ pc = "stop_scheduler" /\ ~busy /\ pc' = "return"
  /\ UNCHANGED <<g_stop, busy, serverVars, monVars>>

\* The destructors: one of a joinable std::thread ends the process with an abort.
Return ==
  /\ pc = "return"
  /\ ProcessEnds(IF joinable THEN "aborted" ELSE "exited") /\ UNCHANGED mon

\* launchd or the user starts the daemon again.
StartAgain ==
  /\ pc \in Ended /\ pc' = "boot" /\ mon' = "none"
  /\ UNCHANGED <<g_stop, busy, serverVars, watching, quit, joinable>>
-----------------------------------------------------------------------------
MainStep == \/ BootFails \/ StartServer \/ InstallSignalHandlers \/ StartMonitor
            \/ SamplerReturns \/ StopMonitor \/ AwaitLoop \/ JoinMonitor
            \/ StopServer \/ JoinServer \/ CloseSocket \/ UnlinkSocket
            \/ StopScheduler \/ Return
Next == \/ MainStep \/ Signal \/ Crash \/ StartAgain
        \/ AcceptLoop \/ PollFails \/ Read \/ Handle \/ Write
        \/ JobStarts \/ JobEnds
        \/ Register \/ RunLoop \/ PowerCallback \/ TearDown
        \/ \E c \in Clients : Connect(c) \/ Send(c) \/ HangUp(c)

Spec == Init /\ [][Next]_vars

\* A client that is neither prompt nor gone holds the accept thread in read() or
\* write(), which have no timeout.
HeldUp == srv \in {"read", "write"} /\ serving \notin Prompt /\ client[serving].conn = "open"

\* The threads run and prompt clients write.  Nothing is assumed of a job's command
\* (by default it has no time limit), of other clients, and of signals.
Fairness == /\ WF_vars(MainStep) /\ WF_vars(AcceptLoop) /\ WF_vars(Read) /\ WF_vars(Handle)
            /\ WF_vars(~HeldUp /\ Write)
            /\ WF_vars(Register) /\ WF_vars(RunLoop) /\ WF_vars(TearDown)
            /\ WF_vars(mon = "callback" /\ PowerCallback)
            /\ \A c \in Prompt : WF_vars(Send(c))
FairSpec == Spec /\ Fairness
-----------------------------------------------------------------------------
Connection == [conn : {"off", "open", "hungup"}, sent : {"nothing", "line", "long"},
               out : {"none", "reply", "cut", "error"}]

\* Every variable holds a value of what it stands for, and the accept thread has
\* a client exactly while it serves one.
TypeOK ==
  /\ pc \in MainPcs /\ g_stop \in BOOLEAN /\ busy \in BOOLEAN
  /\ path \in {"none", "live", "stale"} /\ running \in BOOLEAN
  /\ srv \in {"none", "poll", "read", "handle", "write", "done"}
  /\ serving \in Clients \cup {Nobody}
  /\ serving = Nobody <=> srv \in {"none", "poll", "done"}
  /\ queue \in Seq(Clients)
  /\ client \in [Clients -> Connection]
  /\ watching \in BOOLEAN
  /\ mon \in {"none", "register", "loaded", "run", "callback", "end", "failed"}
  /\ quit \in {"no", "asked", "late"} /\ joinable \in BOOLEAN

\* When the scheduler is stopped, nobody is left who could call into it: the
\* accept thread and the monitor's thread have returned, whatever they were
\* doing when main asked them to stop.
SchedulerStopsLast ==
  pc \in {"stop_scheduler", "return"} =>
    srv \in {"none", "done"} /\ mon \in {"end", "failed"}

\* The socket path names a live socket exactly while the accept thread's
\* listening descriptor is open, and a process that exits by itself leaves no
\* path of its own behind and nobody waiting for an answer.
PathIsHonest ==
  /\ path = "live" <=> (srv # "none" /\ pc \notin {"unlink", "stop_scheduler", "return"})
  /\ pc \in {"stop_scheduler", "return"} /\ srv # "none" =>
       path = "none" /\ \A c \in Clients : client[c].conn = "off"

\* A connection is in one place: waiting to be accepted, being served, or closed.
\* None is forgotten open.
NoLostConnection ==
  \A c \in Clients :
    /\ client[c].conn # "off" <=> (serving = c \/ \E k \in DOMAIN queue : queue[k] = c)
    /\ serving = c => \A k \in DOMAIN queue : queue[k] # c
    /\ \A i, k \in DOMAIN queue : queue[i] = c /\ queue[k] = c => i = k

\* Once the handler has seen a request its client gets the answer, also when
\* the server is being stopped meanwhile: it is cut off only if the process
\* ends.
HandledIsAnswered ==
  [][\A c \in Clients :
       serving = c /\ srv \in {"handle", "write"} /\ serving' # c /\ pc' \notin Ended
         => client'[c].out = "reply" \/ client[c].conn = "hungup"]_vars

\* The process aborts at the end of main only if the monitor could not register
\* ("logs and stays inert", sleep_monitor.hpp): its thread is then never joined.
AbortOnlyIfInert == pc = "aborted" => mon = "failed"

\* A prompt client's connection comes to an end, unless another client holds up
\* the accept thread or poll() failed.
PromptIsServed ==
  \A c \in Prompt : client[c].conn = "open" ~> (client[c].conn # "open" \/ HeldUp \/ srv = "done")

\* After SIGTERM the process ends, unless main waits for an accept thread that a
\* client holds up, for a monitor that was stopped before its loop ran, or for a
\* worker whose command does not end.
ShutdownEnds ==
  g_stop ~> \/ pc \in Ended
            \/ pc = "join_server" /\ HeldUp
            \/ quit = "late" /\ mon # "failed"
            \/ pc = "stop_scheduler" /\ busy
-----------------------------------------------------------------------------
\* The scheduler object as main sees it, and the threads that are inside it: the
\* accept thread in a handler, the monitor's thread in its callback.
SchedulerLife ==
  CASE pc \in Ended                        -> "absent"
    [] pc = "boot"                         -> "starting"
    [] pc \in {"stop_scheduler", "return"} -> "stopping"
    [] OTHER                               -> "serving"
SchedulerCalls ==
  {t \in {"accept", "monitor"} : IF t = "accept" THEN srv = "handle" ELSE mon = "callback"}

Use == INSTANCE SchedulerUse WITH
  Callers <- {"accept", "monitor"}, life <- SchedulerLife, calls <- SchedulerCalls

\* The threads of the daemon keep to the order in which the scheduler may be
\* used: no handler and no power callback enters it before it has started, once
\* it is being stopped or after it, and it is stopped only when nobody is inside.
KeepsToUse == Use!Spec
==============================================================================

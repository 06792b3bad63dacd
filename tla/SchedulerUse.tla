----------------------------- MODULE SchedulerUse -----------------------------
(***************************************************************************)
(* How the threads of the daemon may use the scheduler object: calls come  *)
(* in only between its start and its stop, and it is stopped only when no  *)
(* call is under way.  Scheduler (jobs/scheduler.cpp) is written for       *)
(* callers that keep to this; Daemon (main.cpp with the accept thread and  *)
(* the sleep monitor) is where they are made to.                           *)
(***************************************************************************)
CONSTANT Callers   \* threads that call into the scheduler

VARIABLES
  life,    \* "absent" (no process), "starting", "serving" or "stopping"
  calls    \* the callers with a call under way

vars == <<life, calls>>

Init == life \in {"absent", "starting"} /\ calls = {}

\* The process starts; scheduler->start() and the start-up scan have returned;
\* scheduler->stop() is entered.
Start == life = "absent"   /\ life' = "starting" /\ UNCHANGED calls
Open  == life = "starting" /\ life' = "serving"  /\ UNCHANGED calls
Stop  == life = "serving"  /\ life' = "stopping" /\ calls = {} /\ UNCHANGED calls

Enter(c) == life = "serving" /\ c \notin calls /\ calls' = calls \cup {c} /\ UNCHANGED life
Leave(c) == c \in calls /\ calls' = calls \ {c} /\ UNCHANGED life

\* The process ends, by itself or not.
Gone == life # "absent" /\ life' = "absent" /\ calls' = {}

Next == Start \/ Open \/ Stop \/ Gone \/ \E c \in Callers : Enter(c) \/ Leave(c)

Spec == Init /\ [][Next]_vars
===============================================================================

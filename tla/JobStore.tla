------------------------------ MODULE JobStore -------------------------------
(***************************************************************************)
(* What the daemon promises about the jobs managed at run time: a durable  *)
(* set of names on which add and remove are atomic.  A call takes effect   *)
(* once, at some moment between request and reply, or not at all; only a   *)
(* call that took effect is acknowledged; a crash may swallow the reply    *)
(* but never undoes an effect.  Scheduler implements this with a table,    *)
(* an in-memory list and three critical sections per call.                 *)
(***************************************************************************)
CONSTANTS Names, Callers, NoName

VARIABLES
  stored,   \* the jobs that the next process will know
  call,     \* the call each caller has under way
  acked     \* the last reply for each name

vars == <<stored, call, acked>>

NoCall == [op |-> "none", name |-> NoName, stage |-> "none"]

Init ==
  /\ stored = {}
  /\ call = [c \in Callers |-> NoCall]
  /\ acked = [n \in Names |-> "none"]

Begin(c, op, n) ==
  /\ call[c] = NoCall
  /\ call' = [call EXCEPT ![c] = [op |-> op, name |-> n, stage |-> "asked"]]
  /\ UNCHANGED <<stored, acked>>

\* An add never replaces a definition, a remove finds one.
Effect(c) ==
  /\ call[c].stage = "asked"
  /\ \/ /\ call[c].op = "add" /\ call[c].name \notin stored
        /\ stored' = stored \cup {call[c].name}
     \/ /\ call[c].op = "remove" /\ call[c].name \in stored
        /\ stored' = stored \ {call[c].name}
  /\ call' = [call EXCEPT ![c].stage = "done"]
  /\ UNCHANGED acked

Reject(c) ==
  /\ call[c].stage = "asked"
  /\ call' = [call EXCEPT ![c] = NoCall]
  /\ UNCHANGED <<stored, acked>>

Reply(c) ==
  /\ call[c].stage = "done"
  /\ acked' = [acked EXCEPT ![call[c].name] =
                 IF call[c].op = "add" THEN "added" ELSE "removed"]
  /\ call' = [call EXCEPT ![c] = NoCall]
  /\ UNCHANGED stored

Crash ==
  /\ call' = [c \in Callers |-> NoCall]
  /\ acked' = [n \in Names |-> IF \E c \in Callers : call[c].name = n
                               THEN "unknown" ELSE acked[n]]
  /\ UNCHANGED stored

Next == \/ Crash
        \/ \E c \in Callers :
             \/ Effect(c) \/ Reject(c) \/ Reply(c)
             \/ \E n \in Names : Begin(c, "add", n) \/ Begin(c, "remove", n)

Spec == Init /\ [][Next]_vars
==============================================================================

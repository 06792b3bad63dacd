----------------------------- MODULE MCScheduler -----------------------------
(* Instances of Scheduler for TLC.                                         *)
EXTENDS SchedulerStore, TLC

CONSTANTS a, t1, t2, c1   \* a job, two tasks, a caller

OneJob == {a}

\* Job a matches three times in a row, once, or has no schedule.
OccA      == [j \in Jobs |-> {1, 2, 3}]
OccOnce   == [j \in Jobs |-> {2}]
RecoverA  == {a}
NoRetry   == [j \in Jobs |-> 0]
OneRetry  == [j \in Jobs |-> 1]
OccNone   == [j \in Jobs |-> {}]

ConfigNone  == {{}}
ConfigA     == {{a}}
ConfigMaybe == {{}, {a}}

\* The state without what no step reads and no invariant is about: the published
\* list, the snapshots on their way to it, and the history of replies.
Unreported == <<clock, starts, phase, memory, flags, loop_pc, to_launch, scan, task, joining,
                [x \in Apis |-> <<api[x].pc, api[x].op, api[x].job>>], db>>

TaskSymmetry == Permutations(Tasks)
==============================================================================

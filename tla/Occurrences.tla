----------------------------- MODULE Occurrences -----------------------------
(***************************************************************************)
(* What a cron schedule is to its users: a set S of times, none of them 0, *)
(* asked for its next and its latest member.  Scheduler.tla asks Occ[j];   *)
(* that the searches of Cron.tla give these answers is proved in           *)
(* JobDefsProofs.tla.  0 is nullopt.                                       *)
(***************************************************************************)
EXTENDS Integers

Earliest(S) == CHOOSE o \in S : \A p \in S : o <= p
Latest(S)   == CHOOSE o \in S : \A p \in S : p <= o

\* CronSchedule::next_after: the first occurrence strictly after t.
NextIn(S, t) == LET later == {o \in S : o > t}
                IN  IF later = {} THEN 0 ELSE Earliest(later)

\* CronSchedule::prev_before: the last occurrence at or before t.
PrevIn(S, t) == LET past == {o \in S : o <= t}
                IN  IF past = {} THEN 0 ELSE Latest(past)

\* detect_missed_run: the latest occurrence, if the last run predates it.
MissedIn(S, last, now) == IF last >= PrevIn(S, now) THEN 0 ELSE PrevIn(S, now)
==============================================================================

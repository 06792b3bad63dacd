--------------------------- MODULE SchedulerStore ----------------------------
(* The scheduler as an implementation of JobStore.                         *)
EXTENDS Scheduler

\* add_job and remove_job seen from outside: the table write is the moment of
\* effect, request_run is no change.
StoreCall == [a \in Apis |->
  IF Changing(a)
  THEN [op |-> api[a].op, name |-> api[a].job,
        stage |-> IF api[a].pc \in {"upsert", "delete"} THEN "asked" ELSE "done"]
  ELSE [op |-> "none", name |-> NoJob, stage |-> "none"]]

Store == INSTANCE JobStore WITH
  Names <- Jobs, Callers <- Apis, NoName <- NoJob,
  stored <- db_defs, call <- StoreCall, acked <- acked

\* With one caller the scheduler is a durable set of jobs: its three critical
\* sections per call, two of memory and one of the table, amount to one atomic
\* change, whatever database errors, crashes, restarts and changes of
\* config.yaml come between them.
ImplementsJobStore == Store!Spec
==============================================================================

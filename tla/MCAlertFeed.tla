----------------------------- MODULE MCAlertFeed -----------------------------
(* The sampler, one thread of the scheduler and two requests at a time.    *)
EXTENDS AlertFeed

CONSTANTS worker, k1, k2

MCThreads == {Sampler, worker}
MCPolls   == {k1, k2}
==============================================================================

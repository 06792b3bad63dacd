CONSTANTS
  a = a  t1 = t1  t2 = t2  c1 = c1
  NoTask = NoTask  NoJob = NoJob
  Jobs <- OneJob  Configs <- ConfigMaybe  Occ <- OccNone  Recover <- RecoverA
  Retries <- NoRetry
  Apis = {c1}  Ops = {"run", "add", "remove"}  Tasks = {t1}
  KWakeGap = 1  MaxTime = 1  MaxStarts = 2  MaxQueue = 1
SPECIFICATION FairSpec
INVARIANT AckDurable
PROPERTIES ImplementsJobStore QueuedIsRun ShutdownEnds PublishCatchesUp

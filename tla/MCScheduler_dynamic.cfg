CONSTANTS
  a = a  t1 = t1  t2 = t2  c1 = c1
  NoTask = NoTask  NoJob = NoJob
  Jobs <- OneJob  Configs <- ConfigMaybe  Occ <- OccA  Recover <- RecoverA
  Retries <- OneRetry
  Apis = {c1}  Ops = {"add", "remove"}  Tasks = {t1, t2}
  KWakeGap = 0  MaxTime = 2  MaxStarts = 1  MaxQueue = 0
SPECIFICATION Spec
SYMMETRY TaskSymmetry
VIEW Unreported
INVARIANTS AtMostOneRun WorkersAccounted ExitLeavesNoWorker FailureAlerted MissClaimedOnce UpcomingNotLost NoRefire
PROPERTIES LastRunNeverBack ScanIsComplete

CONSTANTS
  a = a  t1 = t1  t2 = t2  c1 = c1
  NoTask = NoTask  NoJob = NoJob
  Jobs <- OneJob  Configs <- ConfigA  Occ <- OccA  Recover <- RecoverA
  Retries <- NoRetry
  Apis = {c1}  Ops = {}  Tasks = {t1, t2}
  KWakeGap = 1  MaxTime = 3  MaxStarts = 1  MaxQueue = 1
SPECIFICATION Spec
INVARIANT MissedNotUnderWay

CONSTANTS
  Sampler = Sampler  worker = worker  k1 = k1  k2 = k2
  Threads <- MCThreads  Polls <- MCPolls
  RingCap = 1  MaxAlerts = 2  MaxRestarts = 1
SPECIFICATION FairSpec
INVARIANTS DisplayedIsPosted PostedIsRecorded
PROPERTIES NoDoublePost PublishedIsSeen DisplayCatchesUp

CONSTANTS
  Timeouts = {0, 1, 4}  TicksPerSecond = 2  IntMax = 3  Cap = 1  PipeSize = 2
  Escapes = TRUE  Inherits = TRUE  MaxTicks = 3  MaxOutput = 2
SPECIFICATION FairSpec
INVARIANTS CaptureIsExact StatusIsTrue NeverKilledEarly
PROPERTY TimedRunEnds

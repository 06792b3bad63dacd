CONSTANTS
  Timeouts = {1}  TicksPerSecond = 1  IntMax = 1  Cap = 1  PipeSize = 1
  Escapes = FALSE  Inherits = FALSE  MaxTicks = 2  MaxOutput = 2
SPECIFICATION FairSpec
PROPERTY TimeoutEndsCommand

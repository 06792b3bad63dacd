CONSTANTS
  warm = warm  hot = hot  Bad = Bad
  Rules = {warm, hot}  Readings <- Levels  Duration <- Durations
  Cooldown <- Cooldowns  Critical = {hot}
  Hours = 4  StartHour = 3  EndHour = 1
  Steps <- Stepping  Files <- BothOrBad  MaxSamples = 4  MaxEdits = 1
SPECIFICATION FairSpec
INVARIANTS FiringIsExact RecoveryIsExact PushRespectsQuiet
PROPERTY ReloadApplied

CONSTANTS
  warm = warm  hot = hot  Bad = Bad
  Rules = {warm, hot}  Readings <- Levels  Duration <- Durations
  Cooldown <- Cooldowns  Critical = {hot}
  Hours = 4  StartHour = 3  EndHour = 1
  Steps <- Forward  Files <- Both  MaxSamples = 5  MaxEdits = 0
SPECIFICATION Spec
INVARIANT HeldUntilMorning

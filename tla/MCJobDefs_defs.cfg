CONSTANTS
  Absent = Absent
  Local <- MCLocal  KMaxMinutes = 18
  Names <- MCNames  Files <- MCFiles  Bodies <- MCBodies  Times <- MCTimes
SPECIFICATION Spec
INVARIANTS RestartKeepsJobs DefinitionsSound MissedMeetsNextRun
PROPERTY ShadowedRowKept

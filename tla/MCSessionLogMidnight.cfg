CONSTANTS
  DayLength = 3
  Zone = 1
  LastTick = 6
  SessionLimit = 1
  RecordLimit = 2
  FailureLimit = 0
  NoFile = NoFile
SPECIFICATION LogSpec
INVARIANTS
  RotatesOnGivenTime
CHECK_DEADLOCK FALSE

CONSTANTS
  DayLength = 3
  Zone = 1
  LastTick = 6
  SessionLimit = 2
  RecordLimit = 2
  FailureLimit = 0
  NoFile = NoFile
SPECIFICATION LogSpec
INVARIANTS
  OneFilePerSession
CHECK_DEADLOCK FALSE

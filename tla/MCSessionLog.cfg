CONSTANTS
  DayLength = 3
  Zone = 1
  LastTick = 6
  SessionLimit = 2
  RecordLimit = 3
  FailureLimit = 1
  NoFile = NoFile
SPECIFICATION LogSpec
INVARIANTS
  LogTypeOK
  CountedIsLogged
  UnreportedLossNeedsMidnight
  NoGaps
  WrittenOnceInOrder
  NamedFileHoldsAll
  UnracedInFileOfItsDay
PROPERTIES
  NothingOverwritten
CHECK_DEADLOCK FALSE

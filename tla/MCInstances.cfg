CONSTANTS
  Callers = {t1, t2, t3}
  NoThread = NoThread
  ServerLimit = 3
  FailureLimit = 1
SPECIFICATION FairInstSpec
INVARIANTS
  OneServer
  ReturnedAlive
  LoglessOnlyAfterThrow
  InstInv
PROPERTY
  CallsReturn

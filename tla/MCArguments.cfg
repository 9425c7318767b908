CONSTANTS
  Numbers <- MCNumbers
  Invalid = Invalid
  Absent = Absent
  Argv <- MCArgv
SPECIFICATION ArgumentsSpec
INVARIANTS
  ArgumentsTypeOK
  OutcomeAsMeant

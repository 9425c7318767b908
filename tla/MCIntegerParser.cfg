CONSTANTS
  MaxValue = 63
  Texts <- MCTexts
SPECIFICATION ParserSpec
INVARIANTS
  StoredIsExact
  ThrownIsRight

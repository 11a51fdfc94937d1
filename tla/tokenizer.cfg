SPECIFICATION Spec
CONSTANTS
  Columns = {0, 1, 2}
  MaxLexemes = 7
  MaxFStrings = 2
INVARIANTS
  EverythingYielded
  AssertionHolds
  IndentsIncrease
  StatementsAligned
PROPERTIES
  KeepsPromise
CHECK_DEADLOCK FALSE

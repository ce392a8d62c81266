SPECIFICATION Spec
CONSTANTS
  MaxRecords = 3
  Mishaps = {"reset", "restart", "power"}
INVARIANTS
  NewestErrorShown IInv
PROPERTIES
  EachErrorOnce

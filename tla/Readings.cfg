SPECIFICATION Spec
CONSTANTS
  Timeout = 2
  MaxTime = 3
  MaxChanges = 1
  MaxBoots = 1
INVARIANTS
  AlertRight OnlineRight LureAgeRight IInv

SPECIFICATION Spec
CONSTANTS
  HistorySize = 2
  Overlap = 3
  RescanInterval = 2
  Firmwares = {"old", "new"}
  Faults = {"lost"}
  MaxFaults = 1
  MaxTime = 5
INVARIANTS
  EachKillOnce

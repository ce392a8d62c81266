SPECIFICATION Spec
CONSTANTS
  HistorySize = 2
  Overlap = 3
  RescanInterval = 2
  Firmwares = {"old", "new"}
  Faults = {"power", "lost", "reset", "update", "between"}
  MaxFaults = 2
  MaxTime = 5
INVARIANTS
  CountedOnce NothingMissed LogScanned LastStrikeCounted
PROPERTIES
  KeepsTally ReplayResyncs

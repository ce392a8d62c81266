SPECIFICATION Spec
CONSTANTS
  Contents <- SomeContents
  Crc16 <- SomeCrc
  MaxSent = 3
  MaxMtu = 3
  MaxBuffer = 7
INVARIANTS
  NothingInvented WholeFramesArrive
CHECK_DEADLOCK FALSE

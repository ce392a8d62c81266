SPECIFICATION FairSpec
CONSTANTS
  NumSlots = 3
  NumTraps = 3
  Mice = {2}
  PartialPackets = {"model"}
  MaxMoves = 1
  Budget <- Once
INVARIANTS
  RestartIffReason OneSlotPerTrap RegistersTrapsDiscovered IInv
PROPERTIES
  Settles

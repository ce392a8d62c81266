SPECIFICATION FairSpec
CONSTANTS
  m1 = m1
  a1 = a1
  a2 = a2
  NoDev = NoDev
  Devices = {m1, a1}
  ModelOf <- ModelOfTrap
  HistoryDevices = {m1}
  NumSlots = 1
  MaxFailuresTracked = 3
  AutoAck = FALSE
  MaxSilences = 0
  ClockValid = TRUE
  WriteTime = TRUE
  Buttons = {"RESET_ALERT", "FORGET"}
  Healths = {"ok"}
INVARIANTS
  IInv
  SessionOnItsOwnTrap
PROPERTIES
  SessionEnds
  TakenUp

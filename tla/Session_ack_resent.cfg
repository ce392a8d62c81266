SPECIFICATION Spec
CONSTANTS
  m1 = m1
  a1 = a1
  a2 = a2
  NoDev = NoDev
  Devices = {m1}
  ModelOf <- ModelOfTrap
  HistoryDevices = {}
  NumSlots = 1
  MaxFailuresTracked = 3
  AutoAck = TRUE
  MaxSilences = 1
  ClockValid = FALSE
  WriteTime = TRUE
  Buttons = {"POLL", "TEST_FIRE"}
  Healths = {"ok"}
PROPERTY
  AcknowledgedNotResent
CHECK_DEADLOCK FALSE

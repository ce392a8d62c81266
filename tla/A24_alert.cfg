SPECIFICATION Spec
CONSTANTS
  Layouts = {"counts", "old"}
  MaxTime = 2
  Budget <- Alerts
INVARIANTS
  AckedIsAlerted LastStrikeRight InferredUntilRead
PROPERTIES
  NoFalseAlarm

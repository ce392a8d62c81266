SPECIFICATION Spec
CONSTANTS
  Wrap = 8
  Offsets = {0, 5}
  BackoffBase = 1
  BackoffMax = 3
  MaxShift = 2
  FailuresTracked = 3
  Intervals = {0, 4}
  ChangeMin = 2
  BurstGap = 1
  MinPackets = 3
  Cooldown = 4
  RecentlySeen = 2
  MaxTime = 9
INVARIANTS
  TypeOK PolledWhenDue
PROPERTIES
  BackoffKept ChangesPolledSeldom ActivationsAreBursts
CHECK_DEADLOCK FALSE

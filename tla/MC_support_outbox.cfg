SPECIFICATION Spec
CONSTANTS
  Msgs = {1, 2}
  Convs = {1, 2}
  Screens = {s1}
  MaxFaults = 1
  Closes = {1}
  None = None
VIEW View
CHECK_DEADLOCK FALSE
INVARIANTS
  NothingVanishes
  RepeatsFollowFaults
  DeliveredWhereWritten
  NothingStalls

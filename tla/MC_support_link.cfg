SPECIFICATION LiveSpec
CONSTANTS
  Slots = {a, b, c}
  MaxMessages = 2
  MaxFaults = 4
  Foreground = TRUE
  LeavesEarly = TRUE
  TokenThrows = TRUE
  None = None
CHECK_DEADLOCK FALSE
INVARIANTS
  ConnectedIsOpened
PROPERTIES
  MissedIsRecovered

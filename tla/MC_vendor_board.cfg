SPECIFICATION LiveSpec
CONSTANTS
  Orders = {o1}
  MaxOpens = 1
  MaxFaults = 1
CHECK_DEADLOCK FALSE
INVARIANTS
  HiddenIsDeciding
  PhotoComesFirst
PROPERTIES
  FinalStays
  BoardSettles

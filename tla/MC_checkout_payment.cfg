SPECIFICATION LiveSpec
CONSTANTS
  MaxSessions = 2
  MaxLeft = 1
  Credits = {"none", "part", "all"}
  MaxDeclines = 1
  MaxKills = 1
  MaxLost = 1
  FaultBudget = 2
CHECK_DEADLOCK FALSE
INVARIANTS
  BasketKeptUntilPaid
  PaidIsCaptured
  ChargedOnce
  CancelledIsUncharged
PROPERTIES
  CompletedIsFinal
  CapturedIsConfirmed

SPECIFICATION LiveSpec
CONSTANTS
  Capture = 100
  Lines <- NoLines
  LineValue <- NoPrices
  Scopes <- OneScope
  Faults = {"crash"}
  Commands = {}
  Caller <- CallerOf
  Scope <- FullScope
  Ask <- AskAll
  Requests = {"refund", "chefcancel"}
  Kind <- KindOf
  Amount <- Partly
  Target <- TargetOf
  ClientKey <- OwnKey
  Issues = {}
  Affected <- Naming
  Grant <- Granting
  Workers = {"request", "vendor", "sweep"}
  Tiers = {0, 50, 100}
  FullTier = 100
  Destination = "wallet"
CHECK_DEADLOCK FALSE
INVARIANTS
  NeverOverRefund
PROPERTIES
  DeferredIsPaid
  StuckIsFinished
  CancellationIsExecuted

SPECIFICATION Spec
CONSTANTS
  Capture = 100
  Lines <- NoLines
  LineValue <- NoPrices
  Scopes <- OneScope
  Faults = {"refused", "crash"}
  Commands = {}
  Caller <- CallerOf
  Scope <- FullScope
  Ask <- AskAll
  Requests = {"refund"}
  Kind <- KindOf
  Amount <- Partly
  Target <- TargetOf
  ClientKey <- OwnKey
  Issues = {}
  Affected <- Naming
  Grant <- Granting
  Workers = {"request", "vendor", "admin", "sweep"}
  Tiers = {0, 50, 100}
  FullTier = 100
  Destination = "original"
CHECK_DEADLOCK FALSE
INVARIANTS
  BookedWithinTotal

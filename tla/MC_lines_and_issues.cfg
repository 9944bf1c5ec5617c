SPECIFICATION Spec
CONSTANTS
  Capture = 100
  Lines <- TwoLines
  LineValue <- LinePrices
  Scopes <- OneScope
  Faults = {"refused", "crash", "persist"}
  Commands = {}
  Caller <- CallerOf
  Scope <- FullScope
  Ask <- AskAll
  Requests = {"line", "line2", "wallet"}
  Kind <- KindOf
  Amount <- Partly
  Target <- TargetOf
  ClientKey <- OwnKey
  Issues = {"i1", "i2"}
  Affected <- Naming
  Grant <- Granting
  Workers = {}
  Tiers = {0, 50, 100}
  FullTier = 100
  Destination = "original"
CHECK_DEADLOCK FALSE
INVARIANTS
  LineRefundedOnce
  PaidIsRecorded

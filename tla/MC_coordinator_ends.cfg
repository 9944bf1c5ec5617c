SPECIFICATION CoordinatorSpec
CONSTANTS
  Capture = 100
  Lines <- NoLines
  LineValue <- NoLineValue
  Scopes <- AllScopes
  Faults = {"lost"}
  Commands = {"customer", "chef", "sweep", "stale"}
  Caller <- CallerOf
  Scope <- ScopeOf
  Ask <- AskOf
CHECK_DEADLOCK FALSE
INVARIANTS
  EndedIsRefunded
PROPERTIES
  ClaimsEnd
  PaidOrderIsAnswered

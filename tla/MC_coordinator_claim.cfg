SPECIFICATION CoordinatorSpec
CONSTANTS
  Capture = 100
  Lines <- NoLines
  LineValue <- NoLineValue
  Scopes <- AllScopes
  Faults = {"refused", "crash", "persist"}
  Commands = {"part", "rest", "sweep"}
  Caller <- CallerOf
  Scope <- ScopeOf
  Ask <- AskOf
CHECK_DEADLOCK FALSE
INVARIANTS
  CommandTypeOK
  SoleClaimHolder
  SucceededMeansPaid
PROPERTIES
  PromiseKept

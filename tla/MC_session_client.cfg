SPECIFICATION LiveSpec
CONSTANTS
  Users = {u1}
  Requests = {r1, r2}
  ProviderSignOut = TRUE
  MaxSignIns = 1
  MaxLogouts = 1
  MaxGuests = 1
  MaxExpiries = 1
  MaxFailures = 1
  MaxStarts = 1
  MaxEvents = 3
  None = None
CHECK_DEADLOCK FALSE
INVARIANTS
  WaitersHaveRefresh
  LoggedOutStaysOut
PROPERTIES
  StaysSignedIn
  RequestsEnd

CONSTANTS
  Requests = {r1, r2}
  Processes = {p1}
  Ids = {a}
  None = None
  MaxConcurrency = 2
  MaxOffers = 2
  AcceptTimeoutLimit = 2
  Internal = TRUE
  MaxFaults = 0
SPECIFICATION FairSpec
PROPERTY LostTasksFail
CHECK_DEADLOCK FALSE

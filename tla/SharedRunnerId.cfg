CONSTANTS
  Requests = {r1}
  Processes = {p1, p2}
  Ids = {a}
  None = None
  MaxConcurrency = 1
  MaxOffers = 1
  AcceptTimeoutLimit = 2
  Internal = FALSE
  MaxFaults = 1
SPECIFICATION Spec
SYMMETRY Symmetry
INVARIANTS
  TypeOK
  NoForgottenRequest
  NoOrphans
  NoIdleMatch
  NoLostTask
PROPERTY KeepsPromise
CHECK_DEADLOCK FALSE

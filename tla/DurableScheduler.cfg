CONSTANTS
  h1 = h1
  h2 = h2
  Hosts = {h1, h2}
  Tasks = {"t"}
  None = None
  MaxAttempts = 2
  MaxDisruptions = 1
SPECIFICATION Spec
SYMMETRY Symmetry
INVARIANTS
  RunsWithinAttempts
  HonestOutcomes
  IInv
PROPERTIES
  OutcomesAreFinal
  OwnersAreFenced
  LiveLeasesAreRespected
  ImplementsLifecycle
CHECK_DEADLOCK FALSE

CONSTANTS
  Execs = {"e"}
  Nodes = {"t", "a", "b", "c"}
  Graphs <- AllGraphs
  None = None
  Executors = {"v1-node"}
  MaxFaults = 1
  MaxRedeliveries = 1
SPECIFICATION FairSpec
INVARIANTS
  StepsRunSoundly
  CompletedIsClean
  ChainsRunThrough
  NeverStranded
  IInv
PROPERTIES
  ImplementsLifecycle
  Ends
CHECK_DEADLOCK FALSE

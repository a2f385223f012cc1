CONSTANTS
  Limit = 1
  Execs = {e1, e2}
  Watched = {e1}
  MaxEvents = 2
  None = None
SPECIFICATION FairSpec
INVARIANTS
  SlotsAccounted
  SlotsComeBack
  OneAttemptWorks
  CaughtStopsHold
PROPERTIES
  EndedStaysEnded
  NeverLeftNew
CHECK_DEADLOCK FALSE

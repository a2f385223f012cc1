CONSTANTS
  h1 = h1
  h2 = h2
  Hosts = {h1}
  Tasks = {"t"}
  None = None
  MaxAttempts = 2
  MaxDisruptions = 2
SPECIFICATION FairSpec
PROPERTY EventuallySettled
CHECK_DEADLOCK FALSE

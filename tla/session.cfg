SPECIFICATION FairSpec
CONSTANTS
  p1 = p1
  p2 = p2
  p3 = p3
  NoOption = NoOption
  None = None
  Procs = {p1, p2, p3}
  Options <- SomeOptions
  Crashing = {p1, p3}
INVARIANTS TypeOK Owned
PROPERTIES LowestFree StartsEnd ServesRequests
CHECK_DEADLOCK FALSE

SPECIFICATION FairSpec
CONSTANTS
  Caller = {gui, network}
  Seeker = {s1, s2}
  Positions = {1, 2}
  Offsets <- BothWays
  CanStop = TRUE
  MaxCalls = 4
INVARIANTS TypeOK OneOwner NothingLeftOver IgnoreIsReleased
PROPERTY SeekEnds
CHECK_DEADLOCK FALSE

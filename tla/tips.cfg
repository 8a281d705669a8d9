SPECIFICATION FairSpec
CONSTANTS
  w1 = w1
  w2 = w2
  plain = plain
  Widget = {w1, w2, plain}
  Tipped = {w1, w2}
  Gui = Gui
  Others = {slider}
  None = None
  Quit = Quit
  MaxCalls = 4
INVARIANTS TypeOK OneWindow
PROPERTIES WaitsUntilHidden EveryWaitEnds
CHECK_DEADLOCK FALSE

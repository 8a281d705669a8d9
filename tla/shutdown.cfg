SPECIFICATION FairSpec
CONSTANTS
  Gui = Gui
  Listener = Listener
  Slider = Slider
  StdCtl = StdCtl
  Lirc = Lirc
  Session = Session
  Threads <- AllThreads
  MenuOpen = FALSE
  Kinds = {"input", "window", "quit"}
  MaxCalls = 2
INVARIANTS TypeOK NobodyLeftInside JoinedBeforeFreed OneExitIsSafe
PROPERTY ShutdownEnds
CHECK_DEADLOCK FALSE

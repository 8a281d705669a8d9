SPECIFICATION WinFairSpec
CONSTANTS
  h = h
  listener = listener
  Main = Main
  Vice = Vice
  Helper = {h}
  Gui = Gui
  Others = {listener}
  Nobody = Nobody
  Commands = {"panel", "video", "helper"}
  Roots = {FALSE, TRUE}
  Patient = TRUE
  MaxCalls = 4
  MaxTaskBar = 1
INVARIANTS WinTypeOK Reachable
PROPERTIES ComesToRest
CHECK_DEADLOCK FALSE

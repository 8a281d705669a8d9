SPECIFICATION WinSpec
CONSTANTS
  h = h
  listener = listener
  Main = Main
  Vice = Vice
  Helper = {h}
  Gui = Gui
  Others = {listener}
  Nobody = Nobody
  Commands = {"panel"}
  Roots = {FALSE}
  Patient = FALSE
  MaxCalls = 2
  MaxTaskBar = 0
INVARIANTS Reachable
CHECK_DEADLOCK FALSE

SPECIFICATION Spec
CONSTANTS
  a = a
  b = b
  bad = bad
  dead = dead
  odd = odd
  cfg = cfg
  NoMrl = NoMrl
  Gui = Gui
  Listener = Listener
  Slider = Slider
  Logo = Logo
  DisplayLogo = TRUE
  Mrl = {a, b, bad, dead, odd, cfg}
  Threads = {Gui}
  Bad = {bad}
  Dead = {dead}
  Odd = {odd}
  Cfg = {cfg}
  Titled = {a}
  Timed = {}
  Alternates <- NoAlternates
  Lists <- AnyLists
  Loops = {"no_loop", "loop", "repeat", "shuffle", "shuf_plus"}
  Commands = {"play", "stop", "step", "dblclick", "delete", "delete_all", "stop_after", "close"}
  Steps <- BothWays
  StdCtl = TRUE
  MayBeLate = FALSE
  MaxCommands = 3
  MaxEvents = 1
  MaxNesting = 2
  Started = FALSE
INVARIANTS TypeOK IgnoreIsReleased
PROPERTY StartsCurrent
CHECK_DEADLOCK FALSE

SPECIFICATION Spec
CONSTANTS
  a = a
  b = b
  bad = bad
  dead = dead
  odd = odd
  cfg = cfg
  NoMrl = NoMrl
  Gui = Gui
  Listener = Listener
  Slider = Slider
  Logo = Logo
  DisplayLogo = TRUE
  Mrl = {a, b, bad, dead, odd, cfg}
  Threads = {Gui, Listener, Slider}
  Bad = {bad}
  Dead = {dead}
  Odd = {}
  Cfg = {cfg}
  Titled = {}
  Timed = {a}
  Alternates <- NoAlternates
  Lists <- TimedLists
  Loops = {"no_loop"}
  Commands = {"play", "stop", "step", "dblclick"}
  Steps = {1}
  StdCtl = TRUE
  MayBeLate = TRUE
  MaxCommands = 1
  MaxEvents = 1
  MaxNesting = 2
  Started = TRUE
INVARIANTS NoDeadlock LogoOnItsWay
CHECK_DEADLOCK FALSE

SPECIFICATION FairSpec
CONSTANTS
  a = a
  b = b
  bad = bad
  dead = dead
  odd = odd
  cfg = cfg
  NoMrl = NoMrl
  Gui = Gui
  Listener = Listener
  Slider = Slider
  Logo = Logo
  DisplayLogo = TRUE
  Mrl = {a, b, bad, dead, odd, cfg}
  Threads = {Listener}
  Bad = {bad}
  Dead = {dead}
  Odd = {odd}
  Cfg = {cfg}
  Titled = {}
  Timed = {}
  Alternates <- NoAlternates
  Lists <- MixedLists
  Loops = {"no_loop", "loop", "repeat", "shuffle", "shuf_plus"}
  Commands = {}
  Steps = {}
  StdCtl = TRUE
  MayBeLate = FALSE
  MaxCommands = 0
  MaxEvents = 1
  MaxNesting = 2
  Started = TRUE
INVARIANT SomethingShows
PROPERTIES InTurn CallsEnd
CHECK_DEADLOCK FALSE

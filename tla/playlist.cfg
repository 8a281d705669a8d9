SPECIFICATION Spec
CONSTANTS
  a = a
  b = b
  Mrl = {a, b}
  NoMrl = NoMrl
  Chunk = 2
  GuessKinds = {0}
  FileSizes = {2}
  Modes = {"shuffle", "beyond"}
  Disc = {a}
  MaxEntries = 3
  MaxAlts = 1
  MaxLive = 3
INVARIANTS TypeOK CurInRange MoveContract
CHECK_DEADLOCK FALSE

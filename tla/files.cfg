SPECIFICATION UseSpec
CONSTANTS
  OneFd = f
  Fd = {f, g}
  Blank = Blank
  NrZones = 2
  ImmMax = 1
  BlockSize = 2
  MaxBlocks = 2
  Zones = 2
  Amount = {1, 3}
  Calls = {}
  RegularCalls = {"hole", "resize", "peek", "fault"}
CHECK_DEADLOCK FALSE
SYMMETRY Symmetry
INVARIANTS InodeInv
PROPERTIES IsFile WritesOnlyRange

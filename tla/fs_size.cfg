SPECIFICATION Spec
CONSTANTS
  Fd = {f}
  Blank = Blank
  NrZones = 3
  ImmMax = 2
  BlockSize = 3
  MaxBlocks = 2
  Zones = 2
  Amount = {1, 2, 4}
  Calls = {}
  RegularCalls = {}
CHECK_DEADLOCK FALSE
SYMMETRY Symmetry
INVARIANTS SizeAgrees

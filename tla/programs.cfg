SPECIFICATION ProgSpec
CONSTANTS
  Upper = 16
  Lower = 2
  Size = {2, 4, 8, 16}
  Pid = {a, b}
  Request = {1, 7, 17}
  Page = {0, 1, 2, 3}
  NumFrames = 2
  MaxRefs = 5
  Job = {0, 1, 2}
  Arrival = {0, 1, 3}
  Bursts <- MCBursts
  StrLen = 3
  IntBits = 5
  Arg = {3, 7}
  MaxArgs = 3
  PrivId = {0, 1, 2}
  StaticId = {0}
  NrDirect = 1
  NrIndirect = 2
  NrZones = 6
  BlockSize = 2
  NrBufs = 7
  NR_IOREQS = 4
  BLOCKS_MINIMUM = 3
  NrCells = 5
  Reach = 8
  NDirect = 2
  HeldBufs = {0, 2}
  Entry = {"a", "b", "c", "e"}
  Reclen <- MCReclen
  Mode <- MCMode
  PerBlock = 2
  TmpSize = 5
  BufSize = {3, 9}
  PipeUser = {1, 2}
  PipeBuf = 2
  PipeBytes = {1, 5}
  Height = 2
  Width = 3
  BlurAmount = 2
CHECK_DEADLOCK FALSE
INVARIANTS BuddyInv SharedMemoryInv PagesResident JobsAccounted ChainInOrder SendMasksCurrent
  ZonesExact BytesMovedOnce ListedOnce PipeCounts
PROPERTIES IsPool AllEnd OnlyThatBlock

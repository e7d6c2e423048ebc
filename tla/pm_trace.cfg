SPECIFICATION Spec
CONSTANTS
  NR_PROCS = 5
  LAST_FEW = 1
  INIT_PROC_NR = 1
  RS_PROC_NR = 2
  MaxPid = 7
  Caller = {1, 3, 4}
  WaitArg <- AnyOrPid
  Uid = {}
  Tracing = TRUE
  Sessions = FALSE
  Immortal = {1, 2}
CHECK_DEADLOCK FALSE
INVARIANTS IInv TableSafe
PROPERTIES ParentWaited

SPECIFICATION Spec
CONSTANTS
  NR_PROCS = 5
  LAST_FEW = 1
  INIT_PROC_NR = 1
  RS_PROC_NR = 2
  MaxPid = 5
  Caller = {2, 3, 4}
  WaitArg = {0}
  Uid = {1}
  Tracing = FALSE
  Sessions = TRUE
  Immortal = {2}
CHECK_DEADLOCK FALSE
INVARIANTS TypeOK NoSpuriousReply
PROPERTIES LifeCycle

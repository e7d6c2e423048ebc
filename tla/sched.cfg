SPECIFICATION FairSpec
CONSTANTS
  NR_PROCS = 3
  NR_SCHED_QUEUES = 3
  USER_Q = 1
  MIN_USER_Q = 2
  UINT_MAX = 14
  Builds <- MCBuilds
  Cpu = {0, 1, 2}
  BSP = 0
  Ready = {0, 2}
  MaxPrio = {1}
  Quantum = {1}
  MaxLoad = 1
CHECK_DEADLOCK FALSE
INVARIANTS TablesInStep PlacementInv
PROPERTIES ProcessesServed

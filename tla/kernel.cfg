SPECIFICATION Spec
CONSTANTS
  Manager = pm
  Service = {rs}
  User = {u}
  Diag = {rs}
  MaxSignals = 1
  MaxAsync = 1
  SYSTEM = SYSTEM
  ANY = ANY
  NONE = NONE
CHECK_DEADLOCK FALSE
INVARIANTS KernelInv DeadAreForgotten SignalNotLost
PROPERTIES HeldGoesOn

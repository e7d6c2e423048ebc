SPECIFICATION Spec
CONSTANTS
  Height = 2
  Width = 4
  BlurAmount = 3
  Semaphore = TRUE
CHECK_DEADLOCK FALSE
INVARIANTS LockHeld ReadsStayTrue
PROPERTIES SectionsAtomic Finishes

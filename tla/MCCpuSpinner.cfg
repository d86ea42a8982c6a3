\* Three cores, so that a number of cores differs from none, one and all;
\* a mask wider than that.
CONSTANTS
  NumCores = 3
  MaskWidth = 4
SPECIFICATION FairSpec
INVARIANTS
  NoLostWakeup
PROPERTIES
  SwitchedOnSpins
  SwitchedOffSleeps
  DestroyReturns
CHECK_DEADLOCK FALSE

\* Two expirations may pile up (one callback loop of two turns); the tick
\* counter holds six values, so that it overflows.
CONSTANTS
  CompensateMisses = FALSE
  IntMax = 2
  MaxExp = 2
SPECIFICATION FairSpec
INVARIANTS
  PauseQuiesces
  NoLostWakeup
PROPERTIES
  CallsReturn
  PausableSpec

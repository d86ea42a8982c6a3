\* One pass of a file of two whole blocks.
CONSTANTS
  BlockSize = 2
  FileLen = 4
  Passes = 1
  NULL = NULL
  Garbage = Garbage
  IntMax = 1
  MaxExp = 2
SPECIFICATION FairSpec
PROPERTIES
  StopReturns
CHECK_DEADLOCK FALSE

\* Three blocks, one more than there are slots, the last one of one sample.
CONSTANTS
  BlockSize = 2
  FileLen = 5
  Passes = 2
  NULL = NULL
  Garbage = Garbage
  IntMax = 1
  MaxExp = 2
SPECIFICATION FairSpec
INVARIANTS
  PlaysHeldSlot
  ReaderNeverSleeps
PROPERTIES
  SamplesInOrder
  StopIsSticky
  WriterProceeds
CHECK_DEADLOCK FALSE

\* Up to four options; both arrays can be filled up and overrun by two of them.
CONSTANTS
  MaxOpts = 4
  MAX_FREQ_SIZE = 4
  FRAME_MAX_PAYLOAD_SIZE = 3
  ListLens = {0, 1, 2, 3}
  MessageLens = {0, 2, 3, 4}
  MaxLoops = 2
  MaxPasses = 3
SPECIFICATION FairSpec
INVARIANTS
  WithinArrays
  EverySymbolHasTone
  Lifecycle
PROPERTIES
  RunsAsAsked
CHECK_DEADLOCK FALSE

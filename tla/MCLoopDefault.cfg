\* psplay without any option.
CONSTANTS
  MaxOpts = 0
  MAX_FREQ_SIZE = 4
  FRAME_MAX_PAYLOAD_SIZE = 3
  ListLens = {2}
  MessageLens = {2}
  MaxLoops = 2
  MaxPasses = 3
SPECIFICATION Spec
INVARIANT
  OnePassByDefault
CHECK_DEADLOCK FALSE

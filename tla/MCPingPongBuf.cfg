\* Two block values are enough to tell blocks apart in the two slots and the
\* reader's copy; nothing is counted, so the state space needs no bound.
CONSTANTS
  Block = {b1, b2}
  NoBlock = none
SPECIFICATION FairSpec
INVARIANTS
  SlotExclusive
  AvailableStaysTrue
  NoLostWakeup
  NeverBothAsleep
PROPERTIES
  WriterProceeds
  ChannelSpec

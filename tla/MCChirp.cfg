\* Seconds of three nanoseconds; tones shorter than, as long as and longer than a
\* second.
CONSTANTS
  GIGA = 3
  Steps = 3
  Durations <- ShortTones
  MaxNow = 9
  MaxExp = 2
SPECIFICATION FairSpec
INVARIANTS
  NeverEarly
  OneTimer
PROPERTIES
  SleepsTheSlack
  ChirpReturns
CHECK_DEADLOCK FALSE

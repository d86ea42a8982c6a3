\* Two tones, one to switch from and one to switch to; two expirations may
\* pile up, so that a turn has more than one callback.
CONSTANTS
  NTones = 2
  MaxExp = 2
SPECIFICATION FairSpec
INVARIANTS
  OneToneAtATime
  SilentBeforeDestroy
PROPERTIES
  ToggleIsAtomic
  CallsReturn
  TimersSpec

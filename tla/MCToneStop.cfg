\* The claim that the cores are idle once the generator has been destroyed.
CONSTANTS
  NTones = 2
  MaxExp = 2
SPECIFICATION FairSpec
INVARIANT SilentWhenInactive

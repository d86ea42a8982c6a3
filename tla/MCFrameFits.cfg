\* The program's own capacity and preamble, 2 and 16 frequencies; messages and
\* parities up to what 255 octets of payload allow.
CONSTANTS
  Cap = 2620
  MaxPayload = 255
  SIZE_MAX = 65535
  MessageLens = {0, 204, 212, 255}
  ParityLens = {0, 41, 43}
  PreambleLens = {5}
  MExps = {1, 4}
  Content = {0}
SPECIFICATION Spec
INVARIANTS
  FrameFits

\* The framer: all octets; a capacity of 62 bits takes some of the frames,
\* refuses some, and takes some only without the delimiter; the longest
\* preamble makes the length wrap.
\* The stream: octets of three bits keep the memory small; a write of four bits
\* and a symbol of four bits still span two octets from most positions, three
\* octets hold the seven bits of capacity, and the last octet is not full.
CONSTANTS
  Cap = 62
  MaxPayload = 255
  SIZE_MAX = 4095
  MessageLens = {1}
  ParityLens = {0, 1}
  PreambleLens = {2, 4, 4095}
  MExps = {1, 3}
  Content <- Octet
  OctetBits = 3
  Capacity = 7
  MaxWrite = 4
  MaxSymbol = 4
SPECIFICATION MCSpec
INVARIANTS
  LengthIsAnnounced
  Balanced
  Decodable
  InBounds
  SentIsStored
PROPERTIES
  Synchronizes
  AppendsBits

\* Bytes of four bits, a checksum of eight that turns by three, three samples;
\* the root starts at 4^3.
SPECIFICATION LoopSpec
CONSTANTS
  N = 3
  Samples <- SignedBytes
  Powers <- PowersOfTwo
  TopPower = 8
  Byte = 16
  Turn = 8
  Wave = 10
  Swing = 2
  Seed = 68
  Increment = 185
  ByteXor <- ExclusiveOr
INVARIANTS LoopTypeOK RootExact StatsAgree ValidIffIntact

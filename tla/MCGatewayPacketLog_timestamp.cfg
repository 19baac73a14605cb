\* A line whose timestamp reads as the magic.
SPECIFICATION LogSpec
CONSTANTS
  PacketLen = 5
  CrcLen = 2
  Texts <- SomeTexts
  Packets <- SomePackets
  Tails <- SomeTails
  MaxLines = 1
INVARIANTS TimestampsAvoided
CHECK_DEADLOCK FALSE

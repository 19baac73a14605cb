\* Every input of two lines, strict or not.
SPECIFICATION LogSpec
CONSTANTS
  PacketLen = 5
  CrcLen = 2
  Texts <- SomeTexts
  Packets <- SomePackets
  Tails <- SomeTails
  MaxLines = 2
INVARIANTS LogTypeOK IntactPacketLogged ExitExplained
CHECK_DEADLOCK FALSE

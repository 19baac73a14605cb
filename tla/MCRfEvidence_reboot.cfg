\* The gateway is restarted while the logs are captured.
SPECIFICATION EvidenceSpec
CONSTANTS
  SuiteFrames = 3
  SeqMod = 9
  RfAdversary <- TwoPowerOns
  MaxDisturbances = 2
  LastSequence = 6
  MaxLostLines = 0
INVARIANTS EvidenceSound
CHECK_DEADLOCK FALSE

\* Every disturbance, two at a time, and a line of the logs lost; the sequence
\* wraps.
SPECIFICATION EvidenceFairSpec
CONSTANTS
  SuiteFrames = 3
  SeqMod = 8
  RfAdversary <- AllDisturbances
  MaxDisturbances = 2
  LastSequence = 100
  MaxLostLines = 1
INVARIANTS RfTypeOK PassedWindowHeard OneDisturbanceOneSuite SessionSound ProcedureSuffices
PROPERTIES SuitesKeepPassing
CHECK_DEADLOCK FALSE

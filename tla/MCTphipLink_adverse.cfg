\* Everything may go wrong, at any moment, and the host may be restarted.
SPECIFICATION FairSpec
CONSTANTS
  Tests <- ShortSuite
  Adversary <- AllFaults
  MaxFaults = 2
  MaxRestarts = 1
  Prompt = FALSE
INVARIANTS TypeOK Provenance GenuineAnswer ReadyFollowsTransfer
PROPERTIES ImplementsRpc HostTerminates ReadyReturnsLow
CHECK_DEADLOCK FALSE

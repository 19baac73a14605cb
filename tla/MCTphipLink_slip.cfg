\* No fault at all, but an endpoint slower than the host's READY timeout.
SPECIFICATION Spec
CONSTANTS
  Tests <- ShortSuite
  Adversary <- NoFaults
  MaxFaults = 0
  MaxRestarts = 0
  Prompt = FALSE
INVARIANTS ReadyPromise
CHECK_DEADLOCK FALSE

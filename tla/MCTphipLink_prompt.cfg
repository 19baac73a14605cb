\* A prompt endpoint, the probe's whole suite and the faults the protocol
\* absorbs.
SPECIFICATION Spec
CONSTANTS
  Tests <- FullSuite
  Adversary <- MildFaults
  MaxFaults = 2
  MaxRestarts = 1
  Prompt = TRUE
INVARIANTS HealthyLinkPasses BoundedDamage ResponsePhaseArmed GenuineAnswer
CHECK_DEADLOCK FALSE

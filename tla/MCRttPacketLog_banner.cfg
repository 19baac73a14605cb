\* A log that begins with the gateway's banner, nothing cut.
SPECIFICATION RttSpec
CONSTANTS
  MaxWindows = 2
  MaxRestarts = 2
  MaxCuts = 0
INVARIANTS PacketLinesOnly
\* The log ends.
CHECK_DEADLOCK FALSE

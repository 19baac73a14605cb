\* Whole and cut lines of a gateway or a node, with up to two restarts.
SPECIFICATION RttSpec
CONSTANTS
  MaxWindows = 2
  MaxRestarts = 2
  MaxCuts = 1
INVARIANTS RttTypeOK WindowsRecorded RaiseExplained
\* The log ends.
CHECK_DEADLOCK FALSE

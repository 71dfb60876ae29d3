SPECIFICATION Spec
CONSTANTS
  Dests = {d1, d2}
  Faults = TRUE
  MaxCalls = 6
INVARIANTS
  AskedAreNeverLost
SYMMETRY Symmetric
CHECK_DEADLOCK FALSE

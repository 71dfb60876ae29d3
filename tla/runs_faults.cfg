SPECIFICATION Spec
CONSTANTS
  Runs = {r1, r2}
  Packages = {p1, p2}
  NoPackage = NoPackage
  Sources = {s1, s2}
  Clients = {c1, c2}
  Crashes = TRUE
  DbFaults = TRUE
  Purges = TRUE
SYMMETRY Symmetry
INVARIANTS SingleActive OverMeansStopped KeyMarksActive
CHECK_DEADLOCK FALSE

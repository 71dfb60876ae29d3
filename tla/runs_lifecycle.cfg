SPECIFICATION FairSpec
CONSTANTS
  Runs = {r1, r2}
  Packages = {p1}
  NoPackage = NoPackage
  Sources = {s1}
  Clients = {c1, c2}
  Crashes = FALSE
  DbFaults = FALSE
  Purges = FALSE
INVARIANT SingleBuilder
PROPERTIES ImplementsLifecycle RunsSettle
CHECK_DEADLOCK FALSE

SPECIFICATION SchedulerSpec
CONSTANTS
  Packages = {p1}
  NoPackage = NoPackage
  Crons = {1, 2}
  NoCron = NoCron
  NextAfter <- Periodic
  Ticks = {t1, t2}
  MaxFires = 1
  Faults = TRUE
  MaxTime = 2
INVARIANTS
  NothingSkipped
PROPERTIES
  OneRunPerOccurrence
SYMMETRY Symmetry
CHECK_DEADLOCK FALSE

SPECIFICATION Spec
CONSTANTS
  Queries = {q1, q2}
  Streams = {s1}
  Tools = {t1}
  Limits = {0, 1}
INVARIANTS
  SlotsAreExact
  SlotsAreReturned
  NeverReadyAgain
  NothingIsCutOff
PROPERTIES
  ShutdownEnds
CHECK_DEADLOCK FALSE

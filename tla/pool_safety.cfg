SPECIFICATION FairSpec
CONSTANTS
  Jobs = {j1, j2, j3}
  MaxWorkers = 2
INVARIANTS InFlightIsRunning NoStrandedJob
PROPERTIES LoadsSettle ShutdownCompletes
CHECK_DEADLOCK FALSE

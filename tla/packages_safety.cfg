SPECIFICATION FairSpec
CONSTANTS
  Clients = {c1, c2}
  MaxCalls = 5
  MaxTrees = 3
INVARIANTS ServesDisk MapsAgree HandlesAccountedFor NothingLeftBehind
PROPERTIES RefusedChangesNothing CallsReturn
CHECK_DEADLOCK FALSE

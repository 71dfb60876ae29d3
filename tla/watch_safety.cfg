SPECIFICATION WatchSpec
CONSTANTS
  Envs = {e1, e2}
  Starters = {s1, s2}
  Stoppers = {p1}
  MaxWatchers = 3
  MaxEdits = 2
INVARIANTS
  NoOrphan
  LastEditIsShown
SYMMETRY Symmetric
CHECK_DEADLOCK FALSE

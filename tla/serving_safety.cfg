SPECIFICATION Spec
CONSTANTS
  Sources = {s1, s2}
  Addresses = {a1, a2}
  NoTable = NoTable
  MaxRuns = 3
  Regimes <- AllRegimes
SYMMETRY Symmetry
INVARIANTS
  OrderlyManifestHolds
  ServesItsSql
  BoundIsLatest
  BoundIsRecorded
  StagingReclaimed

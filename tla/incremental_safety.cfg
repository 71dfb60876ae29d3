SPECIFICATION Spec
CONSTANTS
  Sqls = {q1, q2}
  Keys = {k1, k2}
  MaxTime = 3
  None = None
  Regimes <- SoundRegimes
SYMMETRY Symmetry
INVARIANTS
  SoundNeverLeads
  RefreshIsCurrent
  UniqueKeys

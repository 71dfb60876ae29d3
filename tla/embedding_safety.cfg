SPECIFICATION Spec
CONSTANTS
  p1 = p1
  p2 = p2
  f1 = f1
  f2 = f2
  t1 = t1
  t2 = t2
  Instances = {p1, p2}
  Facets = {f1, f2}
  Texts = {t1, t2}
  Models = {"model1", "model2"}
  Dims = {384, 768}
  Desired <- DesiredValue
  NoText = NoText
  Syncs = {s1, s2}
  Calls = {c1, c2}
  Metas = {m1, m2}
  NoMeta = NoMeta
  NoJob = NoJob
  Faults = TRUE
  MaxCalls = 4
INVARIANTS
  AnswersAreWhole
  MemoTellsTruth
  OneWriter
  MutexIsOwned
SYMMETRY Symmetric
CHECK_DEADLOCK FALSE

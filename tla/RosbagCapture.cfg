SPECIFICATION Spec
CONSTANTS
  Codes = {c1, c2, c3}
  c1 = c1
  c2 = c2
  c3 = c3
  NoCode = NoCode
  Topics = {t1}
  t1 = t1
  EntityMode = TRUE
  Scope <- Scoped
  Configs <- MCConfigs
  ResolveMayFail = TRUE
  AutoCleanup = TRUE
  MaxAttached = 1
  MaxBagsPerFault = 1
  MaxTotal = 2
  BagSizes = {1, 2}
  BufferCap = 1
  MaxConfirms = 3
  MaxMessages = 2
SYMMETRY CodeSymmetry
INVARIANTS RowsMatchBags MessageOnce ClearedHasNoRows 
PROPERTIES BurstIsCovered
CHECK_DEADLOCK FALSE

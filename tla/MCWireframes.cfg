SPECIFICATION Spec
CONSTANTS
  Version = {v1, v2}
  Builder = Builder
  None = None
  Thread = {t1, t2}
  MaxCrossings = 1
  MaxFailures = 1
SYMMETRY Symmetry
INVARIANTS
  TypeOK
  ServesItsLayout
  OneActiveLayout
  CacheIsActive

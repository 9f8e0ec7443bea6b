SPECIFICATION Spec
CONSTANTS
  Push = {p1, p2}
  Callback = {c1, c2}
  Rollback = {r1}
  NoThread = NoThread
  Key = {k1}
  NoKey = NoKey
SYMMETRY Symmetry
INVARIANTS
  TypeOK
  PushNumbersDiffer
  NoPushDuringRollback
  RestoresWhatWasGood

SPECIFICATION Spec
CONSTANTS
  s1 = s1
  s2 = s2
  Serial <- Serials
  Key <- Keys
  Label <- Labels
  Rekey <- Appended
  Ip = {i1, i2}
  Name = {n1, n2}
  None = None
  Thread = {t1, t2}
  MaxCalls = 3
SYMMETRY Symmetry
INVARIANTS
  TypeOK
  OneRecordPerUnit
PROPERTY NoUnitIsOverwritten
CHECK_DEADLOCK FALSE

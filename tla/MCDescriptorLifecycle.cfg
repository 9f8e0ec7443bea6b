SPECIFICATION Spec
CONSTANTS
  Doc = {d1, d2}
  User = {u1, u2}
  Nobody = Nobody
  Nothing = Nothing
  Request = {r1, r2}
  WithParams = {d1, d2}
  WithRules = {d1}
  MaxFailures = 1
  MaxOverlaps = 3
SYMMETRY Symmetry
INVARIANTS
  TypeOK
  OnlyReviewedGoesLive
  OneActiveVersion
  DeprecatedPointerIsHonest
  PurgedLeavesNothing
CHECK_DEADLOCK FALSE

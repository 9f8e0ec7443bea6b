SPECIFICATION FairSpec
CONSTANTS
  Preview = {p1, p2}
  Request = {r1, r2}
  Executor = {e1}
  Key = {k1}
  NoKey = NoKey
  Count = {1, 2}
  Role = {"network_engineer", "operator"}
  CountTolerance = 0
  PreviewTtl = 1
  MaxClock = 2
INVARIANTS
  TypeOK
  RetryGetsTheSameJob
  NoReplayAfterAccept
PROPERTIES
  PreviewsLeaveMemory

SPECIFICATION Spec
CONSTANTS
  Version = {v1, v2}
  Builder = Builder
  None = None
  Thread = {t1}
  MaxCrossings = 2
  MaxFailures = 0
INVARIANT ActiveStaysLoadable

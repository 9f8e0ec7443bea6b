SPECIFICATION Spec
CONSTANTS
  Device = {d1, d2}
  Job = {j1, j2, j3}
  NoJob = NoJob
  MarkerTtl = 1
  MaxClock = 2
SYMMETRY Symmetry
INVARIANTS
  TypeOK
  ExclusiveWithinTtl
  BlockedOnlyByLive
PROPERTIES
  LiveMarkerOnlyFreedByOwner
  ImplementsDeviceLock

SPECIFICATION FairSpec
CONSTANTS
  Device = {d1}
  Command = {c1, c2}
  Nothing = Nothing
  CommandTtl = 1
  MaxClock = 3
  MaxCheckIns = 2
  MaxCrashes = 1
  MaxAborts = 1
INVARIANTS
  TypeOK
  FifoPerDevice
  StatusIsHonest
  CheckInServed
PROPERTIES
  CheckInsAreCommitted
  CommandsSettle

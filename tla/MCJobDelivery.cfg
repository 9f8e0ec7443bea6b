SPECIFICATION FairJobSpec
CONSTANTS
  Device = {d1, d2}
  MaxCrashes = 2
  MaxAborts = 1
  MaxUnsupported = 1
INVARIANTS
  RoutedCountsMatch
  PushesNeedDeliveries
PROPERTIES
  ImplementsConsumer
  SentIsCommitted

SPECIFICATION LimitSpec
CONSTANTS
  LSockets = {s1, s2, s3}
  MaxConnections = 2
  Kinds = {conn, realm}
  ConnKind = conn
  RealmKind = realm
  Burst <- MCBurst
  Cost <- MCCost
  BucketIdle = 3
  PruneInterval = 1
  NoBucket = NoBucket
  MaxLimitClock = 6
  MaxTakes = 4
CHECK_DEADLOCK FALSE
INVARIANT RealmRate

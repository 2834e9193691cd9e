INIT RealmInit
NEXT JoinNext
CONSTANTS
  ConfiguredRealms = {r1, r2}
  Default = Default
  RSockets = {s1}
  RKeys = {k1, k2}
  RTokens = {t1}
  NoKey = NoKey
  GracePeriod = 1
  RealmTtl = 1
  RealmStores = {"memory"}
  Crossing = TRUE
  MaxRealmClock = 1
  MaxCommanded = 3
  MaxJoins = 2
  MaxTogether = 5
CHECK_DEADLOCK FALSE
INVARIANT OnlineIsConnected

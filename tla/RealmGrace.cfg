INIT RealmInit
NEXT RotateNext
CONSTANTS
  ConfiguredRealms = {r1, r2}
  Default = Default
  RSockets = {s1}
  RKeys = {k1, k2, k3}
  RTokens = {t1}
  NoKey = NoKey
  GracePeriod = 1
  RealmTtl = 2
  RealmStores = {"memory"}
  Crossing = FALSE
  MaxRealmClock = 2
  MaxCommanded = 4
  MaxJoins = 2
  MaxTogether = 6
CHECK_DEADLOCK FALSE
INVARIANT GraceIsHonoured

SPECIFICATION BrokerSpec
CONSTANTS
  s1 = s1
  s2 = s2
  i1 = i1
  i2 = i2
  r1 = r1
  r2 = r2
  e2 = e2
  Accounts = {u1}
  PoolMax = 2
  BatchMax = 2
  MaxInstalls = 2
  MaxPrekeys = 4
  MaxCrashes = 2
  MaxWriteErrors = 1
  ChatSessions = {c1}
  Refs = {f1}
  NoRef = NoRef
  Ttl = 1
  WindowMs = 2
  UploadCap = 2
  MaxTickets = 2
  RemoteSessions = {r1, r2}
  RemoteSockets = {k1, k2}
  NoAgent = NoAgent
  MaxClock = 3
  MaxIssued = 4
  WakeIdentities = {d1}
  Topics = {d1, d2}
  Tokens = {t1, t2, t3}
  UrlTokens = {t2}
  MaxPerIdentity = 2
  MaxIdentities = 1
  IdleTtl = 1
  Coalesce = 2
  MaxPushClock = 2
  MaxPushSteps = 5
  FcmSends = {f1, f2}
  ApnsSends = {a1, a2}
  Lifetimes = {3, 5}
  Margin = 2
  Timeout = 2
  Refresh = 2
  AppleMax = 4
  NoToken = NoToken
  NoSessionNo = NoSessionNo
  MaxTransportClock = 8
  MaxOpened = 3
  LSockets = {l1, l2}
  MaxConnections = 1
  Kinds = {conn, realm}
  ConnKind = conn
  RealmKind = realm
  Burst <- MCBurst
  Cost <- MCCost
  BucketIdle = 2
  PruneInterval = 1
  NoBucket = NoBucket
  MaxLimitClock = 4
  MaxTakes = 3
  Transfers <- MCTransfers
  Total = 3
  MaxRefused = 1
  Proofs = {p1}
  ProofWindow = 2
  SweepSize = 1
  PublishTokens = {own, w1}
  OwnToken = own
  NoPublishToken = none
  BoardKeys = {b1, b2}
  BeatTtls = {0, 1}
  MaxNotifyClock = 5
  MaxPosts = 2
  MaxKills = 1
  MaxRuns = 2
  ConfiguredRealms = {r1, r2}
  Default = Default
  RSockets = {w1}
  RKeys = {k1, k2}
  RTokens = {t1}
  NoKey = NoKey
  GracePeriod = 1
  RealmTtl = 1
  RealmStores = {"memory", "redis"}
  Crossing = FALSE
  MaxRealmClock = 1
  MaxCommanded = 3
  MaxJoins = 2
  MaxTogether = 4
  Clients = {e1, e2}
  SseTickets = {k1}
  HistoryStores = {"memory", "redis"}
  SseCap = 1
  ReplayMax = 2
  PendingMax = 2
  MaxPublished = 3
  MaxInRedis = 2
  MaxConnects = 3
  MaxEvents = 5
  MaxMillis = 1
  StoredIds = {m1, m2}
  LapsingIds = {m2}
  MaxStoreOps = 4
  MaxStoreCrashes = 1
CONSTRAINTS
  ThreePasses
  EndedByCommand
  FirstRealm
  FirstClient
CHECK_DEADLOCK FALSE
INVARIANTS
  TakenOnce
  DirectoryIsSound
  TicketsAreSound
  WakePerAbsence
  EndpointsAreKept
  TransportsAreSound
  ConnectionsAreLimited
  ProducedWhenWhole
  TopicsAreGuarded
  AlarmsAlternate
  NoKeyOutlivesItsGrace
  NothingOutlivesItsRealm
  OnlineIsConnected
  StreamsAreWhole
PROPERTIES
  KeepsThePromise

SPECIFICATION ClusterSpec
CONSTANTS
  Nodes = {n1, n2}
  Proofs = {p1}
  MaxAge = 2
  PruneEvery = 2
  Clustered = TRUE
  MaxNow = 6
  MaxRestarts = 1
  MaxOutages = 1
  Brokers = {b1, b2}
  ManagedRealms = {r1, r2}
  Writers = {b1}
  Crashable = {b2}
  ColdStart = FALSE
  SlowReads = FALSE
  MaxCommands = 3
  MaxStops = 1
  NoDocument = NoDocument
  AuthBrokers = {a1, a2}
  AskingClients = {c1}
  MaxAsks = 2
  MaxDecides = 2
  MaxPending = 2
  RelayBrokers = {d1, d2}
  Subscribers = {plain, durable, member1, member2}
  plain = plain
  durable = durable
  member1 = member1
  member2 = member2
  Group = Group
  NoGroup = NoGroup
  Nowhere = Nowhere
  Profiles <- MCProfiles
  MaxSent = 1
  MaxMoves = 5
  KeyBrokers = {b1, b2}
  KeyRealms = {r1, r2}
  Owners = {i1, i2}
  KeyIds = {k1, k2}
  Publishers = {b1}
  LateBrokers = {b2}
  MaxKeys = 1
  MaxPublications = 2
  MaxPurges = 1
CHECK_DEADLOCK FALSE
INVARIANTS
  ClusterTypeOK
  SecondUseOnlyAtTheEdge
  SettingsAgree
  DecisionsAreTold
  RelayReachesEach
  LookupsAgree
PROPERTIES
  ExecutedApart
  AcceptedApart

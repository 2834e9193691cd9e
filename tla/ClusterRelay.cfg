SPECIFICATION RelaySpec
CONSTANTS
  RelayBrokers = {b1, b2}
  Subscribers = {plain, durable, member1, member2}
  plain = plain
  durable = durable
  member1 = member1
  member2 = member2
  Group = Group
  NoGroup = NoGroup
  Nowhere = Nowhere
  Profiles <- MCProfiles
  MaxSent = 2
  MaxMoves = 6
CHECK_DEADLOCK FALSE
INVARIANT OfflineIsStored

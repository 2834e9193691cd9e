SPECIFICATION TopicSpec
CONSTANTS
  Proofs = {p1}
  ProofWindow = 2
  SweepSize = 1
  PublishTokens = {own, w1}
  OwnToken = own
  NoPublishToken = none
  BoardKeys = {b1}
  BeatTtls = {0, 1}
  MaxNotifyClock = 5
  MaxPosts = 2
  MaxKills = 1
  MaxRuns = 2
CHECK_DEADLOCK FALSE
INVARIANT OnceUnlessAhead

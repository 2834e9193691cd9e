SPECIFICATION FairSpec
CONSTANTS
    Consumers = {c1}
    Sockets = {s1, s2}
    Ids = {m1, m2}
    Calls = {k1}
    NoSocket = NoSocket
    NoConsumer = NoConsumer
    NoId = NoId
    NoSubscription = NoSubscription
    MaxAttempts = 2
    SyncStore = TRUE
    Capped = TRUE
    NoCount = NoCount
    MaxQueued = 1
    Offered <- Options
    MaxSubscribes = 2
    MaxFailures = 0
    MaxRestarts = 1
    MaxExpiries = 1
INVARIANT
    QueueWithinQuota
PROPERTY
    QueueDrains
CHECK_DEADLOCK FALSE

SPECIFICATION FairSpec
CONSTANTS
    Consumers = {c1}
    Sockets = {s1, s2}
    Ids = {m1}
    Calls = {k1}
    NoSocket = NoSocket
    NoConsumer = NoConsumer
    NoId = NoId
    NoSubscription = NoSubscription
    MaxAttempts = 2
    SyncStore = FALSE
    Capped = TRUE
    NoCount = NoCount
    MaxQueued = 9
    Offered <- Reliable
    MaxSubscribes = 2
    MaxFailures = 0
    MaxRestarts = 0
    MaxExpiries = 0
PROPERTY
    QueueDrains
CHECK_DEADLOCK FALSE

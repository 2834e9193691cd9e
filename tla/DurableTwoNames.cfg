SPECIFICATION Spec
CONSTANTS
    Consumers = {c1, c2}
    Sockets = {s1}
    Ids = {m1}
    Calls = {k1}
    NoSocket = NoSocket
    NoConsumer = NoConsumer
    NoId = NoId
    NoSubscription = NoSubscription
    MaxAttempts = 1
    SyncStore = TRUE
    Capped = FALSE
    NoCount = NoCount
    MaxQueued = 9
    Offered <- Durable
    MaxSubscribes = 2
    MaxFailures = 0
    MaxRestarts = 0
    MaxExpiries = 0
INVARIANT
    OfflineMessagesAreStored
CHECK_DEADLOCK FALSE

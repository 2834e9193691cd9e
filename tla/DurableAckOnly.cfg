SPECIFICATION Spec
CONSTANTS
    Consumers = {c1}
    Sockets = {s1}
    Ids = {m1}
    Calls = {k1}
    NoSocket = NoSocket
    NoConsumer = NoConsumer
    NoId = NoId
    NoSubscription = NoSubscription
    MaxAttempts = 1
    SyncStore = TRUE
    Capped = FALSE
    NoCount = NoCount
    MaxQueued = 9
    Offered <- Options
    MaxSubscribes = 1
    MaxFailures = 0
    MaxRestarts = 1
    MaxExpiries = 0
INVARIANT
    AckSubscriptionIsServed
CHECK_DEADLOCK FALSE

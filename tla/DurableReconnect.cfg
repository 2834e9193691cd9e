SPECIFICATION Spec
CONSTANTS
    Consumers = {c1}
    Sockets = {s1, s2, s3}
    Ids = {m1}
    Calls = {k1, k2}
    NoSocket = NoSocket
    NoConsumer = NoConsumer
    NoId = NoId
    NoSubscription = NoSubscription
    MaxAttempts = 3
    SyncStore = FALSE
    Capped = TRUE
    NoCount = NoCount
    MaxQueued = 9
    Offered <- Durable
    MaxSubscribes = 3
    MaxFailures = 0
    MaxRestarts = 0
    MaxExpiries = 0
SYMMETRY Symmetry
INVARIANTS
    TypeOK
    AckedByRecipient
    DeadLetteredAfterAllAttempts
    OfflineMessagesAreStored
CHECK_DEADLOCK FALSE

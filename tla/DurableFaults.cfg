SPECIFICATION Spec
CONSTANTS
    Consumers = {c1}
    Sockets = {s1, s2}
    Ids = {m1, m2}
    Calls = {k1}
    NoSocket = NoSocket
    NoConsumer = NoConsumer
    NoId = NoId
    NoSubscription = NoSubscription
    MaxAttempts = 1
    SyncStore = FALSE
    Capped = FALSE
    NoCount = NoCount
    MaxQueued = 9
    Offered <- Reliable
    MaxSubscribes = 2
    MaxFailures = 2
    MaxRestarts = 1
    MaxExpiries = 0
SYMMETRY Symmetry
CONSTRAINT FaultsApart
INVARIANTS
    NoMessageLost
    AckedStaysOut
    DeliveredWasStored
CHECK_DEADLOCK FALSE

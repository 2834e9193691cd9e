SPECIFICATION FairSpec
CONSTANTS
    Identities = {i1}
    Sockets = {s1}
    Blobs = {b1, b2}
    NoSocket = NoSocket
    NoMeta = NoMeta
    NoBlob = NoBlob
    NoIdentity = NoIdentity
    CountsRealm = TRUE
    MaxQueuedRealm = 1
    MaxQueuedRecipient = 2
    Batch = 1
    MaxOldDrains = 1
    MaxExpiries = 0
    MaxFailures = 0
    MaxRestarts = 0
INVARIANTS
    NoMoreMeansDone
PROPERTY
    DrainsEnd
CHECK_DEADLOCK FALSE

SPECIFICATION Spec
CONSTANTS
    Identities = {i1}
    Sockets = {s1}
    Blobs = {b1, b2}
    NoSocket = NoSocket
    NoMeta = NoMeta
    NoBlob = NoBlob
    NoIdentity = NoIdentity
    CountsRealm = FALSE
    MaxQueuedRealm = 1
    MaxQueuedRecipient = 1
    Batch = 1
    MaxOldDrains = 0
    MaxExpiries = 0
    MaxFailures = 0
    MaxRestarts = 0
INVARIANT
    InboxWithinCap
CHECK_DEADLOCK FALSE

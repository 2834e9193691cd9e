SPECIFICATION Spec
CONSTANTS
    Identities = {i1}
    Sockets = {s1, s2}
    Blobs = {b1}
    NoSocket = NoSocket
    NoMeta = NoMeta
    NoBlob = NoBlob
    NoIdentity = NoIdentity
    CountsRealm = FALSE
    MaxQueuedRealm = 1
    MaxQueuedRecipient = 2
    Batch = 1
    MaxOldDrains = 1
    MaxExpiries = 1
    MaxFailures = 1
    MaxRestarts = 1
SYMMETRY Symmetry
INVARIANTS
    TypeOK
    QueuedIsKept
    AwaitedIsKept
    DeadLetteredWasRefused
CHECK_DEADLOCK FALSE

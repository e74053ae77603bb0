CONSTANTS
    f1 = f1
    f2 = f2
    d1 = d1
    d2 = d2
    a = a
    b = b
    x = x
    y = y
    z = z
    FileIds = {f1, f2}
    Names = {a, b}
    Canons = {a, b}
    CanonicalKey <- SelfKey
    NoHash = NoHash
    Contents = {x, y}
    Generation <- NoHeader
    Envelope <- Plaintext
    MaxRequests = 2
    Operations <- OperationIds
    NoOperation = NoOperation
    Devices = {d1}
    MetaMode = FALSE
    Encrypted = FALSE
    MinimumEnvelope = 0
    MaxGeneration = 0
    MaxSequence = 4
    NoFile = NoFile
    DrawnIds = {NoFile}
    Nothing = Nothing
SPECIFICATION SyncSpec
INVARIANTS
    AtMostOncePerOperation
CHECK_DEADLOCK FALSE

CONSTANTS
    f1 = f1
    f2 = f2
    b1 = b1
    b2 = b2
    FileIds = {f1, f2}
    Blobs = {b1}
    NoBlob = NoBlob
    Strict = FALSE
    Nobody = Nobody
    MaxRevision = 3
    MaxRestarts = 1
    MaxFaults = 1
SPECIFICATION FairSpec
INVARIANTS
    FoundDamageRefused
PROPERTIES
    OrphansCollected
    ArchiveSpec
CHECK_DEADLOCK FALSE

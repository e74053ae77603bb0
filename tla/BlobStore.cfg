CONSTANTS
    f1 = f1
    f2 = f2
    b1 = b1
    b2 = b2
    FileIds = {f1, f2}
    Blobs = {b1, b2}
    NoBlob = NoBlob
    Strict = FALSE
    Nobody = Nobody
    MaxRevision = 3
    MaxRestarts = 1
    MaxFaults = 0
SYMMETRY Interchangeable
SPECIFICATION Spec
INVARIANTS
    UploadedContentPresent
CHECK_DEADLOCK FALSE

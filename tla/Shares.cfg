CONSTANTS
    s1 = s1
    s2 = s2
    r1 = r1
    r2 = r2
    Ids = {s1, s2}
    Readers = {r1}
    None = None
    Expiries = {0, 1, 2}
    Retention = 1
    MaxTime = 4
    MaxFaults = 1
SPECIFICATION FairSpec
INVARIANTS
    PromiseKept
PROPERTIES
    DeadCiphertextCollected
CHECK_DEADLOCK FALSE

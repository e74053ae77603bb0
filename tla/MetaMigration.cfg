CONSTANTS
    f1 = f1
    f2 = f2
    p1 = p1
    d1 = d1
    d2 = d2
    FileIds = {f1, f2}
    Paths = {p1}
    Devices = {d1, d2}
    NoDevice = NoDevice
    Envelopes = {0, 3}
    MaxKeyEpoch = 2
SYMMETRY Interchangeable
SPECIFICATION Spec
INVARIANTS
    MetaNeedsE2ee
    NoPathLeft
PROPERTIES
    NamingSpec
    BarrierSealed
    VerifiedStaysSealed
    OwnerKeepsLease
CHECK_DEADLOCK FALSE

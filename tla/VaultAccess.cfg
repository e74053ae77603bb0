CONSTANTS
    u1 = u1
    u2 = u2
    d1 = d1
    d2 = d2
    i1 = i1
    Users = {u1, u2}
    NoUser = NoUser
    Devices = {d1, d2}
    Invitations = {i1}
    Root = Root
    TokenScopes <- AskedScopes
    MaxEpoch = 1
    MaxDocuments = 2
    MaxTokens = 1
    MaxRequests = 2
SYMMETRY Interchangeable
SPECIFICATION Spec
INVARIANTS
    OwnerRemains
    RemovedDevicesRevoked
    OneDevicePerInvitation
PROPERTIES
    NothingNewAfterRevocation
    NoLostDocument
CHECK_DEADLOCK FALSE

CONSTANTS
    f1 = f1
    f2 = f2
    d1 = d1
    FileIds = {f1, f2}
    Names = {"a", "A", "b"}
    Canons = {"k1", "k2"}
    CanonicalKey <- PlainKey
    NoHash = NoHash
    Contents = {"text", "v1"}
    Generation <- PlainGeneration
    Envelope <- PlainEnvelope
    Operations = {"op1"}
    NoOperation = NoOperation
    Devices = {d1}
    MetaMode = FALSE
    Encrypted = FALSE
    MinimumEnvelope = 0
    MaxGeneration = 1
    MaxSequence = 4
SYMMETRY Ids
SPECIFICATION Spec
INVARIANTS
    LedgersAgree
    NamesUnique
    LogDescribesObjects
    RevisionIdentifiesContent
PROPERTIES
    LifeSpec
    NoSilentResurrection
CHECK_DEADLOCK FALSE

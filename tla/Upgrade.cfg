CONSTANTS
    a = a
    b = b
    c = c
    FileIds = {a, b, c}
    LegacyIds = {a}
    BadId = BadId
    MaxPath = 2
    MaxRevision = 2
    None = None
    MaxMishaps = 2
    Contents <- FirstBlob
    NoCommand = NoCommand
    Nothing = Nothing
    MaxStops = 1
SPECIFICATION SmallSpec
INVARIANTS
    NothingLeftBehind
    JournalTruthful
    DanglingIsJournaled
    SuccessIsComplete
PROPERTIES
    CleanMigrationEnds
CHECK_DEADLOCK FALSE

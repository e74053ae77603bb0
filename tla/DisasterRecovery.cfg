CONSTANTS
    f1 = f1
    d1 = d1
    scheduler = scheduler
    admin = admin
    Files = {f1}
    Contents = {1, 2, 3}
    Devices = {d1}
    Callers = {scheduler, admin}
    NoContent = NoContent
    Nothing = Nothing
    Nobody = Nobody
    NoRow = NoRow
    MaxEpoch = 2
    MaxSnapshots = 2
    MaxRestores = 1
    MaxStops = 1
SPECIFICATION FairSpec
INVARIANTS
    BackupsComplete
    NothingDiscarded
PROPERTIES
    TimelineSpec
    NoLostUpdateAcrossRestore
    JobsEnd
CHECK_DEADLOCK FALSE

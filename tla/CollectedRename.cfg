CONSTANTS
    Contents = {x, y}
    NoCommand = NoCommand
    Nothing = Nothing
    MaxStops = 1
SPECIFICATION BlobSpec
INVARIANTS
    ContentReachable
CHECK_DEADLOCK FALSE

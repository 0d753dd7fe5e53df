SPECIFICATION SnapSpec
CONSTANTS
    NoDS = NoDS
    Minute = 1
    HalfRange = 8
    Periods = {1, 2}
    RetainedCounts = {1, 2}
    Floor = 1
    OnePerSecond = TRUE
    MaxClock = 5
    MaxEdits = 3
INVARIANTS
    SnapTypeOK
    LatestIsLive
PROPERTIES
    RecordedSpacing
    FirstSnapshotDelayed
    PruneKeepsNewest

SPECIFICATION SnapFairSpec
CONSTANTS
    NoDS = NoDS
    Minute = 1
    HalfRange = 8
    Periods = {1}
    RetainedCounts <- AnyRetained
    Floor <- AnyFloor
    OnePerSecond = FALSE
    MaxClock = 3
    MaxEdits = 2
PROPERTY DueIsServed

SPECIFICATION EndToEndSpec
CONSTANTS
    None = None
    MaxSource = 2
    MaxCreates = 1
    MaxFaults = 1
INVARIANT RestoredIsFresh
\* All is quiet once the last resource is deleted and its objects collected.
CHECK_DEADLOCK FALSE

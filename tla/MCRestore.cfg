SPECIFICATION RestoreFairSpec
CONSTANTS
    None = None
    MaxSource = 2
    MaxCreates = 1
    MaxFaults = 1
INVARIANTS
    RestoreTypeOK
    SnapshotIsRestored
PROPERTY RestoreFinishes
\* All is quiet once the last resource is deleted and its objects collected.
CHECK_DEADLOCK FALSE

SPECIFICATION BackupFairSpec
CONSTANTS
    None = None
    MaxData = 2
    MaxCreates = 1
    MaxFaults = 1
INVARIANTS
    BackupTypeOK
    CompletedIsFresh
PROPERTIES
    BackupLives
    CleanedUp
\* All is quiet once the last resource is deleted and its objects collected.
CHECK_DEADLOCK FALSE

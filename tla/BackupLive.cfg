SPECIFICATION BackupFairSpec
CONSTANTS
    None = None
    MaxData = 1
    MaxCreates = 2
    MaxFaults = 0
PROPERTIES
    EventuallyReported
    VaultNeverRegresses
\* All is quiet once the last resource is deleted and its objects collected.
CHECK_DEADLOCK FALSE

SPECIFICATION RepFairSpec
CONSTANTS
    NoDS = NoDS
    NoClaim = NoClaim
    NoSts = NoSts
    ReplicaCounts <- CountsFromBelowZero
    Images = {v1, v2}
    Webhooks = TRUE
    CreateLimit = 2
    SchemaLimit = 2
    DebugContainer = FALSE
    MaxEdits = 3
    MaxClaimDeletes = 1
    MaxSnaps = 0
    MaxFaults = 0
PROPERTY EventuallyConverged

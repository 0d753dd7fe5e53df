SPECIFICATION RepSpec
CONSTANTS
    NoDS = NoDS
    NoClaim = NoClaim
    NoSts = NoSts
    ReplicaCounts = {1, 2}
    Images = {v1}
    Webhooks = TRUE
    CreateLimit = 2
    SchemaLimit = 2
    DebugContainer = FALSE
    MaxEdits = 3
    MaxClaimDeletes = 0
    MaxSnaps = 1
    MaxFaults = 1
INVARIANTS
    RepTypeOK
    ClaimsBeforePods
PROPERTY
    NoSpecReverted

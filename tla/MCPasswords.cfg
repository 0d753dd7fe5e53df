SPECIFICATION PwSpec
CONSTANTS
    NoDS = NoDS
    Accounts = {a, b}
    AccountSets = {{a}, {a, b}}
    Creating = {b}
    Window = 2
    MaxAge = 4
    MaxAhead = 1
    MaxEdits = 1
    MaxChanges = 1
INVARIANT PwTypeOK
PROPERTIES
    CheckSpacing
    KeyedAreUpdated

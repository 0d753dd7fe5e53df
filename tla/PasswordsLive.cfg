SPECIFICATION PwFairSpec
CONSTANTS
    NoDS = NoDS
    Accounts = {a, b}
    AccountSets = {{a, b}}
    Creating = {b}
    Window = 1
    MaxAge = 2
    MaxAhead = 1
    MaxEdits = 1
    MaxChanges = 1
PROPERTY EachAccountServed

SPECIFICATION PwFairSpec
CONSTANTS
    NoDS = NoDS
    Accounts = {a}
    AccountSets = {{a}}
    Creating = {a}
    Window = 1
    MaxAge = 2
    MaxAhead = 0
    MaxEdits = 1
    MaxChanges = 1
PROPERTY SecretsGenerated

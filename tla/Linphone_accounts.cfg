SPECIFICATION Spec
CONSTANTS
    Users = {u1}
    Handlers = {h1, h2}
    Keys = {k1, k2, k3, k4, k5, k6, k7}
    NoKey = NoKey
    None = None
    Known = Known
    Other = Other
    MaxTokens = 2
    MaxForms = 5
    MaxFaults = 1
    MaxExpiries = 0
    MaxChanges = 1
    MaxCrashes = 1
INVARIANTS TypeOK ActivatedHasPassword PasswordWorks
CHECK_DEADLOCK FALSE

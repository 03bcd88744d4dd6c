SPECIFICATION Spec
CONSTANTS
    Users = {u1}
    Handlers = {h1}
    Keys = {k1, k2, k3, k4, k5, k6}
    NoKey = NoKey
    None = None
    Known = Known
    Other = Other
    MaxTokens = 0
    MaxForms = 2
    MaxFaults = 2
    MaxExpiries = 0
    MaxChanges = 0
    MaxCrashes = 0
PROPERTIES WorkingKeyKept
CHECK_DEADLOCK FALSE

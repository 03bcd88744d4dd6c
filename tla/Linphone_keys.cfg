SPECIFICATION FairSpec
CONSTANTS
    Users = {u1, u2}
    Handlers = {h1}
    Keys = {k1, k2, k3, k4, k5, k6, k7, k8, k9}
    NoKey = NoKey
    None = None
    Known = Known
    Other = Other
    MaxTokens = 0
    MaxForms = 2
    MaxFaults = 1
    MaxExpiries = 1
    MaxChanges = 1
    MaxCrashes = 1
PROPERTIES EventuallyKeyed
CHECK_DEADLOCK FALSE

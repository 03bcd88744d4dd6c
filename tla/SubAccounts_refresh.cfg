SPECIFICATION Spec
CONSTANTS
    Accounts = {1, 2}
    Dids = {1, 2}
    Pops = {1, 2}
    PopOf <- mcPopOf
    Refreshers = {r1, r2}
    NoDid = NoDid
    None = None
    NoFile = NoFile
    MaxStarts = 3
    MaxUpsets = 2
SYMMETRY mcSymmetry
INVARIANTS TypeOK
PROPERTIES OnlyGoneDeletedAlone StaysReachable RefreshMakesCurrent PasswordsCurrent
CHECK_DEADLOCK FALSE

SPECIFICATION Spec
CONSTANTS
    Accounts = {1, 3}
    Lin = 2
    Servers = {s1, s2}
    NoDesc = {3}
    Requests = {r1, r2}
    None = None
    NilText = NilText
    NoFile = NoFile
    MaxForms = 3
    MaxRefreshes = 1
    MaxUpsets = 1
SYMMETRY mcSymmetry
INVARIANTS TypeOK 
PROPERTIES ServerIsTheirs PreferenceKept
CHECK_DEADLOCK FALSE

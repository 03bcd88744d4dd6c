SPECIFICATION Spec
CONSTANTS
    Workers = {w1, w2}
    Accounts = {1, 2}
    Did <- mcDid
    Ext <- mcExt
    Loc <- mcLoc
    Pop <- mcPop
    Texts = {1, 2, 3}
    From <- mcFrom
    To <- mcTo
    Outside = Outside
    None = None
    MaxSends <- mcMaxSends
    MaxUpsets = 1
INVARIANTS TypeOK OkMeansAccepted RefusedMeansNot OwnNumber 
    OneWorkerEach InternalKept
SYMMETRY mcSymmetry
CHECK_DEADLOCK FALSE

SPECIFICATION Spec
CONSTANTS
    m1 = m1
    m2 = m2
    d1 = d1
    d2 = d2
    n1 = n1
    Accounts = {1, 2}
    Dids = {d1, d2}
    CallerId <- mcCallerId2
    Senders = {n1}
    Msgs = {m1}
    From <- mcFrom
    To <- mcTo2
    Parts <- mcParts
    Handlers = {h1}
    Reco = Reco
    NoMsg = NoMsg
    ChanCap = 1
    LongPass = TRUE
    MaxRows = 4
    MaxPosts = 1
    MaxUploads = 0
    MaxFaults = 2
    MaxAdmin = 1
    MaxCrashes = 1
    MaxMonths = 1
INVARIANTS TypeOK AckedIsDurable BlockedNeverQueued ReconcileQueuesOnce MarkedMeansAccepted
PROPERTIES RetriedInTurn
CHECK_DEADLOCK FALSE

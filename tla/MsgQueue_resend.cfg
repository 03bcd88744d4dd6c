SPECIFICATION FairSpec
CONSTANTS
    m1 = m1
    m2 = m2
    d1 = d1
    d2 = d2
    n1 = n1
    Accounts = {1}
    Dids = {d1}
    CallerId <- mcCallerId
    Senders = {n1}
    Msgs = {m2}
    From <- mcFrom
    To <- mcTo
    Parts <- mcParts
    Handlers = {h1}
    Reco = Reco
    NoMsg = NoMsg
    ChanCap = 1
    LongPass = FALSE
    MaxRows = 4
    MaxPosts = 1
    MaxUploads = 0
    MaxFaults = 1
    MaxAdmin = 0
    MaxCrashes = 0
    MaxMonths = 0
PROPERTIES MissingIsResent
CHECK_DEADLOCK FALSE

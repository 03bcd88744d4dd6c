SPECIFICATION FairSpec
CONSTANTS
    Users = {u1}
    Msgs = {1, 2}
    For <- mcFor
    Contacts = {c1}
    None = None
    DumpMax = 1
    MaxTries = 2
    MaxMoves = 1
    MaxFaults = 1
    MaxCrashes = 1
INVARIANTS TypeOK HandedOff DoubleOnlyIfUnsure
PROPERTIES EventuallyReceived PassedOn
CHECK_DEADLOCK FALSE

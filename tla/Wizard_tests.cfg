SPECIFICATION FairSpec
CONSTANTS
    Tabs = {t1}
    Handlers = {h1, h2}
    Nobody = Nobody
    MaxTests = 2
    MaxOut = 2
INVARIANTS TypeOK CheckedBefore13 NobodyAlone
  
CHECK_DEADLOCK FALSE

SPECIFICATION FairSpec
CONSTANTS
    a = a
    b = b
    s2 = s2
    Api = api
    Slaves = {s1, s2}
    Sources = {a, b}
    Master = master
    Wanted <- MCWanted
    Hidden <- MCHidden
    Hooks = {h1}
    MaxRev <- MCMaxRev
    MaxFaults = 1
    LongInterval = TRUE
    NoHash = NoHash
INVARIANTS TypeOK NoNeedlessRefresh LoadedShowsHash
PROPERTIES Repaired MasterRefreshHeals
CHECK_DEADLOCK FALSE

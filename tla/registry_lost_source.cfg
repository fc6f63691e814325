SPECIFICATION Spec
CONSTANTS
    a = a
    b = b
    c1 = c1
    c2 = c2
    NoConf = NoConf
    BadConfig = BadConfig
    Sources = {a, b}
    Confs = {c1, c2}
    Admitted = {c1, c2}
    MasterConfigs <- MCMasterConfigs
    Reloads = {r1, r2}
    Watchers = {}
    Refreshers = {}
    Concurrency = 1
    Fetches = FALSE
    LoadsMayFail = FALSE
    PublishWhenBusy = FALSE
INVARIANT QuiescentMatchesPublished

SPECIFICATION FairSpec
CONSTANTS
    NoConf = NoConf
    BadConfig = BadConfig
    Sources = {a, b}
    Confs = {c1, c2, cf}
    Admitted = {c1, c2}
    MasterConfigs <- MCMasterConfigs
    Reloads = {r1}
    Watchers = {}
    Refreshers = {}
    Concurrency = 2
    Fetches = FALSE
    LoadsMayFail = FALSE
    PublishWhenBusy = TRUE
PROPERTY Converges

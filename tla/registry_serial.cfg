SPECIFICATION FairSpec
CONSTANTS
    NoConf = NoConf
    BadConfig = BadConfig
    Sources = {a, b}
    Confs = {c1, c2, cf}
    Admitted = {c1, c2}
    MasterConfigs <- MCMasterConfigs
    Reloads = {r1}
    Watchers = {r1}
    Refreshers = {}
    Concurrency = 2
    Fetches = TRUE
    LoadsMayFail = TRUE
    PublishWhenBusy = TRUE
INVARIANTS TypeOK NoOutdatedSource VerdictSound RetryOnlyLoads FilteredNotLoaded ContentMatchesEntry
PROPERTIES ReloadEnds ImplementsTable

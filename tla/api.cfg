SPECIFICATION Spec
CONSTANTS
    admin = admin
    writer = writer
    reader = reader
    main = main
    dev = dev
    Sources = {s1, s2}
    Master = master
    Confs <- MCConfs
    MasterConf <- MCMasterConf
    Users = {admin, writer, reader}
    Admins = {admin}
    Branches = {main, dev}
    MaxReloads = 1
    NoSource = NoSource
    Nobody = Nobody
    NoRef = NoRef
INVARIANTS TypeOK OneFailsAlone AnswerHonest SameWebhook WritersRefresh LinksOpen ButtonWorks
CHECK_DEADLOCK FALSE

SPECIFICATION FairSpec
CONSTANTS
    a = a
    b = b
    FilesOf <- MCFilesOf
    MaxRev = 1
    Refreshers = {r1, r2}
    Fetchers = {f1, f2}
    Attempts = 2
    MaxFaults = 1
    Stats = Stats
    Absent = Absent
    Empty = Empty
INVARIANTS TypeOK HashMeansContent
PROPERTIES SuccessIsWhole Settles
CHECK_DEADLOCK FALSE

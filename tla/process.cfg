SPECIFICATION FairSpec
CONSTANTS
    MaxVersion = 3
    MaxFaults = 1
    Interval = 2
    PassTime = 1
    None = None
INVARIANTS TypeOK StaleOnlyInPass LoadingEnds SlaveReady
PROPERTIES ChangesApplied
CHECK_DEADLOCK FALSE

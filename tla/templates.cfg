SPECIFICATION Spec
CONSTANTS
    Sources <- MCSources
    Engines <- MCEngines
    Root = "root"
    Runs = {e1, e2}
    MaxFaults = 1
    None = None
INVARIANTS TypeOK Outcome OnlyOverlapAborts
CHECK_DEADLOCK FALSE

\* A free slot at GenMax is restored as quarantined.
SPECIFICATION Spec
CONSTANTS
    MaxIdx = 0
    GenMax = 2
    Comps = {}
    Values = {0}
    Systems = 1
    MaxRecords = 2
    MaxSpawns = 3
    Rollback = TRUE
PROPERTY
    RestoreIsFaithful
CHECK_DEADLOCK FALSE

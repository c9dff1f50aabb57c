\* Two slots of three generations, and a component of two values.
SPECIFICATION MCSpec
CONSTANTS
    MaxIdx = 1
    GenMax = 3
    Comps = {"position"}
    Values = {0, 1}
    Systems = 2
    MaxRecords = 3
    MaxSpawns = 5
    Rollback = TRUE
INVARIANTS
    EntitiesInv
    OnlyRecentDestroyIsFatal
    ColumnsInv
PROPERTIES
    SpawnIsNew
    RestoreIsFaithfulBelowGenMax
CHECK_DEADLOCK FALSE

\* Two arenas of four and two bytes in granules of two, a blob that holds all but
\* their fullest; a guard over extents of 0 .. 2; a heap of eight granules,
\* with classes of 1, 2, 4 and 8 units and an arena that begins half a granule in.  A
\* script VM: one safepoint, three registry slots (MC_Memory).
SPECIFICATION MCSpec
CONSTANTS
    Ids = {"gen", "free"}
    Registered <- MCRegistered
    Snapshotted <- MCSnapshotted
    Ask <- MCAsk
    Granule = 2
    SegAlign = 2
    BlobCap = 5
    Grows <- MCGrows
    Arenas = {"meta", "gen"}
    GrowsAtBarrier = {"gen"}
    MaxUsed = 2
    Header = 1
    CarveGranule = 8
    ClassCount = 4
    Base = 4
    HeapReserve = 64
    Budget = 40
    Sizes = {0, 2, 7, 8, 9, 16}
    MaxLive = 3
    Kinds = {"sim", "ui", "data"}
    Interners = {"a", "b"}
    Tables = {"t", "u"}
    BudgetSafepoints = 1
    MaxSteps = 3
    MaxRefs = 3
    HeadroomMin = 1
    BytesPerSrcByte = 1
    SourceLens = {1}
    PoolBudget = 3
INVARIANTS
    ArenasInv
    HeapInv
    VmInv
PROPERTIES
    PureFunctionOfState
    GuardVerdict
CHECK_DEADLOCK FALSE

SPECIFICATION MCSpec
CONSTANTS
    Slots = {0, 1}
    MaxTicks = 3
    MaxRecords = 2
    Capacity = 4
    Ids <- MCIds
    Rests <- MCRests
    LogTicks = 2
    Width = 4
    Group = 2
    MaxBytes = 2
    MaxActions = 2
    MaxValue = 1
    Positions = 4
    Procs = {"p1", "p2"}
    MaxCalls = 3
    Blocks = 2
    Names = {"a", "b"}
    TexSlots = 2
    GenMax = 2
    MaxWidth = 1
    ArenaRoom = 3
    MaxHolds = 2
    Builds <- MCBuilds
    Entities = {1, 2}
    Values = {0, 1}
    Default = 0
    MaxArenas = 2
    MaxSteps = 5
INVARIANTS
    LogInv
    CodecInv
    AssetsInv
    FileInv
PROPERTIES
    ReplacedAtOnce
    LoadIsWhole
\* Bounded: writers, saves and segments run out.
CHECK_DEADLOCK FALSE

\* A 4-bit u32; schedules of up to four systems; five keys that collide in tables of
\* up to eight slots; four entries with keys of three digits;
\* rows of six bits; scripts' structs of up to three fields;
\* formats of up to five characters, tables of up to four keys;
\* two threads, semaphores and mutexes of two generations, five creates.
SPECIFICATION MCSpec
CONSTANTS
    U32 = 16
    Jobs <- MCJobs
    RoundFunctions <- MCRoundFunctions
    HalfXor <- MCXor
    WalkCap = 16
    Slots = 2
    GenMax = 2
    ArenaRoom = 5
    Keys <- MCKeys
    Vals <- MCVals
    Hashes <- MCHashes
    SortedCap = 4
    FirstCap <- MCFirstCap
    Radix = 2
    PassCount = 3
    MaxLen = 4
    PhaseCount = 2
    MaxSystems = 4
    Labels <- MCLabels
    Programs <- MCPrograms
INVARIANTS
    ItemsCoveredOnce
    ScheduleInv
    ContainersInv
    NumericsInv
    ReflectInv
    SandboxInv
CHECK_DEADLOCK FALSE

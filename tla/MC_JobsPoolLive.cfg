\* One worker, three chunks, a third job: the epochs the inline path skips
\* over, and what must eventually happen.
SPECIFICATION SeenFairSpec
CONSTANTS
    MaxWorkers = 1
    LevelArgs <- MoreChunks
    MaxLevels = 2
    MaxJobs = 3
    U32 = 8
    EpochMod = 4
    Keys = {1}
    Permute <- MCPermute
PROPERTY
    CallsReturn

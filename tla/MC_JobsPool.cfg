\* Two workers, three jobs in a pool's life, every path of jobs_init,
\* parallel_levels and jobs_shutdown.
SPECIFICATION SeenSpec
CONSTANTS
    MaxWorkers = 2
    LevelArgs <- FewChunks
    MaxLevels = 2
    MaxJobs = 2
    U32 = 8
    EpochMod = 4
    Keys = {1}
    Permute <- MCPermute
INVARIANTS
    PoolInv
    EveryChunkOnce
    Visible
    IInv
PROPERTY
    KeepsPromise

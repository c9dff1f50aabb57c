\* Two peers, one live; two units to a tick, two steps to a frame, and frames
\* long enough to be clamped and to reach the cap; a ring of three snapshots
\* and two rollbacks; and a developer at the console.
SPECIFICATION MCSpec
CONSTANTS
    Peers = {"local", "absent"}
    LiveMask = {"local"}
    Frames = {0, 1}
    ReadsEvents = TRUE
    FixedDt = 2
    MaxDt = 5
    MaxSteps = 2
    FrameTimes = {0, 1, 3, 6}
    MaxClock = 10
    Seats = {"local"}
    LiveSeats = {"local"}
    SeatFrames = {0, 1}
    ReadsBack = FALSE
    Horizon = 3
    MaxTick = 4
    MaxRestores = 2
    Descs <- MCDescs
    Program <- MCProgram
    W = 4
    WideW = 6
    FBits = 5
    Places = 1
    CvarCap = 5
    Names <- MCNames
    CmdCap = 4
    Shown = 2
    MaxTokens = 2
    UnescapeCap = 3
    ReplyCap = 6
    HistoryCap = 2
    Letters = {"a"}
    LineLen = 5
    Typed <- MCTyped
    EntitySlots = {0, 1}
    Gens = 2
    NameStrs = {"ann", "bob"}
    MaxStrings = 1
    Comps <- MCComps
    MaxQueue = 2
    MaxLines = 3
INVARIANTS
    ClockInv
    ReplayReproducesTrace
    EventsReadNextTick
    RingInv
    ReticksToTheSameWorld
    ConsoleInv
    TextInv
PROPERTY
    PresentedTimeNeverGoesBack
CHECK_DEADLOCK FALSE

\* A developer types `set` and a float between -1 and 0.
SPECIFICATION MCSpec
CONSTANTS
    Peers = {"local", "absent"}
    LiveMask = {"local"}
    Frames = {0, 1}
    ReadsEvents = TRUE
    FixedDt = 2
    MaxDt = 5
    MaxSteps = 2
    FrameTimes = {0, 1, 3, 6}
    MaxClock = 10
    Seats = {"local"}
    LiveSeats = {"local"}
    SeatFrames = {0, 1}
    ReadsBack = FALSE
    Horizon = 3
    MaxTick = 4
    MaxRestores = 2
    Descs <- MCDescs
    Program <- MCProgram
    W = 4
    WideW = 6
    FBits = 5
    Places = 1
    CvarCap = 5
    Names <- MCNames
    CmdCap = 4
    Shown = 2
    MaxTokens = 2
    UnescapeCap = 3
    ReplyCap = 6
    HistoryCap = 2
    Letters = {"a"}
    LineLen = 5
    Typed <- MCTyped
    EntitySlots = {0, 1}
    Gens = 2
    NameStrs = {"ann", "bob"}
    MaxStrings = 1
    Comps <- MCComps
    MaxQueue = 2
    MaxLines = 3
INVARIANT
    SetAnswersWhatWasTyped
CHECK_DEADLOCK FALSE

\* The previous pose is overwritten with the current one before it is drawn.
SPECIFICATION Spec
CONSTANTS
    Peers = {"local"}
    LiveMask = {"local"}
    Frames = {0}
    ReadsEvents = FALSE
    FixedDt = 2
    MaxDt = 5
    MaxSteps = 2
    FrameTimes = {0, 1, 3}
    MaxClock = 7
INVARIANT
    PrevIsTheTickBefore

\* Rollbacks of a world that feeds events back into itself.
SPECIFICATION RewindSpec
CONSTANTS
    Seats = {"local"}
    LiveSeats = {"local"}
    SeatFrames = {0, 1}
    ReadsBack = TRUE
    Horizon = 3
    MaxTick = 3
    MaxRestores = 1
INVARIANT
    ReticksToTheSameWorld
CHECK_DEADLOCK FALSE

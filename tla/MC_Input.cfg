\* A ring of two events, which overflows between any two ticks; and timelines of
\* three events over four ticks and two actions.
SPECIFICATION MCSpec
CONSTANTS
    Cap = 2
    CursorMod = 4
    OverwriteOldest = TRUE
    Actions <- MCActions
    Kind <- MCKind
    ActionMaps <- MCActionMaps
    Modifiers = {"ctrl"}
    Full = 4
    Deflections <- MCDeflections
    Channels <- ScriptActions
    Strengths = {1}
    MaxTick = 3
    MaxEvents = 3
INVARIANTS
    DeviceInv
    SocdPolicy
    EdgesTellAll
    ScriptInv
CHECK_DEADLOCK FALSE

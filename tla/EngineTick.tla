------------------------------ MODULE EngineTick ------------------------------
(***************************************************************************)
(* engine_tick_once (core/loop.cpp) and what its barrier moves: the world, *)
(* the two event halves (core/events.cpp), the interpolation column        *)
(* (core/interp.cpp) and the recorder (core/recorder.cpp).                 *)
(*                                                                         *)
(* The systems are the freest that a deterministic world can have: memory  *)
(* keeps, tick by tick, everything they were given, so that two worlds     *)
(* have equal memories only if every world would be equal.                 *)
(***************************************************************************)
EXTENDS Naturals, Sequences

CONSTANTS
    Peers,          \* the slots of InputFrame[MAX_PEERS]
    LiveMask,       \* the live ones, fixed for the session
    Frames,         \* input frames
    ReadsEvents     \* whether the systems feed last tick's events back into the world

ASSUME PeersAssumption ==
    LiveMask \subseteq Peers /\ Frames # {} /\ ReadsEvents \in BOOLEAN

VARIABLES
    memory,         \* the registered arenas, as their history
    tick,           \* WorldState.tick, in an arena too
    prev,           \* TransformPrev of the entity whose Transform is Pose(memory)
    read,           \* the readable half of the event buffers
    write,          \* the half being written
    rows            \* Recorder.rows

world == <<memory, tick, prev>>
tick_vars == <<memory, tick, prev, read, write, rows>>

\* input_zero_frame, as in a slot nobody has produced.
ZeroFrame == CHOOSE f \in Frames : TRUE

Live(frames) == [p \in LiveMask |-> frames[p]]

\* The entity moves by one every tick.
Pose(m) == Len(m)

TickInit ==
    /\ memory = <<>> /\ tick = 0 /\ prev = 0
    /\ read = <<>> /\ write = <<>> /\ rows = <<>>

\* What the phases FIRST..LAST do to the world, and the event they emit.
RunPhases(frames) ==
    Append(memory, [in |-> Live(frames), ev |-> IF ReadsEvents THEN read ELSE <<>>])
Emitted(frames) == Append(write, Live(frames))

\* recorder_tick: the row of this tick, after LAST and before the barrier.
\* Slots outside live_mask are zeroed, whatever the producer left in them.
RecorderTick(frames, m) ==
    Append(rows, [frames |-> [p \in Peers |-> IF p \in LiveMask THEN frames[p] ELSE ZeroFrame],
                  hash |-> <<m, tick, prev>>])

\* engine_tick_once.
Bug_SwapKeeps(frames) ==
    /\ memory' = RunPhases(frames)
    /\ rows' = RecorderTick(frames, memory')
    /\ read' = Emitted(frames) /\ write' = read
    /\ prev' = Pose(memory')
    /\ tick' = tick + 1
EngineTickOnce(frames) ==
    /\ memory' = RunPhases(frames)
    /\ rows' = RecorderTick(frames, memory')
    /\ read' = Emitted(frames) /\ write' = <<>>
    /\ prev' = Pose(memory')
    /\ tick' = tick + 1

\* An event emitted in a tick is read in the next one, whole, and in no other.
EventsReadNextTick ==
    \A n \in DOMAIN memory : ReadsEvents =>
        memory[n].ev = IF n = 1 THEN <<>> ELSE <<memory[n - 1].in>>
=============================================================================

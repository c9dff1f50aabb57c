------------------------------ MODULE EngineFrame ------------------------------
(***************************************************************************)
(* engine_frame (core/loop.cpp, core/time.cpp): real time is turned into   *)
(* ticks, with a cap, a stall when the producer has no input, and a render *)
(* pose between two ticks; and a run of the engine recorded, then replayed *)
(* by a fresh engine whose producer reads the recording.                   *)
(*                                                                         *)
(* Time is counted in units of which FixedDt make a tick.                  *)
(***************************************************************************)
EXTENDS EngineTick

CONSTANTS
    FixedDt,        \* FIXED_DT_SECONDS, in units
    MaxDt,          \* the 0.25 s clock_tick clamps a frame to
    MaxSteps,       \* MAX_STEPS
    FrameTimes,     \* the real times between two frames
    MaxClock        \* bound: the real time of a run

ASSUME TimeAssumption ==
    /\ FixedDt \in Nat \ {0} /\ MaxDt \in Nat /\ MaxSteps \in Nat \ {0}
    /\ FrameTimes \subseteq Nat /\ MaxClock \in Nat

VARIABLES
    clock,          \* what the platform's clock has counted
    accumulator, steps,
    frames,         \* Engine.frames
    alpha,          \* last_alpha, in halves of a unit
    presented,      \* tick + alpha at the last frame, in halves of a unit
    pc,             \* "frame", "loop" or "render": where engine_frame is
    recording,      \* rows of the first run, once it has been saved
    cursor          \* ReplayProducer.cursor

frame_vars == <<clock, accumulator, steps, frames, alpha, presented, pc>>
replay_vars == <<recording, cursor>>
vars == <<tick_vars, frame_vars, replay_vars>>

Replaying == recording # <<>>

TypeOK ==
    /\ tick \in Nat /\ prev \in Nat /\ Len(rows) = tick /\ Len(memory) = tick
    /\ clock \in 0 .. MaxClock /\ accumulator \in 0 .. MaxClock
    /\ steps \in 0 .. MaxSteps
    /\ frames \in [Peers -> Frames]
    /\ alpha \in 0 .. 2 * FixedDt - 1 /\ presented \in Nat
    /\ pc \in {"frame", "loop", "render"}
    /\ cursor \in 0 .. Len(recording)

\* engine_init: the Engine is zeroed and its clock primed.
Init ==
    /\ TickInit
    /\ clock = 0 /\ accumulator = 0 /\ steps = 0
    /\ frames = [p \in Peers |-> ZeroFrame]
    /\ alpha = 0 /\ presented = 0 /\ pc = "frame"
    /\ recording = <<>> /\ cursor = 0

Lesser(a, b) == IF a < b THEN a ELSE b

\* clock_tick, the pump, and the accumulator.
BeginFrame(dt) ==
    /\ pc = "frame" /\ clock + dt <= MaxClock
    /\ clock' = clock + dt
    /\ accumulator' = accumulator + Lesser(dt, MaxDt)
    /\ steps' = 0 /\ pc' = "loop"
    /\ UNCHANGED <<tick_vars, frames, alpha, presented, replay_vars>>

TickDue == accumulator >= FixedDt /\ steps < MaxSteps

\* One turn of the loop with the frames a producer left.
Bug_Advance(produced) ==
    /\ frames' = produced
    /\ EngineTickOnce(frames')
    /\ accumulator' = accumulator /\ steps' = steps + 1
    /\ UNCHANGED <<clock, alpha, presented, pc>>
Advance(produced) ==
    /\ frames' = produced
    /\ EngineTickOnce(frames')
    /\ accumulator' = accumulator - FixedDt /\ steps' = steps + 1
    /\ UNCHANGED <<clock, alpha, presented, pc>>

\* A live, script or network producer.  script_produce writes every slot,
\* live or not.
TickLive ==
    /\ pc = "loop" /\ TickDue /\ ~Replaying
    /\ \E produced \in [Peers -> Frames] : Advance(produced)
    /\ UNCHANGED replay_vars

\* replay_produce: rows[cursor], then the cursor moves.
Bug_ReplayRow == recording[Lesser(cursor + 2, Len(recording))].frames
ReplayRow == recording[cursor + 1].frames
TickReplay ==
    /\ pc = "loop" /\ TickDue /\ Replaying
    /\ cursor < Len(recording)
    /\ Advance(ReplayRow)
    /\ cursor' = cursor + 1
    /\ UNCHANGED recording

\* PRODUCE_WAIT: from the network at any time, from the replay at its end.
Wait ==
    /\ pc = "loop" /\ TickDue
    /\ Replaying => cursor = Len(recording)
    /\ pc' = "render"
    /\ UNCHANGED <<tick_vars, clock, accumulator, steps, frames, alpha, presented, replay_vars>>

CaughtUp ==
    /\ pc = "loop" /\ ~TickDue
    /\ pc' = "render"
    /\ UNCHANGED <<tick_vars, clock, accumulator, steps, frames, alpha, presented, replay_vars>>

\* alpha in [0, 1): what is pending of one tick, parked just below 1 when a
\* whole tick and more is pending.
Bug_Alpha(pending) == 2 * (pending % FixedDt)
Bug_AlphaUnclamped(pending) == 2 * pending
Alpha(pending) == IF pending < FixedDt THEN 2 * pending ELSE 2 * FixedDt - 1

\* The cap drops time; PRE_RENDER and RENDER show the world at alpha.
Render ==
    /\ pc = "render"
    /\ accumulator' = IF steps = MaxSteps THEN 0 ELSE accumulator
    /\ alpha' = Alpha(accumulator')
    /\ presented' = 2 * FixedDt * tick + alpha'
    /\ pc' = "frame"
    /\ UNCHANGED <<tick_vars, clock, steps, frames, replay_vars>>

\* recorder_write, recorder_read_*, and a fresh engine with the Replay producer.
Replay ==
    /\ pc = "frame" /\ ~Replaying /\ rows # <<>>
    /\ recording' = rows /\ cursor' = 0
    /\ memory' = <<>> /\ tick' = 0 /\ prev' = 0
    /\ read' = <<>> /\ write' = <<>> /\ rows' = <<>>
    /\ clock' = 0 /\ accumulator' = 0 /\ steps' = 0
    /\ frames' = [p \in Peers |-> ZeroFrame]
    /\ alpha' = 0 /\ presented' = 0 /\ UNCHANGED pc

Next ==
    \/ \E dt \in FrameTimes : BeginFrame(dt)
    \/ TickLive \/ TickReplay \/ Wait \/ CaughtUp
    \/ Render
    \/ Replay

Spec == Init /\ [][Next]_vars

-----------------------------------------------------------------------------
(* Correctness.                                                            *)

\* The simulation never runs ahead of the real time it was given: a tick is
\* paid for once, whatever is stalled, clamped or dropped.
NeverAhead == tick * FixedDt + accumulator <= clock

\* The clock and the accumulator, within their types and behind real time.
ClockInv == TypeOK /\ NeverAhead

\* The moment a frame presents, tick + alpha, never goes back, neither in a
\* stall, nor when it ends, nor when the cap drops time.
PresentedTimeNeverGoesBack ==
    [][pc = "render" => presented' >= presented]_vars

\* "Replaying it through the Replay producer and comparing the hash trace IS
\* the determinism test": the replay's hashes are the recording's, however
\* the two runs were cut into frames and whatever stale frames lay in the
\* slots no producer wrote; and its TL_CHECK that the tick asked for is the
\* recorded one never fails.
ReplayReproducesTrace ==
    Replaying =>
        /\ \A n \in DOMAIN rows : rows[n] = recording[n]
        /\ tick = cursor

\* "Double-buffer the resolved world transform": at a frame, the previous
\* pose is that of the tick before, so that alpha moves between the two.
PrevIsTheTickBefore == pc = "frame" /\ tick > 0 => prev = Pose(memory) - 1
=============================================================================

----------------------------- MODULE ScriptInput -----------------------------
(***************************************************************************)
(* The scripted input producer, core/producers/script.cpp: a timeline laid *)
(* out before the first tick and asked for tick by tick.  The loop may     *)
(* begin at any tick and may leave ticks out; asking for one again stops   *)
(* the process.                                                            *)
(***************************************************************************)
EXTENDS Integers, SequencesExt

CONSTANTS
    Channels,     \* pairs of a slot and an action
    Strengths,    \* values an event may carry
    MaxTick,      \* bound: ticks asked for
    MaxEvents     \* capacity of the timeline (array_init_fixed)

ASSUME ScriptAssumption ==
    MaxTick \in Nat /\ MaxEvents \in Nat /\ Strengths \subseteq Int

VARIABLES
    events, cursor,                 \* ScriptProducer: the timeline and its reader
    produced_once, last_tick,
    down, value, pending_release,   \* per channel
    output,                         \* the frame produced last: per channel its value and edges
    asked                           \* history: the ticks produced

script_vars ==
    <<events, cursor, produced_once, last_tick, down, value, pending_release, output, asked>>

ScriptEvent == [tick : 0 .. MaxTick, channel : Channels, value : Strengths \cup {0},
                op : {"SET", "PRESS", "HOLD_START", "HOLD_END"}]

ScriptInit ==
    /\ events = <<>> /\ cursor = 0
    /\ produced_once = FALSE /\ last_tick = 0
    /\ down = [c \in Channels |-> FALSE]
    /\ value = [c \in Channels |-> 0]
    /\ pending_release = {}
    /\ output = [c \in Channels |-> [value |-> 0, down |-> FALSE, pressed |-> FALSE, released |-> FALSE]]
    /\ asked = {}

-----------------------------------------------------------------------------
\* script_add_event, for one event or the two of a hold: in the order of ticks.
AddEvents(new) ==
    /\ ~produced_once
    /\ Len(events) + Len(new) <= MaxEvents
    /\ events # <<>> => events[Len(events)].tick <= new[1].tick
    /\ events' = events \o new
    /\ UNCHANGED <<cursor, produced_once, last_tick, down, value, pending_release, output, asked>>

EventAt(t, c, v, op) == [tick |-> t, channel |-> c, value |-> v, op |-> op]

ScriptSet(c, v, t) == AddEvents(<<EventAt(t, c, v, "SET")>>)

ScriptPress(c, v, t) == AddEvents(<<EventAt(t, c, v, "PRESS")>>)

Bug_ScriptHold(c, v, from, to) ==
    AddEvents(<<EventAt(from, c, v, "HOLD_START"), EventAt(to, c, 0, "HOLD_END")>>)

ScriptHold(c, v, from, to) ==
    /\ from <= to
    /\ AddEvents(<<EventAt(from, c, v, "HOLD_START"), EventAt(to, c, 0, "HOLD_END")>>)

-----------------------------------------------------------------------------
\* Due as well: the events of ticks that were left out.
Due(e, tick) == e.tick <= tick

\* The loop stops before the first event that is not due.
DueEnd(tick) ==
    Min({n \in cursor .. Len(events) : n = Len(events) \/ ~Due(events[n + 1], tick)})

\* Channel state: what a pulse of the last call leaves, then one event.
AfterPulse(c) ==
    IF c \in pending_release THEN [down |-> FALSE, value |-> 0, pulse |-> FALSE]
    ELSE [down |-> down[c], value |-> value[c], pulse |-> FALSE]

Bug_Applied(s, e) ==
    CASE e.op = "HOLD_END" -> [s EXCEPT !.down = FALSE, !.value = 0]
      [] OTHER -> [down |-> TRUE, value |-> e.value, pulse |-> s.pulse \/ e.op = "PRESS"]

Applied(s, e) ==
    CASE e.op = "SET" -> [s EXCEPT !.down = e.value # 0, !.value = e.value]
      [] e.op = "PRESS" -> [down |-> TRUE, value |-> e.value, pulse |-> TRUE]
      [] e.op = "HOLD_START" -> [s EXCEPT !.down = TRUE, !.value = e.value]
      [] e.op = "HOLD_END" -> [s EXCEPT !.down = FALSE, !.value = 0]

\* What the channel has come to after each event that the loop has read.
Run(c) ==
    LET state[n \in cursor .. Len(events)] ==
            IF n = cursor THEN AfterPulse(c)
            ELSE IF events[n].channel = c THEN Applied(state[n - 1], events[n])
            ELSE state[n - 1]
    IN  state

\* script_produce: asking for a tick again, or for an earlier one, is fatal.
ScriptProduce(tick) ==
    LET now == [c \in Channels |-> Run(c)[DueEnd(tick)]]
    IN  /\ produced_once => tick > last_tick
        /\ produced_once' = TRUE /\ last_tick' = tick
        /\ cursor' = DueEnd(tick)
        /\ pending_release' = {c \in Channels : now[c].pulse}
        /\ down' = [c \in Channels |-> now[c].down]
        /\ value' = [c \in Channels |-> now[c].value]
        /\ output' = [c \in Channels |->
               [value |-> now[c].value, down |-> now[c].down,
                pressed |-> now[c].down /\ ~down[c], released |-> ~now[c].down /\ down[c]]]
        /\ asked' = asked \cup {tick}
        /\ UNCHANGED events

ScriptNext ==
    \/ \E c \in Channels, v \in Strengths, t \in 0 .. MaxTick :
          \/ ScriptSet(c, v, t) \/ ScriptPress(c, v, t)
          \/ \E to \in 0 .. MaxTick : ScriptHold(c, v, t, to)
    \/ \E c \in Channels, t \in 0 .. MaxTick : ScriptSet(c, 0, t)
    \/ \E t \in 0 .. MaxTick : ScriptProduce(t)

ScriptSpec == ScriptInit /\ [][ScriptNext]_script_vars

-----------------------------------------------------------------------------
EventsOn(c) == {i \in DOMAIN events : events[i].channel = c /\ events[i].tick <= last_tick}

\* The produced tick that was the first to see an event.
SeenAt(i) == CHOOSE t \in asked : events[i].tick <= t /\ \A o \in asked : events[i].tick <= o => t <= o

\* A press and a later event of the channel seen by the same call: the pulse's end
\* then takes the later event back, one call later.
Overtaken(c) ==
    \E i, j \in EventsOn(c) : i < j /\ events[i].op = "PRESS" /\ SeenAt(i) = SeenAt(j)

\* Types: the cursor stays in the timeline, and the timeline in order.
ScriptTypeOK ==
    /\ events \in Seq(ScriptEvent) /\ Len(events) <= MaxEvents
    /\ \A i \in 2 .. Len(events) : events[i - 1].tick <= events[i].tick
    /\ cursor \in 0 .. Len(events) /\ last_tick \in 0 .. MaxTick
    /\ pending_release \subseteq Channels

\* script_produce gives at every tick what the timeline says of it, wherever the
\* loop began and whatever ticks it left out: the last event that was due decides,
\* and a press only at the first tick that sees it.  Overtaken presses excepted.
FrameFollowsScript ==
    produced_once => \A c \in Channels : ~Overtaken(c) =>
        IF EventsOn(c) = {} THEN ~output[c].down
        ELSE LET i == CHOOSE i \in EventsOn(c) : \A j \in EventsOn(c) : j <= i
                 on == /\ events[i].op # "HOLD_END"
                       /\ events[i].op = "SET" => events[i].value # 0
                       /\ events[i].op = "PRESS" => SeenAt(i) = last_tick
             IN  output[c].down = on /\ output[c].value = (IF on THEN events[i].value ELSE 0)

\* The scripted producer's frames are the timeline's (script_produce).
ScriptInv == ScriptTypeOK /\ FrameFollowsScript
=============================================================================

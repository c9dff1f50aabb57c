------------------------------ MODULE LiveInput ------------------------------
(***************************************************************************)
(* The live input producer: core/producers/live.cpp, the action map it     *)
(* folds through (core/action_map.cpp) and the ring of raw events between  *)
(* the platform and the loop.                                              *)
(*                                                                         *)
(* A control is what the player can hold: <<device, code>>.  A binding     *)
(* names its controls directly; analog values are integers, Full of them   *)
(* to 1.0, so that the rounding to i8 is exact.                            *)
(***************************************************************************)
EXTENDS Integers, FiniteSets, SequencesExt

CONSTANTS
    Cap,              \* slots of the ring
    CursorMod,        \* bound: 2^32 in the source, the values of a cursor
    OverwriteOldest   \* what a push to a full ring does

ASSUMPTION RingAssumption ==
    /\ Cap \in Nat \ {0} /\ CursorMod \in Nat \ {0}
    /\ CursorMod % Cap = 0 /\ Cap < CursorMod
    /\ OverwriteOldest = TRUE      \* loop.cpp gives ring_init no other

CONSTANTS
    Actions,       \* registered actions
    Kind,          \* of an action: "digital" or "analog"
    ActionMaps,    \* the binding tables the game may have registered
    Modifiers,     \* keys that are modifiers
    Full,          \* bound: steps of an axis from neutral to full deflection
    Deflections    \* bound: the values an axis or a motion reports

-----------------------------------------------------------------------------
(* foundation/ring.h: a queue in an array whose length is a power of two.  *)
(* Both cursors only ever grow, modulo the width of their type; an index   *)
(* is the cursor modulo the capacity.                                      *)

EmptyRing(none) == [data |-> [i \in 0 .. Cap - 1 |-> none], head |-> 0, tail |-> 0]

Bug_RingCount(r) == IF r.tail >= r.head THEN r.tail - r.head ELSE r.head - r.tail

RingCount(r) == (r.tail + CursorMod - r.head) % CursorMod

IsRing(r) ==
    r.head \in 0 .. CursorMod - 1 /\ r.tail \in 0 .. CursorMod - 1 /\ RingCount(r) <= Cap

RingFull(r) == RingCount(r) = Cap

IsEmptyRing(r) == r.head = r.tail

\* A full ring that may not overwrite refuses the push.
RingAccepts(r) == OverwriteOldest \/ ~RingFull(r)

RingPush(r, v) ==
    IF ~RingAccepts(r) THEN r
    ELSE [data |-> [r.data EXCEPT ![r.tail % Cap] = v],
          head |-> IF RingFull(r) THEN (r.head + 1) % CursorMod ELSE r.head,
          tail |-> (r.tail + 1) % CursorMod]

RingPeek(r, i) == r.data[(r.head + i) % Cap]

\* Popped until empty.  What was popped is never read again, and is forgotten.
RingDrain(r, none) == [EmptyRing(none) EXCEPT !.head = r.tail, !.tail = r.tail]

\* What the ring holds, oldest first.
RingItems(r) == [i \in 1 .. RingCount(r) |-> RingPeek(r, i - 1)]

-----------------------------------------------------------------------------
VARIABLES
    bindings, active_context,   \* ActionMap
    raw_events,                 \* the engine's ring
    lp,                         \* LiveProducer
    frame,                      \* values of the frame produced last
    seen,                       \* history: what a reader of its edges alone believes down
    held,                       \* history: the controls held now
    before,                     \* history: the pairs of them of which the first was pressed earlier
    lost,                       \* history: controls whose last event was overwritten or masked
    arrived                     \* history: the events the ring should hold

vars == <<bindings, active_context, raw_events, lp, frame, seen, held, before, lost, arrived>>

DigitalDevices == {"key", "mouse_button", "pad_button"}
ControlsOf(bs) ==
    UNION {{<<"key", m>> : m \in b.modifiers} \cup
           (IF b.dev = "keys_axis" THEN {b.neg, b.pos}
            ELSE IF b.dev \in DigitalDevices THEN {b.pos} ELSE {}) : b \in ToSet(bs)}
Controls == ControlsOf(bindings)
Contexts(bs) == {b.context : b \in ToSet(bs)}
\* What ImGui can take away from these bindings.
Capturable ==
    {w \in {"mouse", "keyboard"} : \E b \in ToSet(bindings) :
        b.dev \in IF w = "mouse" THEN {"mouse_button", "mouse_axis"} ELSE {"key", "keys_axis"}}
\* The modifier bits travel with every key event and can be lost with it.
ModifierBits == <<"key", "mods">>

NoEvent == [kind |-> "none"]
ModifiersOf(controls) == {m \in Modifiers : <<"key", m>> \in controls}
DigitalEvent(c, now, down) ==
    [kind |-> c[1], control |-> c, down |-> down, mods |-> ModifiersOf(now)]
AxisEvent(v) == [kind |-> "pad_axis", value |-> v]
MotionEvent(d) == [kind |-> "mouse_move", value |-> d]
PadConnect(up) == [kind |-> "pad_connect", connected |-> up]
IsPad(c) == c[1] = "pad_button"

\* live_produce_frame's first filter.
IsMouseEvent(e) == e.kind \in {"mouse_move", "mouse_button"}
IsKeyEvent(e) == e.kind = "key"
Masked(wanted, e) ==
    \/ "mouse" \in wanted /\ IsMouseEvent(e)
    \/ "keyboard" \in wanted /\ IsKeyEvent(e)

\* action_bind.  A binding's controls are of its device; the deadzone's radius is below full
\* deflection (apply_deadzone clamps it), and the modifiers of a key event are no control.
IsBinding(b) ==
    /\ b.action \in Actions /\ b.modifiers \subseteq Modifiers
    /\ b.dev \in DigitalDevices => b.pos[1] = b.dev
    /\ b.dev = "keys_axis" => b.neg[1] = "key" /\ b.pos[1] = "key"
    /\ ModifierBits \notin {b.neg, b.pos}
    /\ b.socd \in {"neutral", "last", "first"} /\ b.dz \in {"none", "axial", "radial", "trigger"}
    /\ b.radius \in 0 .. Full - 1 /\ b.sensitivity \in Int
    /\ b.dev \in {"mouse_axis", "pad_axis"} => b.sensitivity # 0

ASSUME MapAssumption ==
    /\ Kind \in [Actions -> {"digital", "analog"}]
    /\ IsFiniteSet(Modifiers) /\ "mods" \notin Modifiers
    /\ Full \in Nat \ {0} /\ Deflections \subseteq Int
    /\ \A bs \in ActionMaps : bs \in Seq(ToSet(bs)) /\ \A i \in DOMAIN bs : IsBinding(bs[i])

-----------------------------------------------------------------------------
\* Folding: device state, one event after the other.

Bug_PressedDir(b, dir, c) ==
    IF b.dev = "keys_axis" /\ b.socd \in {"last", "first"}
    THEN IF b.pos = c THEN 1 ELSE IF b.neg = c THEN -1 ELSE dir
    ELSE dir

\* A press takes the axis; with SOCD_FIRST_WINS only a free one.
PressedDir(b, dir, c) ==
    IF /\ b.dev = "keys_axis" /\ b.socd \in {"last", "first"}
       /\ b.socd = "first" => dir = 0
    THEN IF b.pos = c THEN 1 ELSE IF b.neg = c THEN -1 ELSE dir
    ELSE dir

FoldKey(bs, d, e) ==
    [d EXCEPT !.down = IF e.down THEN @ \cup {e.control} ELSE @ \ {e.control},
              !.mods = e.mods,
              !.last_dir = [i \in DOMAIN @ |->
                  IF e.down /\ e.control \notin d.down
                  THEN PressedDir(bs[i], @[i], e.control) ELSE @[i]]]

Bug_FoldPadConnect(d, e) ==
    IF e.connected THEN d ELSE [d EXCEPT !.axis = 0]

\* Only a disconnection changes what the fold reads.
FoldPadConnect(d, e) ==
    IF e.connected THEN d
    ELSE [d EXCEPT !.axis = 0, !.down = {c \in @ : ~IsPad(c)}]

FoldEvent(bs, d, e) ==
    CASE e.kind = "key" -> FoldKey(bs, d, e)
      [] e.kind \in {"mouse_button", "pad_button"} ->
            [d EXCEPT !.down = IF e.down THEN @ \cup {e.control} ELSE @ \ {e.control}]
      [] e.kind = "mouse_move" -> [d EXCEPT !.motion = @ + e.value]
      [] e.kind = "pad_axis" -> [d EXCEPT !.axis = e.value]
      [] e.kind = "pad_connect" -> FoldPadConnect(d, e)

DeviceStep(bs, wanted, d, e) == IF Masked(wanted, e) THEN d ELSE FoldEvent(bs, d, e)
Folded(bs, wanted, d, items) == FoldLeft(LAMBDA x, e : DeviceStep(bs, wanted, x, e), d, items)
Device(wanted) == Folded(bindings, wanted, lp, RingItems(raw_events))

-----------------------------------------------------------------------------
\* Resolving: from device state to a frame.

Bug_Clamp(v) == IF v > Full THEN Full ELSE v

Clamp(v) == IF v > Full THEN Full ELSE IF v < -Full THEN -Full ELSE v

\* DZ_RADIAL is applied per axis, as DZ_AXIAL.
Deadzone(b, v) ==
    LET size == IF v < 0 THEN -v ELSE v
        rest == ((size - b.radius) * Full) \div (Full - b.radius)
    IN  CASE b.dz = "none" -> v
          [] b.dz \in {"axial", "radial"} ->
                IF size < b.radius THEN 0 ELSE Clamp(IF v < 0 THEN -rest ELSE rest)
          [] b.dz = "trigger" -> IF v < b.radius THEN 0 ELSE Clamp(rest)

Satisfied(d, b) ==
    /\ b.dev \in DigitalDevices /\ b.context = active_context
    /\ b.pos \in d.down /\ b.modifiers \subseteq d.mods

Bug_ActiveBindings(d) == {i \in DOMAIN bindings : Satisfied(d, bindings[i])}

\* Chords: the most modifiers win a control.
ActiveBindings(d) ==
    {i \in DOMAIN bindings :
        /\ Satisfied(d, bindings[i])
        /\ ~\E j \in DOMAIN bindings \ {i} :
              /\ Satisfied(d, bindings[j])
              /\ bindings[j].pos = bindings[i].pos
              /\ Cardinality(bindings[j].modifiers) > Cardinality(bindings[i].modifiers)}

Bug_ResolvedDir(d, b, dir) ==
    IF b.socd = "neutral"
    THEN (IF b.pos \in d.down THEN 1 ELSE 0) - (IF b.neg \in d.down THEN 1 ELSE 0)
    ELSE IF b.pos \notin d.down /\ b.neg \notin d.down THEN 0 ELSE dir

\* A released winner gives way to the other key, if that is held.
ResolvedDir(d, b, dir) ==
    LET pos == b.pos \in d.down
        neg == b.neg \in d.down
    IN  CASE b.socd = "neutral" -> (IF pos THEN 1 ELSE 0) - (IF neg THEN 1 ELSE 0)
          [] b.socd # "neutral" /\ ~pos /\ ~neg -> 0
          [] b.socd # "neutral" /\ dir = 1 /\ ~pos /\ neg -> -1
          [] b.socd # "neutral" /\ dir = -1 /\ ~neg /\ pos -> 1
          [] OTHER -> dir

\* Only bindings of an analog action in the active context are resolved.
Resolves(a, i) ==
    Kind[a] = "analog" /\ bindings[i].action = a /\ bindings[i].context = active_context

Dirs(d) ==
    [i \in DOMAIN bindings |->
        IF bindings[i].dev = "keys_axis" /\ bindings[i].socd # "neutral"
           /\ Resolves(bindings[i].action, i)
        THEN ResolvedDir(d, bindings[i], d.last_dir[i]) ELSE d.last_dir[i]]

AxisValue(d, i) ==
    LET b == bindings[i]
    IN  CASE b.dev = "keys_axis" -> ResolvedDir(d, b, d.last_dir[i]) * Full
          [] b.dev = "mouse_axis" -> Deadzone(b, Clamp(d.motion)) * b.sensitivity
          [] b.dev = "pad_axis" -> Deadzone(b, d.axis) * b.sensitivity
          [] OTHER -> 0

SumStep(d, a, sum, i) == IF Resolves(a, i) THEN sum + AxisValue(d, i) ELSE sum
Summed(d, a, bs) == FoldLeft(LAMBDA sum, i : SumStep(d, a, sum, i), 0, [i \in DOMAIN bs |-> i])

Value(d, a) ==
    IF Kind[a] = "digital"
    THEN IF \E i \in ActiveBindings(d) : bindings[i].action = a THEN 1 ELSE 0
    ELSE Clamp(Summed(d, a, bindings))

Bug_Pressed(d, a) == Value(d, a) > 0 /\ a \notin d.prev_down

\* The edges of a frame against the one before.
Pressed(d, a) == Value(d, a) # 0 /\ a \notin d.prev_down
Released(d, a) == Value(d, a) = 0 /\ a \in d.prev_down

-----------------------------------------------------------------------------
Init ==
    /\ bindings \in ActionMaps
    /\ active_context \in Contexts(bindings)
    /\ raw_events = EmptyRing(NoEvent)
    /\ lp = [down |-> {}, mods |-> {}, axis |-> 0, motion |-> 0, prev_down |-> {},
             last_dir |-> [i \in DOMAIN bindings |-> 0]]
    /\ frame = [a \in Actions |-> 0] /\ seen = {}
    /\ held = {} /\ before = {} /\ lost = {} /\ arrived = <<>>

\* The controls an event speaks of, and those it settles whatever came before:
\* a press may repeat one that was folded long ago, a release may not.
Subjects(bs, e) ==
    CASE e.kind = "key" -> {e.control, ModifierBits}
      [] e.kind \in {"mouse_button", "pad_button"} -> {e.control}
      [] e.kind = "pad_connect" -> IF e.connected THEN {} ELSE {c \in ControlsOf(bs) : IsPad(c)}
      [] OTHER -> {}
Settles(bs, e) ==
    IF e.kind \in DigitalDevices /\ e.down THEN Subjects(bs, e) \cap {ModifierBits}
    ELSE Subjects(bs, e)

\* The pump pushes an event; a full ring overwrites its oldest.
Arrives(e) ==
    /\ raw_events' = RingPush(raw_events, e)
    /\ arrived' = IF Len(arrived) = Cap THEN Append(Tail(arrived), e) ELSE Append(arrived, e)
    /\ lost' = IF Len(arrived) = Cap THEN lost \cup Subjects(bindings, Head(arrived)) ELSE lost
    /\ UNCHANGED <<bindings, active_context, lp, frame, seen>>

Press(c) ==
    /\ c \in Controls \ held
    /\ held' = held \cup {c} /\ before' = before \cup (held \X {c})
    /\ Arrives(DigitalEvent(c, held \cup {c}, TRUE))

LetGo(controls) ==
    /\ held' = held \ controls
    /\ before' = {p \in before : p[1] \notin controls /\ p[2] \notin controls}

Release(c) ==
    /\ c \in held
    /\ LetGo({c})
    /\ Arrives(DigitalEvent(c, held \ {c}, FALSE))

\* Of these controls, the one that is held and was pressed last.
Newest(controls) ==
    {c \in controls \cap held : \A o \in (controls \cap held) \ {c} : <<o, c>> \in before}

\* The platform repeats the key pressed last; the fold ignores the repeat flag.
KeyRepeat ==
    /\ \E c \in Newest(held) : c[1] = "key" /\ Arrives(DigitalEvent(c, held, TRUE))
    /\ UNCHANGED <<held, before>>

\* A pad that is gone holds nothing, and sends no releases.
PadChanges(up) ==
    /\ \E b \in ToSet(bindings) : b.dev \in {"pad_button", "pad_axis"}
    /\ IF up THEN UNCHANGED <<held, before>> ELSE LetGo({c \in held : IsPad(c)})
    /\ Arrives(PadConnect(up))

\* Motion of what no binding reads is left out.
Moves(dev, e) == (\E b \in ToSet(bindings) : b.dev = dev) /\ Arrives(e) /\ UNCHANGED <<held, before>>

ActionMapSetContext(c) ==
    /\ active_context' = c
    /\ UNCHANGED <<bindings, raw_events, lp, frame, seen, held, before, lost, arrived>>

LostStep(bs, wanted, l, e) ==
    IF Masked(wanted, e) THEN l \cup Subjects(bs, e) ELSE l \ Settles(bs, e)
Losing(bs, wanted, l, items) == FoldLeft(LAMBDA x, e : LostStep(bs, wanted, x, e), l, items)
LostNow(wanted) == Losing(bindings, wanted, lost, RingItems(raw_events))

\* live_produce: drain the ring, ask ImGui, fold, resolve, derive the edges.  Motion
\* starts at zero in the next call and is put back here, when it has been used.
LiveProduce(wanted) ==
    LET d == Device(wanted)
    IN  /\ raw_events' = RingDrain(raw_events, NoEvent)
        /\ lp' = [d EXCEPT !.motion = 0, !.last_dir = Dirs(d),
                          !.prev_down = {a \in Actions : Value(d, a) # 0}]
        /\ frame' = [a \in Actions |-> Value(d, a)]
        /\ seen' = {a \in Actions : Pressed(d, a) \/ (a \in seen /\ ~Released(d, a))}
        /\ arrived' = <<>>
        /\ lost' = LostNow(wanted)
        /\ UNCHANGED <<bindings, active_context, held, before>>

Next ==
    \/ \E c \in Controls : Press(c) \/ Release(c)
    \/ KeyRepeat
    \/ \E up \in BOOLEAN : PadChanges(up)
    \/ \E v \in Deflections : Moves("pad_axis", AxisEvent(v)) \/ Moves("mouse_axis", MotionEvent(v))
    \/ \E c \in Contexts(bindings) : ActionMapSetContext(c)
    \/ \E wanted \in SUBSET Capturable : LiveProduce(wanted)

Spec == Init /\ [][Next]_vars

-----------------------------------------------------------------------------
\* Types: cursors stay in their width, the fold keeps to what bindings name.
TypeOK ==
    /\ bindings \in ActionMaps /\ active_context \in Contexts(bindings)
    /\ IsRing(raw_events)
    /\ lp.down \subseteq Controls /\ lp.mods \subseteq Modifiers
    /\ lp.last_dir \in [DOMAIN bindings -> -1 .. 1] /\ lp.prev_down \subseteq Actions
    /\ \A a \in Actions : frame[a] \in -Full .. Full
    /\ lost \subseteq Controls \cup {ModifierBits}

\* ring.h: with overwrite_oldest the ring holds the newest events that were not
\* drained, in the order of their arrival, however often the cursors wrapped.
RingKeepsNewest == RingItems(raw_events) = arrived

\* live_produce_frame: when the ring has been drained the fold believes a
\* control held exactly when it is, except for controls whose last event the
\* ring overwrote or ImGui took, and which were not released since.
FoldedStateIsReal ==
    IsEmptyRing(raw_events) => \A c \in Controls \ lost : c \in lp.down <=> c \in held

\* From the ring to the device state, event by event.
FoldInv == TypeOK /\ RingKeepsNewest /\ FoldedStateIsReal

Calls(b) ==
    /\ b.dev \in DigitalDevices /\ b.context = active_context
    /\ b.pos \in held /\ \A m \in b.modifiers : <<"key", m>> \in held

\* Chords: a digital action is down in a frame just when, of what the player
\* holds as the frame is made, one of its bindings is called for and no binding
\* of the same control with more modifiers is; in the active context alone.
FrameIsWhatIsHeld ==
    \A wanted \in SUBSET Capturable : LostNow(wanted) = {} =>
        LET d == Device(wanted)
        IN  \A a \in Actions : Kind[a] = "digital" =>
                (Value(d, a) = 1 <=> \E b \in ToSet(bindings) :
                    /\ b.action = a /\ Calls(b)
                    /\ \A o \in ToSet(bindings) : Calls(o) /\ o.pos = b.pos =>
                          Cardinality(o.modifiers) <= Cardinality(b.modifiers))

\* From what arrives to the device state, and from it to the frame (live.cpp, action_map.cpp).
DeviceInv == FoldInv /\ FrameIsWhatIsHeld

\* An action with one binding in the active context, a keys axis of this policy.
OnAxis(i, socd) ==
    /\ bindings[i].dev = "keys_axis" /\ bindings[i].socd = socd
    /\ \A j \in DOMAIN bindings : Resolves(bindings[i].action, j) <=> j = i

\* SOCD_LAST_WINS: of two opposed keys that are held, the one pressed last has
\* the axis, also when both changed between two ticks.
LastPressWins ==
    \A wanted \in SUBSET Capturable, i \in DOMAIN bindings :
        LET b == bindings[i]
            keys == {b.neg, b.pos}
        IN  OnAxis(i, "last") /\ keys \cap LostNow(wanted) = {} =>
                Value(Device(wanted), b.action) =
                    IF keys \cap held = {} THEN 0 ELSE IF b.pos \in Newest(keys) THEN Full ELSE -Full

\* An action that has no other binding in any context.
OnlyBinding(i) == \A j \in DOMAIN bindings : bindings[j].action = bindings[i].action => j = i

\* SOCD_FIRST_WINS: who has the axis keeps it for as long as the key stays down.
FirstPressKeeps ==
    \A wanted \in SUBSET Capturable, i \in DOMAIN bindings :
        LET b == bindings[i]
            winner == IF frame[b.action] > 0 THEN b.pos ELSE b.neg
        IN  /\ OnAxis(i, "first") /\ OnlyBinding(i) /\ frame[b.action] # 0
            /\ winner \in held \ LostNow(wanted)
            /\ \A n \in DOMAIN arrived : winner \notin Subjects(bindings, arrived[n])
            => Value(Device(wanted), b.action) = frame[b.action]

\* Either policy of opposed keys.
SocdPolicy == LastPressWins /\ FirstPressKeeps

\* Edges: a reader that only follows pressed and released knows what is down.
EdgesTellAll == seen = {a \in Actions : frame[a] # 0}
=============================================================================

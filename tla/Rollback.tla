------------------------------- MODULE Rollback -------------------------------
(***************************************************************************)
(* A driver of engine_tick_once that keeps a snapshot of the world between *)
(* ticks and rolls back to one, as tests/core/loop.test.cpp does by hand:  *)
(* ring_push and registry_snapshot; ring_find, registry_restore and        *)
(* world_post_restore (foundation/snapshot.cpp, arena_registry.cpp,        *)
(* core/world.cpp).  The ring and the recorder are not rewound.            *)
(***************************************************************************)
EXTENDS Naturals, Sequences

CONSTANTS
    Seats, LiveSeats,   \* the driver's session: InputFrame[MAX_PEERS], the live ones
    SeatFrames,         \* input frames
    ReadsBack,          \* whether its systems feed last tick's events back into the world
    Horizon,            \* CONFIRMATION_HORIZON_TICKS, a positive number of ticks
    MaxTick,            \* bound: the tick of the world
    MaxRestores         \* bound: rollbacks of a run

ASSUME SeatsAssumption ==
    LiveSeats \subseteq Seats /\ SeatFrames # {} /\ ReadsBack \in BOOLEAN

VARIABLES
    arenas, now, prev_pose, readable, writing, recorded,   \* the driver's world (EngineTick)
    ring,
    restores,
    inputs,         \* history: the frames of the ticks now in force
    refused,        \* history: ticks of this timeline whose snapshot did not fit
    astray          \* history: a refused tick was found and restored all the same

World == INSTANCE EngineTick WITH
    Peers <- Seats, LiveMask <- LiveSeats, Frames <- SeatFrames, ReadsEvents <- ReadsBack,
    memory <- arenas, tick <- now, prev <- prev_pose, read <- readable, write <- writing,
    rows <- recorded

\* A ring has a slot, and the bounds are numbers.
Bounded == Horizon \in Nat \ {0} /\ MaxTick \in Nat /\ MaxRestores \in Nat

history == <<inputs, refused, astray>>
world_vars == <<arenas, now, prev_pose, readable, writing, recorded>>
rewind_vars == <<world_vars, ring, restores, history>>

-----------------------------------------------------------------------------
\* The ring as a value (snapshot.cpp), and registry_snapshot's way of filling a
\* claimed slot.  An image stands for the bytes of the snapshotted arenas.
Slots == 0 .. Horizon - 1
Empty == <<>>           \* the image of a slot whose count is 0

RingInit == [slot |-> [s \in Slots |-> [tick |-> 0, image |-> Empty]], head |-> 0, count |-> 0]

\* The slot a ring_push claims.
Claimed(r) == r.head

Bug_RingPush(r, t) ==
    [slot |-> [r.slot EXCEPT ![r.head] = [tick |-> t, image |-> Empty]],
     head |-> r.head + 1,
     count |-> IF r.count < Horizon THEN r.count + 1 ELSE Horizon]
Bug_RingPushShortCount(r, t) ==
    [slot |-> [r.slot EXCEPT ![r.head] = [tick |-> t, image |-> Empty]],
     head |-> (r.head + 1) % Horizon,
     count |-> IF r.count < Horizon - 1 THEN r.count + 1 ELSE Horizon - 1]
\* ring_push: the slot is invisible to ring_find until it is filled.
RingPush(r, t) ==
    [slot |-> [r.slot EXCEPT ![r.head] = [tick |-> t, image |-> Empty]],
     head |-> (r.head + 1) % Horizon,
     count |-> IF r.count < Horizon THEN r.count + 1 ELSE Horizon]

\* registry_snapshot into slot s, when the arenas fit the slot's blob.
Fill(r, s, t, image) == [r EXCEPT !.slot[s] = [tick |-> t, image |-> image]]

\* registry_snapshot when they do not: the slot is invalidated.
Overflow(r, s) == [r EXCEPT !.slot[s] = [tick |-> 0, image |-> Empty]]

\* The i-th newest slot.
Bug_Newest(r, i) == (r.head + i) % Horizon
Newest(r, i) == (r.head + Horizon - 1 - i) % Horizon

Holds(r, s, t) == r.slot[s].tick = t /\ r.slot[s].image # Empty

Found(r, t) == \E i \in 0 .. r.count - 1 : Holds(r, Newest(r, i), t)

\* ring_find: the newest filled slot of that tick.
RingFind(r, t) ==
    LET first == CHOOSE i \in 0 .. r.count - 1 :
                    /\ Holds(r, Newest(r, i), t)
                    /\ \A j \in 0 .. i - 1 : ~Holds(r, Newest(r, j), t)
    IN r.slot[Newest(r, first)].image

-----------------------------------------------------------------------------
\* The driver.
Image == [memory |-> arenas, tick |-> now, prev |-> prev_pose]

Snap(r, t, image) == Fill(RingPush(r, t), Claimed(r), t, image)

RewindInit ==
    /\ World!TickInit
    /\ ring = Snap(RingInit, 0, Image)
    /\ restores = 0
    /\ inputs = <<>> /\ refused = {} /\ astray = FALSE

\* A tick, and the snapshot of the world it leaves, when it fits its slot.
TickAndSnap(given) ==
    /\ now < MaxTick
    /\ World!EngineTickOnce(given)
    /\ ring' = Snap(ring, now', Image')
    /\ inputs' = Append(inputs, given)
    /\ UNCHANGED <<restores, refused, astray>>

\* The same when the arenas have outgrown the slot: a dev build's
\* ERR_MEM_RING_OVERFLOW (the other builds stop).
TickAndOverflow(given) ==
    /\ now < MaxTick
    /\ World!EngineTickOnce(given)
    /\ ring' = Overflow(RingPush(ring, now'), Claimed(ring))
    /\ inputs' = Append(inputs, given)
    /\ refused' = refused \cup {now'}
    /\ UNCHANGED <<restores, astray>>

\* registry_restore copies the arenas back, WorldState.tick among them;
\* world_post_restore drops both event halves.
Bug_Restore(t) ==
    /\ restores < MaxRestores /\ t < now /\ Found(ring, t)
    /\ LET image == RingFind(ring, t) IN
       /\ arenas' = image.memory /\ now' = image.tick
    /\ readable' = <<>> /\ writing' = <<>>
    /\ ring' = ring
    /\ restores' = restores + 1
    /\ inputs' = SubSeq(inputs, 1, t)
    /\ refused' = refused \cap 0 .. t /\ astray' = (astray \/ t \in refused)
    /\ UNCHANGED <<prev_pose, recorded>>
Restore(t) ==
    /\ restores < MaxRestores /\ t < now /\ Found(ring, t)
    /\ LET image == RingFind(ring, t) IN
       /\ arenas' = image.memory /\ now' = image.tick /\ prev_pose' = image.prev
    /\ readable' = <<>> /\ writing' = <<>>
    /\ ring' = ring
    /\ restores' = restores + 1
    /\ inputs' = SubSeq(inputs, 1, t)
    /\ refused' = refused \cap 0 .. t /\ astray' = (astray \/ t \in refused)
    /\ UNCHANGED recorded

RewindNext ==
    \/ \E given \in [Seats -> SeatFrames] : TickAndSnap(given) \/ TickAndOverflow(given)
    \/ \E t \in 0 .. MaxTick : Restore(t)

RewindSpec == RewindInit /\ [][RewindNext]_rewind_vars

-----------------------------------------------------------------------------
(* Correctness.                                                            *)

RewindOK ==
    /\ now \in 0 .. MaxTick /\ restores \in 0 .. MaxRestores
    /\ ring.head \in Slots /\ ring.count \in 0 .. Horizon
    /\ \A s \in Slots : ring.slot[s].tick \in 0 .. MaxTick
    /\ Len(inputs) = now /\ refused \subseteq 1 .. now /\ astray \in BOOLEAN

\* The world after the first n ticks, had it never been rolled back.
Straight(n) ==
    [i \in 1 .. n |->
        [in |-> World!Live(inputs[i]),
         ev |-> IF ReadsBack /\ i > 1 THEN <<World!Live(inputs[i - 1])>> ELSE <<>>]]

\* "Restore-then-retick reproduces the hash trace": after any rollbacks, the
\* world is the one that the inputs now in force make of an empty world, as
\* long as no rollback went to a tick whose snapshot had been refused.
ReticksToTheSameWorld == ~astray => arenas = Straight(now) /\ prev_pose = now

\* What ring_find returns for a tick of the present timeline is the world of
\* that tick on this timeline, although snapshots of abandoned timelines, of
\* the same ticks, are still in the ring; but for a tick whose snapshot was
\* refused, where the abandoned one is what it returns.
FoundSnapshotIsCurrent ==
    ~astray => \A t \in 0 .. now \ refused : Found(ring, t) =>
        RingFind(ring, t) = [memory |-> SubSeq(arenas, 1, t), tick |-> t, prev |-> t]

\* Until a first rollback, whose re-ticking pushes snapshots of the same ticks
\* again, any tick within the horizon of the present can be rolled back to
\* unless its snapshot was refused.
HorizonIsHeldAtFirst ==
    restores = 0 => \A t \in 0 .. now \ refused : now - t < Horizon => Found(ring, t)

\* The ring of snapshots: what is in it is of the present, and it reaches back far
\* enough.
RingInv == RewindOK /\ FoundSnapshotIsCurrent /\ HorizonIsHeldAtFirst
=============================================================================

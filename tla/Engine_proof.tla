---------------------------- MODULE Engine_proof ----------------------------
(***************************************************************************)
(* Theorems of the frame loop (EngineFrame) and of rollback (Rollback),    *)
(* the two that call engine_tick_once, and of the doors to what the        *)
(* simulation reads between its calls (Console).                           *)
(*                                                                         *)
(* Rollback: the ring of snapshots gives the present timeline's worlds and *)
(* reaches back far enough, and a world that feeds no events back into     *)
(* itself reticks to the same world.                                       *)
(*                                                                         *)
(* EngineFrame: at a tick's end the world is a function of the frames      *)
(* recorded so far and of nothing else: WorldInv says which one, row by    *)
(* row, and the determinism of the replay and the events' delivery follow. *)
(* The clock's half is separate.                                           *)
(*                                                                         *)
(* Console: an index that is kept in order is searched right, the last     *)
(* command for a cvar wins at the barrier, and a sealed `set` is accepted. *)
(***************************************************************************)
EXTENDS EngineFrame, Rollback, Console, FiniteSetTheorems, SequenceTheorems, WellFoundedInduction, TLAPS

-----------------------------------------------------------------------------
\* Places of the ring.

\* A nonempty set of naturals has a least element: the form induction takes here.
LEMMA Least ==
    ASSUME NEW T, T \subseteq Nat, T # {}
    PROVE  \E n \in T : \A m \in T : n <= m
<1>1. PICK x \in T : \A y \in T : ~(<<y, x>> \in OpToRel(<, Nat))
  BY NatLessThanWellFounded, WFMin
<1>2. \A y \in T : ~(y < x)
  BY <1>1 DEF OpToRel
<1>. QED BY <1>2

\* The remainder of less than two turns.
LEMMA Turn ==
    ASSUME NEW H \in Nat \ {0}, NEW x \in 0 .. 2 * H - 1
    PROVE  x % H = IF x < H THEN x ELSE x - H
<1>. DEFINE q == x \div H
            m == x % H
<1>1. q \in Nat /\ m \in 0 .. H - 1 /\ x = H * q + m
  OBVIOUS
<1>. HIDE DEF q, m
<1>2. CASE q = 0
  BY <1>1, <1>2 DEF m
<1>3. CASE q = 1
  BY <1>1, <1>3 DEF m
<1>4. CASE q >= 2
  <2>1. H * q >= H * 2
    BY <1>1, <1>4
  <2>. QED BY <1>1, <2>1
<1>. QED BY <1>1, <1>2, <1>3, <1>4

\* What a slot holds: the snapshot of a world, or nothing.
Moment == [in : [LiveSeats -> SeatFrames], ev : Seq([LiveSeats -> SeatFrames])]
Worlds == [memory : Seq(Moment), tick : Nat, prev : Nat]
Entries == [tick : Nat, image : Worlds \cup {Empty}]
Rings == [slot : [Slots -> Entries], head : Slots, count : 0 .. Horizon]

\* A world is not the absence of one.
LEMMA WorldIsNotEmpty == \A w \in Worlds : w # Empty
<1>. TAKE w \in Worlds
<1>1. "tick" \in DOMAIN w
  BY DEF Worlds
<1>2. DOMAIN Empty = {}
  BY DEF Empty
<1>. QED BY <1>1, <1>2

\* Where the i-th newest slot is.
LEMMA NewestPlace ==
    ASSUME Bounded, NEW h \in Slots, NEW i \in 0 .. Horizon - 1
    PROVE  (h + Horizon - 1 - i) % Horizon = IF i < h THEN h - 1 - i ELSE h + Horizon - 1 - i
<1>. DEFINE x == h + Horizon - 1 - i
<1>1. Horizon \in Nat \ {0} /\ h \in 0 .. Horizon - 1
  BY DEF Bounded, Slots
<1>2. x \in 0 .. 2 * Horizon - 1
  BY <1>1
<1>3. x % Horizon = IF x < Horizon THEN x ELSE x - Horizon
  BY <1>1, <1>2, Turn
<1>4. (x < Horizon <=> ~(i < h)) /\ x - Horizon = h - 1 - i
  BY <1>1
<1>. QED BY <1>3, <1>4

LEMMA NewestIsASlot ==
    ASSUME Bounded, NEW r \in Rings, NEW i \in 0 .. Horizon - 1
    PROVE  Newest(r, i) \in Slots
BY NewestPlace DEF Rings, Slots, Newest, Bounded

\* ring_push followed by what registry_snapshot leaves in the claimed slot.
Pushed(r, e) ==
    [slot |-> [r.slot EXCEPT ![r.head] = e],
     head |-> (r.head + 1) % Horizon,
     count |-> IF r.count < Horizon THEN r.count + 1 ELSE Horizon]

LEMMA SnapIsPushed ==
    ASSUME NEW r \in Rings, NEW t, NEW image
    PROVE  Snap(r, t, image) = Pushed(r, [tick |-> t, image |-> image])
BY DEF Snap, Fill, RingPush, Claimed, Pushed, Rings

LEMMA OverflowIsPushed ==
    ASSUME NEW r \in Rings, NEW t
    PROVE  Overflow(RingPush(r, t), Claimed(r)) = Pushed(r, [tick |-> 0, image |-> Empty])
BY DEF Overflow, RingPush, Claimed, Pushed, Rings

LEMMA PushedShape ==
    ASSUME Bounded, NEW r \in Rings, NEW e \in Entries
    PROVE  Pushed(r, e) \in Rings /\ Pushed(r, e).count > 0
<1>1. (r.head + 1) % Horizon \in Slots
  BY DEF Bounded, Slots, Rings
<1>. QED BY <1>1 DEF Pushed, Rings, Bounded

\* A push makes every slot one older, but the oldest, which is the one claimed.
LEMMA PushedPlaces ==
    ASSUME Bounded, NEW r \in Rings, NEW e \in Entries
    PROVE  /\ Newest(Pushed(r, e), 0) = r.head
           /\ \A i \in 0 .. Horizon - 2 :
                Newest(Pushed(r, e), i + 1) = Newest(r, i) /\ Newest(r, i) # r.head
<1>. DEFINE h == r.head
            g == (h + 1) % Horizon
<1>1. h \in Slots /\ Horizon \in Nat \ {0}
  BY DEF Rings, Bounded
<1>2. Pushed(r, e).head = g
  BY DEF Pushed
<1>3. \A i \in 0 .. Horizon - 1 : Newest(r, i) = IF i < h THEN h - 1 - i ELSE h + Horizon - 1 - i
  BY <1>1, NewestPlace DEF Newest
<1>. HIDE DEF h
<1>4. g = IF h + 1 < Horizon THEN h + 1 ELSE 0
  <2>. DEFINE y == h + 1
  <2>1. y \in 0 .. 2 * Horizon - 1 /\ g = y % Horizon
    BY <1>1 DEF Slots
  <2>. HIDE DEF y, g
  <2>2. g = IF y < Horizon THEN y ELSE y - Horizon
    BY <1>1, <2>1, Turn
  <2>. QED BY <1>1, <2>2 DEF Slots, y
<1>5. g \in Slots
  BY <1>1, <1>4 DEF Slots
<1>. HIDE DEF g
<1>6. \A i \in 0 .. Horizon - 1 : Newest(Pushed(r, e), i) = IF i < g THEN g - 1 - i ELSE g + Horizon - 1 - i
  BY <1>5, <1>2, NewestPlace DEF Newest
<1>7. Newest(Pushed(r, e), 0) = h
  BY <1>1, <1>4, <1>6 DEF Slots
<1>8. ASSUME NEW i \in 0 .. Horizon - 2
      PROVE  Newest(Pushed(r, e), i + 1) = Newest(r, i) /\ Newest(r, i) # h
  <2>1. i \in 0 .. Horizon - 1 /\ i + 1 \in 0 .. Horizon - 1
    BY <1>1
  <2>. QED BY <1>1, <1>4, <1>6, <1>3, <2>1 DEF Slots
<1>. QED BY <1>7, <1>8 DEF h

\* The slots by age, after a push.
Recent(r, i) == r.slot[Newest(r, i)]

LEMMA PushedAges ==
    ASSUME Bounded, NEW r \in Rings, NEW e \in Entries
    PROVE  /\ Recent(Pushed(r, e), 0) = e
           /\ \A i \in 0 .. Horizon - 2 : Recent(Pushed(r, e), i + 1) = Recent(r, i)
<1>1. r.head \in Slots /\ DOMAIN r.slot = Slots
  BY DEF Rings
<1>2. Pushed(r, e).slot = [r.slot EXCEPT ![r.head] = e]
  BY DEF Pushed
<1>3. \A i \in 0 .. Horizon - 2 : Newest(r, i) \in Slots
  BY NewestIsASlot DEF Bounded
<1>. QED BY <1>1, <1>2, <1>3, PushedPlaces DEF Recent

-----------------------------------------------------------------------------
\* What ring_find returns.

\* The i-th newest slot is the first one of tick t.
FirstOf(r, t, i) ==
    /\ i \in 0 .. r.count - 1
    /\ Holds(r, Newest(r, i), t)
    /\ \A j \in 0 .. i - 1 : ~Holds(r, Newest(r, j), t)

LEMMA FoundIsFirst ==
    ASSUME Bounded, NEW r \in Rings, NEW t, Found(r, t)
    PROVE  \E i \in 0 .. r.count - 1 : FirstOf(r, t, i)
<1>. DEFINE T == {i \in 0 .. r.count - 1 : Holds(r, Newest(r, i), t)}
<1>1. r.count \in Nat
  BY DEF Rings, Bounded
<1>2. T \subseteq Nat /\ T # {}
  BY <1>1 DEF Found
<1>3. PICK i \in T : \A j \in T : i <= j
  BY <1>2, Least
<1>. QED BY <1>1, <1>3 DEF FirstOf

LEMMA FindReturnsFirst ==
    ASSUME Bounded, NEW r \in Rings, NEW t, NEW i, FirstOf(r, t, i)
    PROVE  RingFind(r, t) = Recent(r, i).image
<1>. DEFINE first == CHOOSE n \in 0 .. r.count - 1 :
                        /\ Holds(r, Newest(r, n), t)
                        /\ \A j \in 0 .. n - 1 : ~Holds(r, Newest(r, j), t)
<1>1. r.count \in Nat
  BY DEF Rings, Bounded
<1>2. FirstOf(r, t, first)
  BY DEF FirstOf
<1>3. first = i
  <2>. HIDE DEF first
  <2>1. ~(first < i) /\ ~(i < first)
    BY <1>1, <1>2 DEF FirstOf
  <2>. QED BY <1>1, <1>2, <2>1 DEF FirstOf
<1>. QED BY <1>3 DEF RingFind, Recent

LEMMA HoldsRecent ==
    ASSUME NEW r, NEW t, NEW i
    PROVE  Holds(r, Newest(r, i), t) <=> Recent(r, i).tick = t /\ Recent(r, i).image # Empty
BY DEF Holds, Recent

\* The snapshot just pushed is the one found.
LEMMA NewIsFound ==
    ASSUME Bounded, NEW r \in Rings, NEW e \in Entries, e.image # Empty
    PROVE  Found(Pushed(r, e), e.tick) /\ RingFind(Pushed(r, e), e.tick) = e.image
<1>. DEFINE p == Pushed(r, e)
<1>1. p \in Rings /\ p.count > 0 /\ p.count \in Nat
  BY PushedShape DEF Rings, Bounded
<1>2. Recent(p, 0) = e
  BY PushedAges
<1>. HIDE DEF p
<1>3. Holds(p, Newest(p, 0), e.tick)
  BY <1>2, HoldsRecent
<1>4. FirstOf(p, e.tick, 0) /\ Found(p, e.tick)
  BY <1>1, <1>3 DEF FirstOf, Found
<1>5. RingFind(p, e.tick) = e.image
  BY <1>1, <1>2, <1>4, FindReturnsFirst
<1>. QED BY <1>4, <1>5 DEF p

\* Of any other tick, what was found is found still, as long as it is found at all.
LEMMA OldIsFound ==
    ASSUME Bounded, NEW r \in Rings, NEW e \in Entries, NEW t,
           ~(e.tick = t /\ e.image # Empty), Found(Pushed(r, e), t)
    PROVE  Found(r, t) /\ RingFind(Pushed(r, e), t) = RingFind(r, t)
<1>. DEFINE p == Pushed(r, e)
<1>1. p \in Rings /\ Recent(p, 0) = e /\ p.count \in 0 .. Horizon /\ Horizon \in Nat
  BY PushedShape, PushedAges DEF Rings, Bounded
<1>2. \A i \in 0 .. Horizon - 2 : Recent(p, i + 1) = Recent(r, i)
  BY PushedAges
<1>3. r.count \in 0 .. Horizon /\ p.count = IF r.count < Horizon THEN r.count + 1 ELSE Horizon
  BY DEF Rings, Pushed
<1>4. Found(p, t)
  OBVIOUS
<1>. HIDE DEF p
<1>5. PICK i \in 0 .. p.count - 1 : FirstOf(p, t, i)
  BY <1>1, <1>4, FoundIsFirst
<1>6. i # 0
  BY <1>1, <1>5, HoldsRecent DEF FirstOf
<1>7. /\ i - 1 \in 0 .. r.count - 1 /\ i - 1 \in 0 .. Horizon - 2
      /\ Recent(p, i) = Recent(r, i - 1)
  <2>1. i - 1 \in 0 .. Horizon - 2 /\ i - 1 \in 0 .. r.count - 1 /\ (i - 1) + 1 = i
    BY <1>1, <1>3, <1>5, <1>6
  <2>. QED BY <1>2, <2>1
<1>8. FirstOf(r, t, i - 1)
  <2>1. Holds(r, Newest(r, i - 1), t)
    BY <1>5, <1>7, HoldsRecent DEF FirstOf
  <2>2. ASSUME NEW j \in 0 .. (i - 1) - 1
        PROVE  ~Holds(r, Newest(r, j), t)
    <3>1. j \in 0 .. Horizon - 2 /\ j + 1 \in 0 .. i - 1
      BY <1>1, <1>5, <1>7
    <3>2. ~Holds(p, Newest(p, j + 1), t)
      BY <1>5, <3>1 DEF FirstOf
    <3>3. Recent(p, j + 1) = Recent(r, j)
      BY <1>2, <3>1
    <3>. QED BY <3>2, <3>3, HoldsRecent
  <2>. QED BY <1>7, <2>1, <2>2 DEF FirstOf
<1>9. Found(r, t)
  BY <1>8 DEF FirstOf, Found
<1>10. RingFind(p, t) = RingFind(r, t)
  BY <1>1, <1>5, <1>7, <1>8, FindReturnsFirst
<1>. QED BY <1>9, <1>10 DEF p

\* What is found lies in a slot of that tick.
LEMMA FoundInASlot ==
    ASSUME Bounded, NEW r \in Rings, NEW t, Found(r, t)
    PROVE  \E s \in Slots : r.slot[s].tick = t /\ r.slot[s].image # Empty /\ RingFind(r, t) = r.slot[s].image
<1>1. PICK i \in 0 .. r.count - 1 : FirstOf(r, t, i)
  BY FoundIsFirst
<1>2. RingFind(r, t) = Recent(r, i).image
  BY <1>1, FindReturnsFirst
<1>3. i \in 0 .. Horizon - 1
  BY <1>1 DEF Rings, Bounded
<1>4. Newest(r, i) \in Slots
  BY <1>3, NewestIsASlot
<1>. QED BY <1>1, <1>2, <1>4 DEF FirstOf, Holds, Recent

-----------------------------------------------------------------------------
\* The inductive invariant: the world and its history are of the length of the
\* present timeline; a snapshot is of the tick it is stored under, on whatever
\* timeline; what ring_find gives is of the present one; and before any rollback
\* the slots by age are the ticks back from the present.

WorldShape ==
    /\ arenas \in Seq(Moment) /\ now = Len(arenas) /\ prev_pose = Len(arenas) /\ now <= MaxTick
    /\ readable \in Seq([LiveSeats -> SeatFrames]) /\ writing \in Seq([LiveSeats -> SeatFrames])
    /\ inputs \in Seq([Seats -> SeatFrames]) /\ Len(inputs) = Len(arenas)
    /\ restores \in 0 .. MaxRestores /\ refused \subseteq 1 .. now /\ astray \in BOOLEAN

\* An entry that holds a world holds that of its tick.
Whole(e) ==
    /\ e.tick <= MaxTick
    /\ e.image # Empty =>
        e.image.tick = e.tick /\ e.image.prev = e.tick /\ Len(e.image.memory) = e.tick

RingShape == ring \in Rings /\ \A s \in Slots : Whole(ring.slot[s])

ByAge ==
    restores = 0 =>
        /\ ring.count = IF now < Horizon THEN now + 1 ELSE Horizon
        /\ \A i \in 0 .. ring.count - 1 : now - i \notin refused =>
              Recent(ring, i).tick = now - i /\ Recent(ring, i).image # Empty

RewindInv == WorldShape /\ RingShape /\ ByAge /\ FoundSnapshotIsCurrent

\* A tick appends one moment to the world and one to its inputs.
LEMMA TickShape ==
    ASSUME Bounded, WorldShape, NEW given \in [Seats -> SeatFrames], World!EngineTickOnce(given),
           inputs' = Append(inputs, given)
    PROVE  /\ arenas' \in Seq(Moment) /\ Len(arenas') = Len(arenas) + 1
           /\ \A i \in 1 .. Len(arenas) : arenas'[i] = arenas[i]
           /\ arenas'[Len(arenas) + 1] = [in |-> World!Live(given), ev |-> IF ReadsBack THEN readable ELSE <<>>]
           /\ now' = Len(arenas') /\ prev_pose' = Len(arenas')
           /\ readable' \in Seq([LiveSeats -> SeatFrames]) /\ writing' \in Seq([LiveSeats -> SeatFrames])
           /\ inputs' \in Seq([Seats -> SeatFrames]) /\ Len(inputs') = Len(arenas')
           /\ \A i \in 1 .. Len(inputs) : inputs'[i] = inputs[i]
           /\ inputs'[Len(inputs) + 1] = given
<1>. DEFINE moment == [in |-> World!Live(given), ev |-> IF ReadsBack THEN readable ELSE <<>>]
<1>1. World!Live(given) \in [LiveSeats -> SeatFrames]
  BY SeatsAssumption DEF World!Live
<1>2. moment \in Moment
  <2>1. (IF ReadsBack THEN readable ELSE <<>>) \in Seq([LiveSeats -> SeatFrames])
    BY DEF WorldShape
  <2>. QED BY <1>1, <2>1 DEF Moment
<1>3. arenas' = Append(arenas, moment)
  BY DEF World!EngineTickOnce, World!RunPhases
<1>. HIDE DEF moment
<1>4. /\ arenas' \in Seq(Moment) /\ Len(arenas') = Len(arenas) + 1
      /\ \A i \in 1 .. Len(arenas) : arenas'[i] = arenas[i]
      /\ arenas'[Len(arenas) + 1] = moment
  BY <1>2, <1>3 DEF WorldShape
<1>5. readable' = Append(writing, World!Live(given)) /\ writing' = <<>> /\ now' = now + 1 /\ prev_pose' = Len(arenas')
  BY DEF World!EngineTickOnce, World!Emitted, World!Pose
<1>6. readable' \in Seq([LiveSeats -> SeatFrames]) /\ writing' \in Seq([LiveSeats -> SeatFrames])
  BY <1>1, <1>5 DEF WorldShape
<1>7. /\ inputs' \in Seq([Seats -> SeatFrames]) /\ Len(inputs') = Len(inputs) + 1
      /\ \A i \in 1 .. Len(inputs) : inputs'[i] = inputs[i]
      /\ inputs'[Len(inputs) + 1] = given
  BY DEF WorldShape
<1>. QED BY <1>4, <1>5, <1>6, <1>7 DEF WorldShape, moment

\* What a longer world begins with.
LEMMA PrefixOfAppended ==
    ASSUME NEW S, NEW s \in Seq(S), NEW s2 \in Seq(S), Len(s2) = Len(s) + 1,
           \A i \in 1 .. Len(s) : s2[i] = s[i], NEW t \in 0 .. Len(s)
    PROVE  SubSeq(s2, 1, t) = SubSeq(s, 1, t)
<1>1. /\ SubSeq(s2, 1, t) = [i \in 1 .. t |-> s2[i]]
      /\ SubSeq(s, 1, t) = [i \in 1 .. t |-> s[i]]
  OBVIOUS
<1>2. \A i \in 1 .. t : s2[i] = s[i]
  OBVIOUS
<1>. QED BY <1>1, <1>2

LEMMA WholeSubSeq ==
    ASSUME NEW S, NEW s \in Seq(S)
    PROVE  SubSeq(s, 1, Len(s)) = s
OBVIOUS

LEMMA PrefixOfPrefix ==
    ASSUME NEW S, NEW s \in Seq(S), NEW n \in 0 .. Len(s), NEW t \in 0 .. n
    PROVE  /\ SubSeq(s, 1, n) \in Seq(S) /\ Len(SubSeq(s, 1, n)) = n
           /\ \A i \in 1 .. n : SubSeq(s, 1, n)[i] = s[i]
           /\ SubSeq(SubSeq(s, 1, n), 1, t) = SubSeq(s, 1, t)
<1>1. SubSeq(s, 1, n) \in Seq(S) /\ Len(SubSeq(s, 1, n)) = n /\ \A i \in 1 .. n : SubSeq(s, 1, n)[i] = s[i]
  OBVIOUS
<1>2. /\ SubSeq(SubSeq(s, 1, n), 1, t) = [i \in 1 .. t |-> SubSeq(s, 1, n)[i]]
      /\ SubSeq(s, 1, t) = [i \in 1 .. t |-> s[i]]
  BY <1>1
<1>. QED BY <1>1, <1>2

\* The parts of the invariant under a push.

LEMMA PushKeepsRing ==
    ASSUME Bounded, RingShape, NEW e \in Entries, Whole(e), ring' = Pushed(ring, e)
    PROVE  RingShape'
<1>1. ring' \in Rings
  BY PushedShape DEF RingShape
<1>2. ring'.slot = [ring.slot EXCEPT ![ring.head] = e]
  BY DEF Pushed
<1>3. DOMAIN ring.slot = Slots
  BY DEF RingShape, Rings
<1>4. ASSUME NEW s \in Slots
      PROVE  Whole(ring'.slot[s])
  <2>1. ring'.slot[s] = e \/ ring'.slot[s] = ring.slot[s]
    BY <1>2, <1>3
  <2>. QED BY <2>1 DEF RingShape
<1>. QED BY <1>1, <1>4 DEF RingShape, Whole

LEMMA PushKeepsAge ==
    ASSUME Bounded, WorldShape, RingShape, ByAge, NEW e \in Entries, ring' = Pushed(ring, e),
           now' = now + 1, restores' = restores, refused \subseteq refused',
           now' \notin refused' => e.tick = now' /\ e.image # Empty
    PROVE  ByAge'
<1>1. SUFFICES ASSUME restores = 0
               PROVE  /\ ring'.count = IF now' < Horizon THEN now' + 1 ELSE Horizon
                      /\ \A i \in 0 .. ring'.count - 1 : now' - i \notin refused' =>
                            Recent(ring', i).tick = now' - i /\ Recent(ring', i).image # Empty
  BY DEF ByAge, Recent, Newest
<1>2. /\ ring.count = IF now < Horizon THEN now + 1 ELSE Horizon
      /\ \A i \in 0 .. ring.count - 1 : now - i \notin refused =>
            Recent(ring, i).tick = now - i /\ Recent(ring, i).image # Empty
  BY <1>1 DEF ByAge
<1>3. now \in Nat /\ Horizon \in Nat \ {0} /\ ring \in Rings
  BY DEF WorldShape, Bounded, RingShape
<1>4. ring'.count = IF ring.count < Horizon THEN ring.count + 1 ELSE Horizon
  BY DEF Pushed
<1>5. ring'.count = IF now' < Horizon THEN now' + 1 ELSE Horizon
  BY <1>2, <1>3, <1>4
<1>6. Recent(ring', 0) = e /\ \A i \in 0 .. Horizon - 2 : Recent(ring', i + 1) = Recent(ring, i)
  BY <1>3, PushedAges
<1>7. ASSUME NEW i \in 0 .. ring'.count - 1, now' - i \notin refused'
      PROVE  Recent(ring', i).tick = now' - i /\ Recent(ring', i).image # Empty
  <2>1. CASE i = 0
    BY <1>3, <1>6, <1>7, <2>1
  <2>2. CASE i # 0
    <3>1. /\ i - 1 \in 0 .. Horizon - 2 /\ i - 1 \in 0 .. ring.count - 1 /\ (i - 1) + 1 = i
          /\ now - (i - 1) = now' - i
      BY <1>2, <1>3, <1>5, <1>7, <2>2
    <3>2. Recent(ring', i) = Recent(ring, i - 1)
      BY <1>6, <3>1
    <3>3. now - (i - 1) \notin refused
      BY <1>7, <3>1
    <3>. QED BY <1>2, <3>1, <3>2, <3>3
  <2>. QED BY <2>1, <2>2
<1>. QED BY <1>5, <1>7

LEMMA PushKeepsFound ==
    ASSUME Bounded, WorldShape, RingShape, FoundSnapshotIsCurrent,
           NEW e \in Entries, ring' = Pushed(ring, e),
           arenas' \in Seq(Moment), Len(arenas') = Len(arenas) + 1,
           \A i \in 1 .. Len(arenas) : arenas'[i] = arenas[i],
           now' = now + 1, astray' = astray, refused \subseteq refused',
           now' \notin refused' \/ e.image # Empty =>
               e = [tick |-> now', image |-> [memory |-> arenas', tick |-> now', prev |-> now']]
    PROVE  FoundSnapshotIsCurrent'
<1>1. SUFFICES ASSUME ~astray, NEW t \in 0 .. now' \ refused', Found(ring', t)
               PROVE  RingFind(ring', t) = [memory |-> SubSeq(arenas', 1, t), tick |-> t, prev |-> t]
  BY DEF FoundSnapshotIsCurrent, Found, RingFind, Newest, Holds
<1>2. ring \in Rings /\ now = Len(arenas) /\ now \in Nat
  BY DEF WorldShape, RingShape
<1>3. CASE t = now'
  <2>1. e = [tick |-> now', image |-> [memory |-> arenas', tick |-> now', prev |-> now']]
    BY <1>1, <1>3
  <2>2. e.image \in Worlds
    BY <1>2, <2>1 DEF Worlds
  <2>3. RingFind(ring', t) = e.image
    BY <1>2, <1>3, <2>1, <2>2, WorldIsNotEmpty, NewIsFound
  <2>4. SubSeq(arenas', 1, t) = arenas'
    BY <1>2, <1>3, WholeSubSeq
  <2>. QED BY <1>3, <2>1, <2>3, <2>4
<1>4. CASE t # now'
  <2>1. t \in 0 .. now \ refused
    BY <1>1, <1>2, <1>4
  <2>2. ~(e.tick = t /\ e.image # Empty)
    BY <1>4
  <2>3. Found(ring, t) /\ RingFind(ring', t) = RingFind(ring, t)
    BY <1>1, <1>2, <2>2, OldIsFound
  <2>4. RingFind(ring, t) = [memory |-> SubSeq(arenas, 1, t), tick |-> t, prev |-> t]
    BY <1>1, <2>1, <2>3 DEF FoundSnapshotIsCurrent
  <2>5. SubSeq(arenas', 1, t) = SubSeq(arenas, 1, t)
    BY <1>2, <2>1, PrefixOfAppended DEF WorldShape
  <2>. QED BY <2>3, <2>4, <2>5
<1>. QED BY <1>3, <1>4

-----------------------------------------------------------------------------
\* The invariant, action by action.

LEMMA RewindInvInit ==
    ASSUME Bounded, RewindInit
    PROVE  RewindInv
<1>. DEFINE e == [tick |-> 0, image |-> Image]
<1>1. arenas = <<>> /\ now = 0 /\ prev_pose = 0 /\ readable = <<>> /\ writing = <<>>
  BY DEF RewindInit, World!TickInit
<1>2. RingInit \in Rings /\ RingInit.count = 0 /\ \A s \in Slots : Whole(RingInit.slot[s])
  BY DEF RingInit, Rings, Entries, Slots, Bounded, Whole
<1>3. Image = [memory |-> <<>>, tick |-> 0, prev |-> 0] /\ Image \in Worlds
  BY <1>1 DEF Image, Worlds
<1>4. e \in Entries /\ Whole(e) /\ e.image # Empty
  BY <1>3, WorldIsNotEmpty DEF Entries, Whole, Bounded
<1>5. ring = Pushed(RingInit, e)
  BY <1>2, SnapIsPushed DEF RewindInit
<1>. HIDE DEF e
<1>6. WorldShape
  <2>1. \A S : <<>> \in Seq(S)
    OBVIOUS
  <2>2. Len(<<>>) = 0 /\ 0 \in 0 .. MaxRestores /\ 0 <= MaxTick
    BY DEF Bounded
  <2>. QED BY <1>1, <2>1, <2>2 DEF WorldShape, RewindInit
<1>7. ring \in Rings /\ ring.count = 1
  BY <1>2, <1>4, <1>5, PushedShape DEF Pushed, Bounded
<1>8. RingShape
  <2>1. ring.slot = [RingInit.slot EXCEPT ![RingInit.head] = e] /\ DOMAIN RingInit.slot = Slots
    BY <1>2, <1>5 DEF Pushed, Rings
  <2>2. ASSUME NEW s \in Slots
        PROVE  Whole(ring.slot[s])
    <3>1. ring.slot[s] = e \/ ring.slot[s] = RingInit.slot[s]
      BY <2>1
    <3>. QED BY <1>2, <1>4, <3>1
  <2>. QED BY <1>7, <2>2 DEF RingShape
<1>9. Recent(ring, 0) = e
  BY <1>2, <1>4, <1>5, PushedAges
<1>10. ByAge
  <2>1. \A i \in 0 .. ring.count - 1 : i = 0
    BY <1>7
  <2>. QED BY <1>1, <1>4, <1>7, <1>9, <2>1 DEF ByAge, Bounded, e
<1>11. RingFind(ring, 0) = Image
  BY <1>2, <1>4, <1>5, NewIsFound DEF e
<1>12. FoundSnapshotIsCurrent
  <2>1. SubSeq(arenas, 1, 0) = <<>> /\ \A t \in 0 .. now : t = 0
    BY <1>1
  <2>2. RingFind(ring, 0) = [memory |-> SubSeq(arenas, 1, 0), tick |-> 0, prev |-> 0]
    BY <1>3, <1>11, <2>1
  <2>. QED BY <2>1, <2>2 DEF FoundSnapshotIsCurrent
<1>. QED BY <1>6, <1>8, <1>10, <1>12 DEF RewindInv

LEMMA TickAndSnapKeeps ==
    ASSUME Bounded, RewindInv, NEW given \in [Seats -> SeatFrames], TickAndSnap(given)
    PROVE  RewindInv'
<1>. DEFINE e == [tick |-> now', image |-> Image']
<1>1. World!EngineTickOnce(given) /\ inputs' = Append(inputs, given) /\ now < MaxTick
      /\ restores' = restores /\ refused' = refused /\ astray' = astray
  BY DEF TickAndSnap
<1>2. /\ arenas' \in Seq(Moment) /\ Len(arenas') = Len(arenas) + 1
      /\ \A i \in 1 .. Len(arenas) : arenas'[i] = arenas[i]
      /\ now' = Len(arenas') /\ prev_pose' = Len(arenas')
      /\ readable' \in Seq([LiveSeats -> SeatFrames]) /\ writing' \in Seq([LiveSeats -> SeatFrames])
      /\ inputs' \in Seq([Seats -> SeatFrames]) /\ Len(inputs') = Len(arenas')
  BY <1>1, TickShape DEF RewindInv
<1>3. now' = now + 1 /\ now \in Nat /\ now' <= MaxTick /\ MaxTick \in Nat
  BY <1>1, <1>2 DEF RewindInv, WorldShape, Bounded
<1>4. WorldShape'
  BY <1>1, <1>2, <1>3 DEF RewindInv, WorldShape
<1>5. Image' = [memory |-> arenas', tick |-> now', prev |-> now'] /\ Image' \in Worlds
  BY <1>2, <1>3 DEF Image, Worlds
<1>6. e \in Entries /\ Whole(e) /\ e.image # Empty /\ e.tick = now'
  BY <1>2, <1>3, <1>5, WorldIsNotEmpty DEF Entries, Whole
<1>7. e = [tick |-> now', image |-> [memory |-> arenas', tick |-> now', prev |-> now']]
  BY <1>5
<1>8. ring' = Pushed(ring, e)
  BY SnapIsPushed DEF TickAndSnap, RewindInv, RingShape
<1>. HIDE DEF e
<1>9. RingShape'
  BY <1>6, <1>8, PushKeepsRing DEF RewindInv
<1>10. ByAge'
  BY <1>1, <1>3, <1>6, <1>8, PushKeepsAge DEF RewindInv
<1>11. FoundSnapshotIsCurrent'
  <2>1. WorldShape /\ RingShape /\ FoundSnapshotIsCurrent /\ astray' = astray /\ refused \subseteq refused'
    BY <1>1 DEF RewindInv
  <2>. QED BY <1>2, <1>3, <1>6, <1>7, <1>8, <2>1, PushKeepsFound
<1>. QED BY <1>4, <1>9, <1>10, <1>11 DEF RewindInv

LEMMA TickAndOverflowKeeps ==
    ASSUME Bounded, RewindInv, NEW given \in [Seats -> SeatFrames], TickAndOverflow(given)
    PROVE  RewindInv'
<1>. DEFINE e == [tick |-> 0, image |-> Empty]
<1>1. World!EngineTickOnce(given) /\ inputs' = Append(inputs, given) /\ now < MaxTick
      /\ restores' = restores /\ refused' = refused \cup {now'} /\ astray' = astray
  BY DEF TickAndOverflow
<1>2. /\ arenas' \in Seq(Moment) /\ Len(arenas') = Len(arenas) + 1
      /\ \A i \in 1 .. Len(arenas) : arenas'[i] = arenas[i]
      /\ now' = Len(arenas') /\ prev_pose' = Len(arenas')
      /\ readable' \in Seq([LiveSeats -> SeatFrames]) /\ writing' \in Seq([LiveSeats -> SeatFrames])
      /\ inputs' \in Seq([Seats -> SeatFrames]) /\ Len(inputs') = Len(arenas')
  BY <1>1, TickShape DEF RewindInv
<1>3. now' = now + 1 /\ now \in Nat /\ now' <= MaxTick /\ MaxTick \in Nat
  BY <1>1, <1>2 DEF RewindInv, WorldShape, Bounded
<1>4. WorldShape'
  <2>1. refused' \subseteq 1 .. now'
    <3>1. refused \subseteq 1 .. now
      BY DEF RewindInv, WorldShape
    <3>2. now' \in 1 .. now' /\ 1 .. now \subseteq 1 .. now'
      BY <1>3
    <3>. QED BY <1>1, <3>1, <3>2
  <2>. QED BY <1>1, <1>2, <1>3, <2>1 DEF RewindInv, WorldShape
<1>5. e \in Entries /\ Whole(e) /\ e.image = Empty
  BY <1>3 DEF Entries, Whole
<1>6. ring' = Pushed(ring, e)
  BY OverflowIsPushed DEF TickAndOverflow, RewindInv, RingShape
<1>7. now' \in refused' /\ refused \subseteq refused'
  BY <1>1
<1>. HIDE DEF e
<1>8. RingShape'
  BY <1>5, <1>6, PushKeepsRing DEF RewindInv
<1>9. ByAge'
  BY <1>1, <1>3, <1>5, <1>6, <1>7, PushKeepsAge DEF RewindInv
<1>10. FoundSnapshotIsCurrent'
  BY <1>1, <1>2, <1>3, <1>5, <1>6, <1>7, PushKeepsFound DEF RewindInv
<1>. QED BY <1>4, <1>8, <1>9, <1>10 DEF RewindInv

\* What a restore puts in place of the world.
LEMMA RestoreShape ==
    ASSUME Bounded, RewindInv, NEW t \in 0 .. MaxTick, Restore(t)
    PROVE  /\ t \in 0 .. now /\ t < now
           /\ arenas' \in Seq(Moment) /\ Len(arenas') = t /\ now' = t /\ prev_pose' = t
           /\ ~astray' => ~astray /\ arenas' = SubSeq(arenas, 1, t)
           /\ inputs' \in Seq([Seats -> SeatFrames]) /\ Len(inputs') = t
           /\ \A i \in 1 .. t : inputs'[i] = inputs[i]
<1>. DEFINE image == RingFind(ring, t)
<1>1. /\ restores < MaxRestores /\ t < now /\ Found(ring, t)
      /\ arenas' = image.memory /\ now' = image.tick /\ prev_pose' = image.prev
      /\ astray' = (astray \/ t \in refused) /\ inputs' = SubSeq(inputs, 1, t)
  BY DEF Restore
<1>2. now = Len(arenas) /\ now \in Nat /\ MaxTick \in Nat /\ ring \in Rings /\ t \in 0 .. now
  BY <1>1 DEF RewindInv, WorldShape, RingShape, Bounded
<1>3. PICK s \in Slots : ring.slot[s].tick = t /\ ring.slot[s].image # Empty /\ image = ring.slot[s].image
  BY <1>1, <1>2, FoundInASlot
<1>4. image \in Worlds
  BY <1>2, <1>3 DEF Rings, Entries
<1>5. image.tick = t /\ image.prev = t /\ Len(image.memory) = t
  BY <1>3 DEF RewindInv, RingShape, Whole
<1>6. ASSUME ~astray'
      PROVE  ~astray /\ arenas' = SubSeq(arenas, 1, t)
  <2>1. ~astray /\ t \notin refused
    BY <1>1, <1>6
  <2>2. image = [memory |-> SubSeq(arenas, 1, t), tick |-> t, prev |-> t]
    BY <1>1, <1>2, <2>1 DEF RewindInv, FoundSnapshotIsCurrent
  <2>. QED BY <1>1, <2>1, <2>2
<1>7. inputs' \in Seq([Seats -> SeatFrames]) /\ Len(inputs') = t /\ \A i \in 1 .. t : inputs'[i] = inputs[i]
  BY <1>1, <1>2, PrefixOfPrefix DEF RewindInv, WorldShape
<1>. HIDE DEF image
<1>. QED BY <1>1, <1>2, <1>4, <1>5, <1>6, <1>7 DEF Worlds

LEMMA RestoreKeeps ==
    ASSUME Bounded, RewindInv, NEW t \in 0 .. MaxTick, Restore(t)
    PROVE  RewindInv'
<1>1. /\ restores < MaxRestores /\ restores' = restores + 1 /\ ring' = ring /\ readable' = <<>> /\ writing' = <<>>
      /\ refused' = refused \cap 0 .. t /\ astray' = (astray \/ t \in refused)
  BY DEF Restore
<1>2. /\ t \in 0 .. now /\ t < now
      /\ arenas' \in Seq(Moment) /\ Len(arenas') = t /\ now' = t /\ prev_pose' = t
      /\ ~astray' => ~astray /\ arenas' = SubSeq(arenas, 1, t)
      /\ inputs' \in Seq([Seats -> SeatFrames]) /\ Len(inputs') = t
  BY RestoreShape
<1>3. restores \in Nat /\ MaxRestores \in Nat /\ restores' \in 0 .. MaxRestores /\ restores' # 0
  BY <1>1 DEF RewindInv, WorldShape, Bounded
<1>4. WorldShape'
  <2>1. refused' \subseteq 1 .. t
    BY <1>1, <1>2 DEF RewindInv, WorldShape
  <2>. QED BY <1>1, <1>2, <1>3, <2>1 DEF RewindInv, WorldShape
<1>5. RingShape'
  BY <1>1 DEF RewindInv, RingShape, Whole
<1>6. ByAge'
  BY <1>3 DEF ByAge
<1>7. FoundSnapshotIsCurrent'
  <2>1. SUFFICES ASSUME ~astray', NEW n \in 0 .. now' \ refused', Found(ring, n)
                 PROVE  RingFind(ring, n) = [memory |-> SubSeq(arenas', 1, n), tick |-> n, prev |-> n]
    BY <1>1 DEF FoundSnapshotIsCurrent
  <2>2. n \in 0 .. t /\ n \in 0 .. now \ refused /\ t \in 0 .. Len(arenas)
    BY <1>1, <1>2, <2>1 DEF RewindInv, WorldShape
  <2>3. RingFind(ring, n) = [memory |-> SubSeq(arenas, 1, n), tick |-> n, prev |-> n]
    BY <1>2, <2>1, <2>2 DEF RewindInv, FoundSnapshotIsCurrent
  <2>4. SubSeq(arenas', 1, n) = SubSeq(arenas, 1, n)
    BY <1>2, <2>1, <2>2, PrefixOfPrefix DEF RewindInv, WorldShape
  <2>. QED BY <2>3, <2>4
<1>. QED BY <1>4, <1>5, <1>6, <1>7 DEF RewindInv

LEMMA RewindInvStutters ==
    ASSUME RewindInv, UNCHANGED rewind_vars
    PROVE  RewindInv'
<1>1. /\ arenas' = arenas /\ now' = now /\ prev_pose' = prev_pose /\ readable' = readable /\ writing' = writing
      /\ ring' = ring /\ restores' = restores
      /\ inputs' = inputs /\ refused' = refused /\ astray' = astray
  BY DEF rewind_vars, world_vars, history
<1>2. WorldShape' /\ RingShape'
  BY <1>1 DEF RewindInv, WorldShape, RingShape, Whole
<1>3. ByAge'
  BY <1>1 DEF RewindInv, ByAge, Recent, Newest
<1>4. FoundSnapshotIsCurrent'
  BY <1>1 DEF RewindInv, FoundSnapshotIsCurrent
<1>. QED BY <1>2, <1>3, <1>4 DEF RewindInv

\* What the invariant says of the ring.
LEMMA RewindInvImpliesRingInv ==
    ASSUME Bounded, RewindInv
    PROVE  RingInv
<1>1. now \in Nat /\ MaxTick \in Nat /\ Horizon \in Nat \ {0} /\ ring \in Rings
  BY DEF RewindInv, WorldShape, RingShape, Bounded
<1>2. RewindOK
  <2>1. \A s \in Slots : ring.slot[s].tick \in 0 .. MaxTick
    BY <1>1 DEF RewindInv, RingShape, Whole, Rings, Entries
  <2>. QED BY <1>1, <2>1 DEF RewindInv, WorldShape, Rings, RewindOK
<1>3. HorizonIsHeldAtFirst
  <2>1. SUFFICES ASSUME restores = 0, NEW t \in 0 .. now \ refused, now - t < Horizon
                 PROVE  Found(ring, t)
    BY DEF HorizonIsHeldAtFirst
  <2>2. /\ ring.count = IF now < Horizon THEN now + 1 ELSE Horizon
        /\ \A i \in 0 .. ring.count - 1 : now - i \notin refused =>
              Recent(ring, i).tick = now - i /\ Recent(ring, i).image # Empty
    BY <2>1 DEF RewindInv, ByAge
  <2>3. now - t \in 0 .. ring.count - 1 /\ now - (now - t) = t
    BY <1>1, <2>1, <2>2
  <2>4. Holds(ring, Newest(ring, now - t), t)
    BY <2>1, <2>2, <2>3, HoldsRecent
  <2>. QED BY <2>3, <2>4 DEF Found
<1>. QED BY <1>2, <1>3 DEF RingInv, RewindInv

LEMMA RewindInvNext ==
    ASSUME Bounded, RewindInv, [RewindNext]_rewind_vars
    PROVE  RewindInv'
BY TickAndSnapKeeps, TickAndOverflowKeeps, RestoreKeeps, RewindInvStutters DEF RewindNext

-----------------------------------------------------------------------------
\* The world is what the inputs in force make of an empty one, tick by tick.
FedByInputs ==
    ~astray => \A i \in 1 .. Len(arenas) : arenas[i] = [in |-> World!Live(inputs[i]), ev |-> <<>>]

LEMMA FedTick ==
    ASSUME Bounded, RewindInv, ReadsBack = FALSE, FedByInputs,
           NEW given \in [Seats -> SeatFrames], TickAndSnap(given) \/ TickAndOverflow(given)
    PROVE  FedByInputs'
<1>1. World!EngineTickOnce(given) /\ inputs' = Append(inputs, given) /\ astray' = astray
  BY DEF TickAndSnap, TickAndOverflow
<1>2. /\ Len(arenas') = Len(arenas) + 1
      /\ \A i \in 1 .. Len(arenas) : arenas'[i] = arenas[i]
      /\ arenas'[Len(arenas) + 1] = [in |-> World!Live(given), ev |-> <<>>]
      /\ \A i \in 1 .. Len(inputs) : inputs'[i] = inputs[i]
      /\ inputs'[Len(inputs) + 1] = given
  BY <1>1, TickShape DEF RewindInv
<1>3. Len(inputs) = Len(arenas) /\ Len(arenas) \in Nat
  BY DEF RewindInv, WorldShape
<1>4. SUFFICES ASSUME ~astray, NEW i \in 1 .. Len(arenas')
               PROVE  arenas'[i] = [in |-> World!Live(inputs'[i]), ev |-> <<>>]
  BY <1>1 DEF FedByInputs, World!Live
<1>5. CASE i = Len(arenas) + 1
  BY <1>2, <1>3, <1>5
<1>6. CASE i # Len(arenas) + 1
  <2>1. i \in 1 .. Len(arenas)
    BY <1>2, <1>3, <1>4, <1>6
  <2>2. arenas'[i] = arenas[i] /\ inputs'[i] = inputs[i]
    BY <1>2, <1>3, <2>1
  <2>. QED BY <1>4, <2>1, <2>2 DEF FedByInputs
<1>. QED BY <1>5, <1>6

LEMMA FedRestore ==
    ASSUME Bounded, RewindInv, FedByInputs, NEW t \in 0 .. MaxTick, Restore(t)
    PROVE  FedByInputs'
<1>1. /\ t \in 0 .. now /\ Len(arenas') = t
      /\ ~astray' => ~astray /\ arenas' = SubSeq(arenas, 1, t)
      /\ \A i \in 1 .. t : inputs'[i] = inputs[i]
  BY RestoreShape
<1>2. SUFFICES ASSUME ~astray', NEW i \in 1 .. t
               PROVE  arenas'[i] = [in |-> World!Live(inputs'[i]), ev |-> <<>>]
  BY <1>1 DEF FedByInputs, World!Live
<1>3. i \in 1 .. Len(arenas) /\ t \in 0 .. Len(arenas)
  BY <1>1 DEF RewindInv, WorldShape
<1>4. arenas'[i] = arenas[i]
  BY <1>1, <1>2, <1>3, PrefixOfPrefix DEF RewindInv, WorldShape
<1>. QED BY <1>1, <1>2, <1>3, <1>4 DEF FedByInputs

LEMMA FedImpliesRetick ==
    ASSUME RewindInv, ReadsBack = FALSE, FedByInputs
    PROVE  ReticksToTheSameWorld
<1>1. now = Len(arenas) /\ prev_pose = now /\ arenas \in Seq(Moment)
  BY DEF RewindInv, WorldShape
<1>2. Straight(now) = [i \in 1 .. now |-> [in |-> World!Live(inputs[i]), ev |-> <<>>]]
  BY DEF Straight
<1>3. arenas = [i \in 1 .. Len(arenas) |-> arenas[i]]
  BY <1>1
<1>4. ASSUME ~astray
      PROVE  arenas = Straight(now)
  BY <1>1, <1>2, <1>3, <1>4 DEF FedByInputs
<1>. QED BY <1>1, <1>4 DEF ReticksToTheSameWorld

-----------------------------------------------------------------------------
\* The theorems.

\* Whatever the ticks, the refused snapshots and the rollbacks (loop.cpp, snapshot.cpp,
\* arena_registry.cpp): the invariant that the next two rest on.
THEOREM RewindInvariant ==
    ASSUME Bounded
    PROVE  RewindSpec => []RewindInv
<1>1. RewindInit => RewindInv
  BY RewindInvInit
<1>2. RewindInv /\ [RewindNext]_rewind_vars => RewindInv'
  BY RewindInvNext
<1>. QED BY <1>1, <1>2, PTL DEF RewindSpec

\* ring_find gives the world that the present timeline had at that tick, never the
\* one of an abandoned timeline, and before any rollback it gives every tick within
\* the horizon.
THEOREM RingIsOfThePresent ==
    ASSUME Bounded
    PROVE  RewindSpec => []RingInv
<1>1. RewindInv => RingInv
  BY RewindInvImpliesRingInv
<1>. QED BY <1>1, RewindInvariant, PTL
\* "Restore-then-retick reproduces the hash trace", of a world whose systems read no
\* events of the tick before: however often it is rolled back and ticked again, it is
\* the world that the inputs now in force make of an empty one, unless a rollback went
\* to a tick whose snapshot had been refused.
THEOREM ReticksWithoutEvents ==
    ASSUME Bounded, ReadsBack = FALSE
    PROVE  RewindSpec => []ReticksToTheSameWorld
<1>1. RewindInit => FedByInputs
  BY DEF RewindInit, World!TickInit, FedByInputs
<1>2. RewindInv /\ FedByInputs /\ [RewindNext]_rewind_vars => FedByInputs'
  <2>1. SUFFICES ASSUME RewindInv, FedByInputs, [RewindNext]_rewind_vars
                 PROVE  FedByInputs'
    OBVIOUS
  <2>2. CASE UNCHANGED rewind_vars
    BY <2>1, <2>2 DEF FedByInputs, rewind_vars, world_vars, history
  <2>. QED BY <2>1, <2>2, FedTick, FedRestore DEF RewindNext
<1>3. RewindInv /\ FedByInputs => ReticksToTheSameWorld
  BY FedImpliesRetick
<1>. QED BY <1>1, <1>2, <1>3, RewindInvariant, PTL DEF RewindSpec
-----------------------------------------------------------------------------
(* The frame loop.                                                         *)

USE PeersAssumption, TimeAssumption

-----------------------------------------------------------------------------
(* Recordings, and the world they stand for.                               *)

MemSet == [in : [LiveMask -> Frames], ev : Seq([LiveMask -> Frames])]
RowSet == [frames : [Peers -> Frames], hash : Seq(MemSet) \X Nat \X Nat]

\* What the systems of tick i were given, of a run whose rows are rs.
GivenAt(rs, i) ==
    [in |-> Live(rs[i].frames),
     ev |-> IF ReadsEvents /\ i > 1 THEN <<Live(rs[i - 1].frames)>> ELSE <<>>]
MemOf(rs, n) == [i \in 1 .. n |-> GivenAt(rs, i)]

\* A slot that is not live is recorded as zeros.
AbsentAreZero(rec) == \A p \in Peers \ LiveMask : rec.frames[p] = ZeroFrame
Recorded(rs) ==
    /\ rs \in Seq(RowSet)
    /\ \A n \in 1 .. Len(rs) : AbsentAreZero(rs[n]) /\ rs[n].hash = <<MemOf(rs, n), n - 1, n - 1>>

\* The event halves after tick n.
ReadAfter(rs, n) == IF n = 0 THEN <<>> ELSE <<Live(rs[n].frames)>>

LEMMA ZeroFrameType == ZeroFrame \in Frames
BY DEF ZeroFrame

LEMMA LiveType == ASSUME NEW f \in [Peers -> Frames] PROVE Live(f) \in [LiveMask -> Frames]
BY DEF Live

LEMMA RowFields ==
    ASSUME NEW rs \in Seq(RowSet), NEW i \in 1 .. Len(rs)
    PROVE  rs[i].frames \in [Peers -> Frames] /\ Live(rs[i].frames) \in [LiveMask -> Frames]
<1>1. rs[i] \in RowSet
  BY ElementOfSeq
<1>2. rs[i].frames \in [Peers -> Frames]
  BY <1>1 DEF RowSet
<1>. QED BY <1>2, LiveType

LEMMA ReadAfterType ==
    ASSUME NEW rs \in Seq(RowSet), NEW n \in 0 .. Len(rs)
    PROVE  ReadAfter(rs, n) \in Seq([LiveMask -> Frames])
<1>1. CASE n = 0
  BY <1>1 DEF ReadAfter
<1>2. CASE n # 0
  <2>1. n \in 1 .. Len(rs)
    BY <1>2, LenProperties
  <2>2. Live(rs[n].frames) \in [LiveMask -> Frames]
    BY <2>1, RowFields
  <2>. QED BY <1>2, <2>2 DEF ReadAfter
<1>. QED BY <1>1, <1>2

LEMMA GivenType ==
    ASSUME NEW rs \in Seq(RowSet), NEW i \in 1 .. Len(rs)
    PROVE  GivenAt(rs, i) \in MemSet
<1>1. Len(rs) \in Nat
  BY LenProperties
<1>2. Live(rs[i].frames) \in [LiveMask -> Frames]
  BY RowFields
<1>3. i > 1 => Live(rs[i - 1].frames) \in [LiveMask -> Frames]
  <2>. SUFFICES ASSUME i > 1 PROVE Live(rs[i - 1].frames) \in [LiveMask -> Frames]
    OBVIOUS
  <2>1. i - 1 \in 1 .. Len(rs)
    BY <1>1
  <2>. QED BY <2>1, RowFields
<1>4. (IF ReadsEvents /\ i > 1 THEN <<Live(rs[i - 1].frames)>> ELSE <<>>)
          \in Seq([LiveMask -> Frames])
  <2>1. CASE ReadsEvents /\ i > 1
    BY <1>3, <2>1
  <2>2. CASE ~(ReadsEvents /\ i > 1)
    BY <2>2, EmptySeq
  <2>. QED BY <2>1, <2>2
<1>. QED BY <1>2, <1>4 DEF GivenAt, MemSet

LEMMA MemOfType ==
    ASSUME NEW rs \in Seq(RowSet), NEW n \in 0 .. Len(rs)
    PROVE  /\ MemOf(rs, n) \in Seq(MemSet)
           /\ Len(MemOf(rs, n)) = n
           /\ \A i \in 1 .. n : MemOf(rs, n)[i] = GivenAt(rs, i)
<1>1. Len(rs) \in Nat /\ n \in Nat
  BY LenProperties
<1>2. \A i \in 1 .. n : GivenAt(rs, i) \in MemSet
  <2>. TAKE i \in 1 .. n
  <2>1. i \in 1 .. Len(rs)
    BY <1>1
  <2>. QED BY <2>1, GivenType
<1>3. MemOf(rs, n) \in [1 .. n -> MemSet]
  BY <1>2 DEF MemOf
<1>4. MemOf(rs, n) \in Seq(MemSet)
  BY <1>1, <1>3, SeqDef
<1>5. DOMAIN MemOf(rs, n) = 1 .. Len(MemOf(rs, n)) /\ Len(MemOf(rs, n)) \in Nat
  BY <1>4, LenProperties
<1>6. Len(MemOf(rs, n)) = n
  BY <1>1, <1>3, <1>5
<1>. QED BY <1>4, <1>6 DEF MemOf

\* A world is as old as the rows it hangs on.
LEMMA SameFramesSameWorld ==
    ASSUME NEW rs, NEW qs, NEW n \in Nat,
           \A i \in 1 .. n : rs[i].frames = qs[i].frames
    PROVE  MemOf(rs, n) = MemOf(qs, n)
<1>1. \A i \in 1 .. n : GivenAt(rs, i) = GivenAt(qs, i)
  <2>. TAKE i \in 1 .. n
  <2>1. rs[i].frames = qs[i].frames
    OBVIOUS
  <2>2. i > 1 => rs[i - 1].frames = qs[i - 1].frames
    OBVIOUS
  <2>. QED BY <2>1, <2>2 DEF GivenAt
<1>. QED BY <1>1 DEF MemOf

-----------------------------------------------------------------------------
(* One tick, as a value: from a recorded run to a recorded run.            *)

RowOf(f, m, n) ==
    [frames |-> [p \in Peers |-> IF p \in LiveMask THEN f[p] ELSE ZeroFrame],
     hash |-> <<m, n, n>>]

LEMMA RowOfFacts ==
    ASSUME NEW f \in [Peers -> Frames], NEW m \in Seq(MemSet), NEW n \in Nat
    PROVE  /\ RowOf(f, m, n) \in RowSet
           /\ AbsentAreZero(RowOf(f, m, n))
           /\ Live(RowOf(f, m, n).frames) = Live(f)
           /\ RowOf(f, m, n).hash = <<m, n, n>>
<1>1. RowOf(f, m, n).frames \in [Peers -> Frames]
  BY ZeroFrameType DEF RowOf
<1>2. Live(RowOf(f, m, n).frames) = Live(f)
  BY DEF Live, RowOf
<1>. QED BY <1>1, <1>2 DEF RowOf, RowSet, AbsentAreZero

\* The memory that RunPhases appends to is the one the longer run stands for.
LEMMA MemoryGrows ==
    ASSUME NEW rs \in Seq(RowSet), NEW rec \in RowSet
    PROVE  /\ MemOf(Append(rs, rec), Len(rs)) = MemOf(rs, Len(rs))
           /\ Append(MemOf(rs, Len(rs)),
                     [in |-> Live(rec.frames),
                      ev |-> IF ReadsEvents THEN ReadAfter(rs, Len(rs)) ELSE <<>>])
                 = MemOf(Append(rs, rec), Len(rs) + 1)
<1>. DEFINE n == Len(rs)
            rs2 == Append(rs, rec)
            new == [in |-> Live(rec.frames),
                    ev |-> IF ReadsEvents THEN ReadAfter(rs, n) ELSE <<>>]
<1>1. n \in Nat
  BY LenProperties
<1>2. rs2 \in Seq(RowSet) /\ Len(rs2) = n + 1 /\ rs2[n + 1] = rec
      /\ \A i \in 1 .. n : rs2[i] = rs[i]
  BY AppendProperties
<1>. HIDE DEF n, rs2
<1>3. MemOf(rs2, n) = MemOf(rs, n)
  BY <1>1, <1>2, SameFramesSameWorld
<1>4. MemOf(rs, n) \in Seq(MemSet) /\ Len(MemOf(rs, n)) = n
      /\ \A i \in 1 .. n : MemOf(rs, n)[i] = GivenAt(rs, i)
  BY <1>1, MemOfType DEF n
<1>5. MemOf(rs2, n + 1) \in Seq(MemSet) /\ Len(MemOf(rs2, n + 1)) = n + 1
      /\ \A i \in 1 .. n + 1 : MemOf(rs2, n + 1)[i] = GivenAt(rs2, i)
  <2>1. n + 1 \in 0 .. Len(rs2)
    BY <1>1, <1>2
  <2>. QED BY <1>2, <2>1, MemOfType
<1>6. new = GivenAt(rs2, n + 1)
  <2>1. CASE n = 0
    BY <1>2, <2>1 DEF GivenAt, ReadAfter
  <2>2. CASE n # 0
    <3>1. n \in 1 .. n /\ n + 1 > 1 /\ n + 1 - 1 = n
      BY <1>1, <2>2
    <3>2. rs2[n] = rs[n]
      BY <1>2, <3>1
    <3>. QED BY <1>2, <2>2, <3>1, <3>2 DEF GivenAt, ReadAfter
  <2>. QED BY <2>1, <2>2
<1>7. new \in MemSet
  <2>1. n + 1 \in 1 .. Len(rs2)
    BY <1>1, <1>2
  <2>. QED BY <1>2, <1>6, <2>1, GivenType
<1>. HIDE DEF new
<1>8. Append(MemOf(rs, n), new) \in Seq(MemSet)
      /\ Len(Append(MemOf(rs, n), new)) = n + 1
      /\ (\A i \in 1 .. n : Append(MemOf(rs, n), new)[i] = MemOf(rs, n)[i])
      /\ Append(MemOf(rs, n), new)[n + 1] = new
  BY <1>4, <1>7, AppendProperties
<1>9. \A i \in 1 .. n : GivenAt(rs2, i) = GivenAt(rs, i)
  <2>. TAKE i \in 1 .. n
  <2>1. rs2[i] = rs[i] /\ (i > 1 => rs2[i - 1] = rs[i - 1])
    BY <1>1, <1>2
  <2>. QED BY <2>1 DEF GivenAt
<1>10. \A i \in 1 .. n + 1 : Append(MemOf(rs, n), new)[i] = MemOf(rs2, n + 1)[i]
  <2>. TAKE i \in 1 .. n + 1
  <2>1. CASE i = n + 1
    BY <1>5, <1>6, <1>8, <2>1
  <2>2. CASE i # n + 1
    BY <1>1, <1>4, <1>5, <1>8, <1>9, <2>2
  <2>. QED BY <2>1, <2>2
<1>11. Append(MemOf(rs, n), new) = MemOf(rs2, n + 1)
  BY <1>5, <1>8, <1>10, SeqEqual
<1>. QED BY <1>3, <1>11 DEF n, rs2, new

\* A tick's row makes a longer recording of a recording.
LEMMA RecordingGrows ==
    ASSUME NEW rs, Recorded(rs), NEW rec \in RowSet, AbsentAreZero(rec),
           rec.hash = <<MemOf(Append(rs, rec), Len(rs) + 1), Len(rs), Len(rs)>>
    PROVE  Recorded(Append(rs, rec))
<1>. DEFINE n == Len(rs)
            rs2 == Append(rs, rec)
<1>1. rs \in Seq(RowSet) /\ n \in Nat
  BY LenProperties DEF Recorded
<1>2. rs2 \in Seq(RowSet) /\ Len(rs2) = n + 1 /\ rs2[n + 1] = rec
      /\ \A i \in 1 .. n : rs2[i] = rs[i]
  BY <1>1, AppendProperties
<1>3. rec.hash = <<MemOf(rs2, n + 1), n, n>>
  OBVIOUS
<1>4. \A i \in 1 .. n : AbsentAreZero(rs[i]) /\ rs[i].hash = <<MemOf(rs, i), i - 1, i - 1>>
  BY DEF Recorded
<1>. HIDE DEF n, rs2
<1>5. ASSUME NEW i \in 1 .. n + 1
      PROVE  AbsentAreZero(rs2[i]) /\ rs2[i].hash = <<MemOf(rs2, i), i - 1, i - 1>>
  <2>1. CASE i = n + 1
    <3>1. i - 1 = n
      BY <1>1, <2>1
    <3>. QED BY <1>2, <1>3, <2>1, <3>1
  <2>2. CASE i \in 1 .. n
    <3>1. MemOf(rs2, i) = MemOf(rs, i)
      <4>1. i \in Nat /\ \A k \in 1 .. i : rs2[k].frames = rs[k].frames
        BY <1>1, <1>2, <2>2
      <4>. QED BY <4>1, SameFramesSameWorld
    <3>. QED BY <1>2, <1>4, <2>2, <3>1
  <2>. QED BY <1>1, <2>1, <2>2
<1>6. Recorded(rs2)
  BY <1>2, <1>5 DEF Recorded
<1>. QED BY <1>6 DEF rs2

-----------------------------------------------------------------------------
(* The world and the recorder.                                             *)

\* What engine_tick_once keeps: everything is a function of the rows.
TickInv ==
    /\ Recorded(rows)
    /\ tick = Len(rows) /\ prev = tick
    /\ memory = MemOf(rows, tick)
    /\ read = ReadAfter(rows, tick) /\ write = <<>>

\* The replay is where its cursor is, and was given what was recorded.
ReplayInv ==
    /\ Recorded(recording)
    /\ IF Replaying
       THEN /\ cursor = tick /\ tick <= Len(recording)
            /\ \A n \in 1 .. tick : rows[n].frames = recording[n].frames
       ELSE cursor = 0

WorldInv == TickInv /\ ReplayInv

LEMMA NothingRecorded == Recorded(<<>>) /\ MemOf(<<>>, 0) = <<>> /\ ReadAfter(<<>>, 0) = <<>>
<1>1. <<>> \in Seq(RowSet) /\ Len(<<>>) = 0
  BY EmptySeq
<1>2. MemOf(<<>>, 0) \in Seq(MemSet) /\ Len(MemOf(<<>>, 0)) = 0
  <2>1. 0 \in 0 .. Len(<<>>)
    BY <1>1
  <2>. QED BY <1>1, <2>1, MemOfType
<1>3. MemOf(<<>>, 0) = <<>>
  BY <1>2, EmptySeq, SeqEqual
<1>. QED BY <1>1, <1>3 DEF Recorded, ReadAfter

\* engine_tick_once appends one row, of the frames it was given.
LEMMA TickKeeps ==
    ASSUME TickInv, NEW f \in [Peers -> Frames], EngineTickOnce(f)
    PROVE  /\ TickInv' /\ tick \in Nat /\ tick' = tick + 1
           /\ \A i \in 1 .. tick : rows'[i] = rows[i]
           /\ rows'[tick + 1].frames = [p \in Peers |-> IF p \in LiveMask THEN f[p] ELSE ZeroFrame]
<1>. DEFINE rec == RowOf(f, memory', tick)
<1>1. rows \in Seq(RowSet) /\ tick \in Nat /\ tick = Len(rows)
  BY LenProperties DEF TickInv, Recorded
<1>2. read \in Seq([LiveMask -> Frames])
  BY <1>1, ReadAfterType DEF TickInv
<1>3. memory \in Seq(MemSet) /\ Len(memory) = tick
  BY <1>1, MemOfType DEF TickInv
<1>4. memory' = Append(memory, [in |-> Live(f), ev |-> IF ReadsEvents THEN read ELSE <<>>])
  BY DEF EngineTickOnce, RunPhases
<1>5. memory' \in Seq(MemSet) /\ Len(memory') = tick + 1
  <2>1. (IF ReadsEvents THEN read ELSE <<>>) \in Seq([LiveMask -> Frames])
    BY <1>2, EmptySeq
  <2>2. [in |-> Live(f), ev |-> IF ReadsEvents THEN read ELSE <<>>] \in MemSet
    BY <2>1, LiveType DEF MemSet
  <2>. QED BY <1>3, <1>4, <2>2, AppendProperties
<1>6. rec \in RowSet /\ AbsentAreZero(rec) /\ Live(rec.frames) = Live(f)
      /\ rec.hash = <<memory', tick, tick>>
  BY <1>1, <1>5, RowOfFacts
<1>7. rec.frames = [p \in Peers |-> IF p \in LiveMask THEN f[p] ELSE ZeroFrame]
  BY DEF RowOf
<1>8. rows' = Append(rows, rec)
  BY DEF EngineTickOnce, RecorderTick, RowOf, TickInv
<1>. HIDE DEF rec
<1>9. rows' \in Seq(RowSet) /\ Len(rows') = tick + 1 /\ rows'[tick + 1] = rec
      /\ \A i \in 1 .. tick : rows'[i] = rows[i]
  BY <1>1, <1>6, <1>8, AppendProperties
<1>10. memory' = MemOf(rows', tick + 1)
  BY <1>1, <1>4, <1>6, <1>8, MemoryGrows DEF TickInv
<1>11. Recorded(rows')
  BY <1>1, <1>6, <1>8, <1>10, RecordingGrows DEF TickInv
<1>12. tick' = tick + 1 /\ prev' = tick + 1 /\ write' = <<>>
  BY <1>5 DEF EngineTickOnce, Pose
<1>13. read' = ReadAfter(rows', tick + 1)
  <2>1. read' = Append(<<>>, Live(f))
    BY DEF EngineTickOnce, Emitted, TickInv
  <2>2. Append(<<>>, Live(f)) = <<Live(f)>>
    OBVIOUS
  <2>. QED BY <1>1, <1>6, <1>9, <2>1, <2>2 DEF ReadAfter
<1>. QED BY <1>1, <1>7, <1>9, <1>10, <1>11, <1>12, <1>13 DEF TickInv

LEMMA WorldInit == Init => WorldInv
<1>1. Len(<<>>) = 0
  BY EmptySeq
<1>. QED BY <1>1, NothingRecorded DEF Init, TickInit, WorldInv, TickInv, ReplayInv, Replaying

\* The frames a tick uses, whoever produced them, and what it leaves of the replay.
LEMMA WorldNext == WorldInv /\ frames \in [Peers -> Frames] /\ [Next]_vars => WorldInv'
<1>. SUFFICES ASSUME WorldInv, [Next]_vars PROVE WorldInv'
  OBVIOUS
<1>1. TickInv /\ ReplayInv /\ rows \in Seq(RowSet) /\ recording \in Seq(RowSet)
      /\ tick \in Nat /\ Len(recording) \in Nat
  BY LenProperties DEF WorldInv, TickInv, ReplayInv, Recorded
<1>2. CASE UNCHANGED <<tick_vars, replay_vars>>
  BY <1>1, <1>2 DEF WorldInv, TickInv, ReplayInv, Replaying, tick_vars, replay_vars
<1>3. CASE TickLive
  <2>1. PICK produced \in [Peers -> Frames] : Advance(produced)
    BY <1>3 DEF TickLive
  <2>2. EngineTickOnce(produced)
    BY <2>1 DEF Advance
  <2>3. TickInv'
    BY <1>1, <2>2, TickKeeps
  <2>4. ~Replaying /\ UNCHANGED replay_vars
    BY <1>3 DEF TickLive
  <2>5. ReplayInv'
    BY <1>1, <2>4 DEF ReplayInv, Replaying, replay_vars
  <2>. QED BY <2>3, <2>5 DEF WorldInv
<1>4. CASE TickReplay
  <2>1. Replaying /\ cursor < Len(recording) /\ cursor' = cursor + 1 /\ recording' = recording
    BY <1>4 DEF TickReplay
  <2>2. cursor = tick /\ tick + 1 \in 1 .. Len(recording)
    BY <1>1, <2>1 DEF ReplayInv
  <2>3. ReplayRow = recording[tick + 1].frames /\ ReplayRow \in [Peers -> Frames]
    BY <1>1, <2>2, RowFields DEF ReplayRow
  <2>4. EngineTickOnce(ReplayRow)
    BY <1>4 DEF TickReplay, Advance
  <2>5. TickInv' /\ tick' = tick + 1 /\ (\A i \in 1 .. tick : rows'[i] = rows[i])
        /\ rows'[tick + 1].frames = [p \in Peers |-> IF p \in LiveMask THEN ReplayRow[p] ELSE ZeroFrame]
    BY <1>1, <2>3, <2>4, TickKeeps
  <2>6. AbsentAreZero(recording[tick + 1])
    BY <1>1, <2>2 DEF ReplayInv, Recorded
  <2>7. rows'[tick + 1].frames = recording[tick + 1].frames
    BY <2>3, <2>5, <2>6 DEF AbsentAreZero
  <2>8. \A n \in 1 .. tick + 1 : rows'[n].frames = recording[n].frames
    BY <1>1, <2>1, <2>5, <2>7 DEF ReplayInv
  <2>9. ReplayInv'
    BY <1>1, <2>1, <2>2, <2>5, <2>8 DEF ReplayInv, Replaying
  <2>. QED BY <2>5, <2>9 DEF WorldInv
<1>5. CASE Replay
  <2>1. Len(<<>>) = 0
    BY EmptySeq
  <2>2. Recorded(recording') /\ recording' # <<>>
    BY <1>1, <1>5 DEF Replay, TickInv
  <2>3. Len(recording') \in Nat
    BY <2>2, LenProperties DEF Recorded
  <2>4. TickInv'
    BY <1>5, <2>1, NothingRecorded DEF Replay, TickInv
  <2>5. ReplayInv'
    BY <1>5, <2>2, <2>3 DEF Replay, ReplayInv, Replaying
  <2>. QED BY <2>4, <2>5 DEF WorldInv
<1>6. CASE \E dt \in FrameTimes : BeginFrame(dt)
  BY <1>2, <1>6 DEF BeginFrame
<1>7. CASE Wait \/ CaughtUp \/ Render
  BY <1>2, <1>7 DEF Wait, CaughtUp, Render
<1>8. CASE UNCHANGED vars
  BY <1>2, <1>8 DEF vars
<1>. QED BY <1>3, <1>4, <1>5, <1>6, <1>7, <1>8 DEF Next

-----------------------------------------------------------------------------
(* The clock.                                                              *)

\* How far the last presented moment is behind: exactly known between two
\* frames and until a frame's first tick, and in the past after it.
Behind ==
    IF pc = "frame" \/ steps = 0
    THEN presented <= 2 * FixedDt * tick + Alpha(accumulator)
    ELSE presented < 2 * FixedDt * tick

FrameInv ==
    /\ tick \in Nat
    /\ clock \in 0 .. MaxClock /\ accumulator \in Nat /\ steps \in 0 .. MaxSteps
    /\ frames \in [Peers -> Frames]
    /\ alpha \in 0 .. 2 * FixedDt - 1 /\ presented \in Nat
    /\ pc \in {"frame", "loop", "render"}
    /\ NeverAhead
    /\ Behind

LEMMA AlphaFacts ==
    /\ \A n \in Nat : Alpha(n) \in 0 .. 2 * FixedDt - 1
    /\ \A m, n \in Nat : m <= n => Alpha(m) <= Alpha(n)
BY DEF Alpha

LEMMA FrameInit == Init => FrameInv
<1>. SUFFICES ASSUME Init PROVE FrameInv
  OBVIOUS
<1>1. frames \in [Peers -> Frames]
  BY ZeroFrameType DEF Init
<1>. QED BY <1>1, AlphaFacts DEF Init, TickInit, FrameInv, NeverAhead, Behind

LEMMA AdvanceKeeps ==
    ASSUME FrameInv, pc = "loop", TickDue, NEW f \in [Peers -> Frames], Advance(f)
    PROVE  FrameInv'
<1>1. tick' = tick + 1 /\ accumulator' = accumulator - FixedDt /\ steps' = steps + 1
      /\ frames' = f /\ UNCHANGED <<clock, alpha, presented, pc>>
  BY DEF Advance, EngineTickOnce
<1>2. accumulator' \in Nat /\ steps' \in 0 .. MaxSteps
  BY <1>1 DEF FrameInv, TickDue
<1>3. (tick + 1) * FixedDt = tick * FixedDt + FixedDt
  BY DEF FrameInv
<1>4. NeverAhead'
  BY <1>1, <1>3 DEF FrameInv, NeverAhead
<1>5. 2 * FixedDt * (tick + 1) = 2 * FixedDt * tick + 2 * FixedDt
  BY DEF FrameInv
<1>6. presented < 2 * FixedDt * (tick + 1)
  <2>1. Alpha(accumulator) < 2 * FixedDt
    BY AlphaFacts DEF FrameInv
  <2>2. 2 * FixedDt * tick \in Nat
    BY DEF FrameInv
  <2>. QED BY <1>5, <2>1, <2>2, AlphaFacts DEF FrameInv, Behind
<1>7. Behind'
  BY <1>1, <1>6 DEF Behind, FrameInv
<1>. QED BY <1>1, <1>2, <1>4, <1>7 DEF FrameInv

LEMMA Owed ==
    \A p, a, b, c \in Nat : b <= a /\ p + a <= c => p + b <= c
OBVIOUS

LEMMA FrameNext == WorldInv /\ FrameInv /\ [Next]_vars => FrameInv'
<1>. SUFFICES ASSUME WorldInv, FrameInv, [Next]_vars PROVE FrameInv'
  OBVIOUS
<1>. DEFINE T == 2 * FixedDt * tick
<1>1. T \in Nat
  BY DEF FrameInv
<1>2. CASE TickLive
  BY <1>2, AdvanceKeeps DEF TickLive
<1>3. CASE TickReplay
  <2>1. recording \in Seq(RowSet) /\ cursor \in Nat /\ cursor < Len(recording)
    BY <1>3 DEF WorldInv, ReplayInv, Recorded, FrameInv, TickReplay
  <2>2. cursor + 1 \in 1 .. Len(recording)
    BY <2>1, LenProperties
  <2>3. ReplayRow \in [Peers -> Frames]
    BY <2>1, <2>2, RowFields DEF ReplayRow
  <2>. QED BY <1>3, <2>3, AdvanceKeeps DEF TickReplay
<1>4. ASSUME NEW dt \in FrameTimes, BeginFrame(dt) PROVE FrameInv'
  <2>1. accumulator' \in Nat /\ accumulator' >= accumulator /\ accumulator' <= accumulator + dt
        /\ dt \in Nat
    BY <1>4 DEF BeginFrame, FrameInv, Lesser
  <2>2. clock' = clock + dt /\ clock' \in 0 .. MaxClock
    BY <1>4, <2>1 DEF BeginFrame, FrameInv
  <2>3. pc = "frame" /\ steps' = 0 /\ pc' = "loop"
        /\ tick' = tick /\ UNCHANGED <<frames, alpha, presented>>
    BY <1>4 DEF BeginFrame, tick_vars
  <2>4. tick * FixedDt \in Nat
    BY DEF FrameInv
  <2>5. NeverAhead'
    <3>1. PICK paid \in Nat : paid = tick * FixedDt /\ paid = tick' * FixedDt
      BY <2>3, <2>4
    <3>2. paid \in Nat /\ clock \in Nat /\ accumulator \in Nat /\ paid + accumulator <= clock
      BY <3>1 DEF FrameInv, NeverAhead
    <3>3. clock + dt \in Nat /\ accumulator + dt \in Nat /\ paid + (accumulator + dt) <= clock + dt
      BY <2>1, <3>2
    <3>4. paid + accumulator' <= clock'
      BY <2>1, <2>2, <3>2, <3>3, Owed
    <3>. QED BY <3>1, <3>4 DEF NeverAhead
  <2>6. Alpha(accumulator) <= Alpha(accumulator')
        /\ Alpha(accumulator) \in Nat /\ Alpha(accumulator') \in Nat
    BY <2>1, AlphaFacts DEF FrameInv
  <2>7. presented <= T + Alpha(accumulator)
    BY <2>3 DEF FrameInv, Behind
  <2>8. presented <= T + Alpha(accumulator')
    BY <1>1, <2>6, <2>7 DEF FrameInv
  <2>9. Behind'
    BY <2>3, <2>8 DEF Behind
  <2>. QED BY <2>1, <2>2, <2>3, <2>5, <2>9 DEF FrameInv
<1>5. CASE Wait \/ CaughtUp
  <2>1. pc = "loop" /\ pc' = "render"
        /\ UNCHANGED <<tick, clock, accumulator, steps, frames, alpha, presented>>
    BY <1>5 DEF Wait, CaughtUp, tick_vars
  <2>. QED BY <2>1 DEF FrameInv, Behind, NeverAhead
<1>6. CASE Render
  <2>1. accumulator' \in Nat /\ accumulator' <= accumulator
    BY <1>6 DEF Render, FrameInv
  <2>2. alpha' = Alpha(accumulator') /\ alpha' \in 0 .. 2 * FixedDt - 1
    BY <1>6, <2>1, AlphaFacts DEF Render
  <2>3. tick' = tick /\ pc' = "frame" /\ presented' = T + alpha'
        /\ UNCHANGED <<clock, steps, frames>>
    BY <1>6 DEF Render, tick_vars
  <2>4. tick * FixedDt \in Nat
    BY DEF FrameInv
  <2>5. NeverAhead'
    <3>1. PICK paid \in Nat : paid = tick * FixedDt /\ paid = tick' * FixedDt
      BY <2>3, <2>4
    <3>2. paid \in Nat /\ clock \in Nat /\ accumulator \in Nat /\ paid + accumulator <= clock
      BY <3>1 DEF FrameInv, NeverAhead
    <3>3. paid + accumulator' <= clock'
      BY <2>1, <2>3, <3>2, Owed
    <3>. QED BY <3>1, <3>3 DEF NeverAhead
  <2>6. presented' \in Nat /\ Behind'
    BY <1>1, <2>2, <2>3 DEF Behind
  <2>. QED BY <2>1, <2>2, <2>3, <2>5, <2>6 DEF FrameInv
<1>7. CASE Replay
  <2>1. frames' \in [Peers -> Frames]
    BY <1>7, ZeroFrameType DEF Replay
  <2>2. tick' = 0 /\ clock' = 0 /\ accumulator' = 0 /\ steps' = 0 /\ alpha' = 0
        /\ presented' = 0 /\ pc' = "frame"
    BY <1>7 DEF Replay
  <2>3. 0 * FixedDt = 0 /\ 2 * FixedDt * 0 = 0
    OBVIOUS
  <2>4. NeverAhead'
    BY <2>2, <2>3 DEF NeverAhead
  <2>5. Behind'
    BY <2>2, <2>3 DEF Behind, Alpha
  <2>. QED BY <2>1, <2>2, <2>4, <2>5 DEF FrameInv
<1>8. CASE UNCHANGED vars
  BY <1>8 DEF vars, tick_vars, frame_vars, FrameInv, Behind, NeverAhead
<1>. QED BY <1>2, <1>3, <1>4, <1>5, <1>6, <1>7, <1>8 DEF Next

-----------------------------------------------------------------------------
(* The theorems.                                                           *)

\* The inductive invariant: the frame loop behind its clock, and a world and
\* a recording that are functions of the frames (core/loop.cpp).
THEOREM FrameInvariant == Spec => [](WorldInv /\ FrameInv)
<1>1. Init => WorldInv /\ FrameInv
  BY WorldInit, FrameInit
<1>2. WorldInv /\ FrameInv /\ [Next]_vars => (WorldInv /\ FrameInv)'
  BY WorldNext, FrameNext DEF FrameInv
<1>. QED BY <1>1, <1>2, PTL DEF Spec

\* For any frame times, caps, peers and frames, the simulation never runs
\* ahead of real time (core/loop.cpp engine_frame, core/time.cpp).
THEOREM NeverAheadOfTime == Spec => []ClockInv
<1>1. WorldInv /\ FrameInv => ClockInv
  <2>. SUFFICES ASSUME WorldInv, FrameInv PROVE ClockInv
    OBVIOUS
  <2>1. rows \in Seq(RowSet) /\ tick = Len(rows) /\ tick \in 0 .. Len(rows)
    BY LenProperties DEF WorldInv, TickInv, Recorded, FrameInv
  <2>2. Len(memory) = tick /\ prev \in Nat
    BY <2>1, MemOfType DEF WorldInv, TickInv, FrameInv
  <2>3. accumulator \in 0 .. MaxClock
    <3>1. tick * FixedDt \in Nat
      BY DEF FrameInv
    <3>. QED BY <3>1 DEF FrameInv, NeverAhead
  <2>4. cursor \in 0 .. Len(recording)
    <3>1. Len(recording) \in Nat
      BY LenProperties DEF WorldInv, ReplayInv, Recorded
    <3>. QED BY <3>1 DEF WorldInv, ReplayInv, FrameInv
  <2>. QED BY <2>1, <2>2, <2>3, <2>4 DEF FrameInv, ClockInv, TypeOK
<1>. QED BY <1>1, FrameInvariant, PTL

\* "Replaying it ... IS the determinism test" (core/recorder.h): whatever the
\* recorded run, and however either run is cut into frames, every tick of the
\* replay has the recorded hash.
THEOREM ReplayIsDeterministic == Spec => []ReplayReproducesTrace
<1>1. WorldInv /\ FrameInv => ReplayReproducesTrace
  <2>. SUFFICES ASSUME WorldInv, FrameInv, Replaying, NEW n \in DOMAIN rows
                PROVE  rows[n] = recording[n] /\ tick = cursor
    BY DEF ReplayReproducesTrace, WorldInv, ReplayInv
  <2>1. rows \in Seq(RowSet) /\ recording \in Seq(RowSet) /\ tick = Len(rows) /\ tick = cursor
        /\ tick \in Nat /\ n \in 1 .. tick /\ Len(recording) \in Nat /\ n \in 1 .. Len(recording)
    BY LenProperties DEF WorldInv, TickInv, ReplayInv, Recorded
  <2>2. \A i \in 1 .. n : rows[i].frames = recording[i].frames
    BY <2>1 DEF WorldInv, ReplayInv
  <2>3. MemOf(rows, n) = MemOf(recording, n)
    BY <2>1, <2>2, SameFramesSameWorld
  <2>4. rows[n].hash = recording[n].hash
    BY <2>1, <2>3 DEF WorldInv, TickInv, ReplayInv, Recorded
  <2>5. rows[n] \in RowSet /\ recording[n] \in RowSet
    BY <2>1, ElementOfSeq
  <2>6. rows[n].frames = recording[n].frames
    BY <2>1, <2>2
  <2>7. \A rec \in RowSet : rec = [frames |-> rec.frames, hash |-> rec.hash]
    BY DEF RowSet
  <2>8. rows[n] = recording[n]
    BY <2>4, <2>5, <2>6, <2>7
  <2>. QED BY <2>1, <2>8
<1>. QED BY <1>1, FrameInvariant, PTL

\* An event is read in the tick after its own, whole, and in no other
\* (core/events.cpp events_swap at the barrier).
THEOREM EventsAreReadOnce == Spec => []EventsReadNextTick
<1>1. WorldInv /\ FrameInv => EventsReadNextTick
  <2>. SUFFICES ASSUME WorldInv, FrameInv, ReadsEvents, NEW n \in DOMAIN memory
                PROVE  memory[n].ev = IF n = 1 THEN <<>> ELSE <<memory[n - 1].in>>
    BY DEF EventsReadNextTick
  <2>1. tick \in Nat /\ n \in 1 .. tick
    BY DEF FrameInv, WorldInv, TickInv, MemOf
  <2>2. memory[n] = GivenAt(rows, n)
    BY <2>1 DEF WorldInv, TickInv, MemOf
  <2>3. n # 1 => memory[n - 1] = GivenAt(rows, n - 1)
    BY <2>1 DEF WorldInv, TickInv, MemOf
  <2>. QED BY <2>1, <2>2, <2>3 DEF GivenAt
<1>. QED BY <1>1, FrameInvariant, PTL

\* What is on the screen never goes back in time, for any cap and any stall
\* (core/loop.cpp's alpha).
THEOREM PresentedTimeIsMonotonic == Spec => PresentedTimeNeverGoesBack
<1>1. WorldInv /\ FrameInv /\ [Next]_vars
          => [pc = "render" => presented' >= presented]_vars
  <2>. SUFFICES ASSUME FrameInv, Next, pc = "render" PROVE presented' >= presented
    OBVIOUS
  <2>. DEFINE T == 2 * FixedDt * tick
  <2>1. Render
    BY DEF Next, TickLive, TickReplay, Wait, CaughtUp, BeginFrame, Replay
  <2>2. T \in Nat /\ presented' = T + Alpha(accumulator')
    BY <2>1 DEF Render, FrameInv
  <2>3. CASE steps = 0
    <3>1. accumulator' = accumulator
      BY <2>1, <2>3 DEF Render
    <3>. QED BY <2>2, <2>3, <3>1 DEF FrameInv, Behind
  <2>4. CASE steps # 0
    <3>1. accumulator' \in Nat
      BY <2>1 DEF Render, FrameInv
    <3>2. Alpha(accumulator') \in Nat
      BY <3>1, AlphaFacts
    <3>. QED BY <2>2, <2>4, <3>2 DEF FrameInv, Behind
  <2>. QED BY <2>3, <2>4
<1>. QED BY <1>1, FrameInvariant, PTL DEF Spec, PresentedTimeNeverGoesBack

-----------------------------------------------------------------------------
(* The doors of a developer (Console): what a sorted index is, and how it  *)
(* is searched.                                                            *)

LEMMA LeastOf == ASSUME NEW S, S \subseteq Nat, S # {} PROVE Min(S) \in S /\ \A m \in S : Min(S) <= m
<1>1. PICK x \in S : \A y \in S : x <= y
  BY Least
<1>. QED BY <1>1 DEF Min

\* A sequence with one more element in it.
Inserts(s, at, e, r) ==
    /\ Len(r) = Len(s) + 1 /\ DOMAIN r = 1 .. Len(s) + 1
    /\ \A i \in 1 .. at - 1 : r[i] = s[i]
    /\ r[at] = e
    /\ \A i \in at + 1 .. Len(s) + 1 : r[i] = s[i - 1]

LEMMA InsertAtIs ==
    ASSUME NEW S, NEW s \in Seq(S), NEW e \in S, NEW at \in 1 .. Len(s) + 1
    PROVE  InsertAt(s, at, e) \in Seq(S) /\ Inserts(s, at, e, InsertAt(s, at, e))
<1>. DEFINE a == SubSeq(s, 1, at - 1)
            b == SubSeq(s, at, Len(s))
            r == a \o <<e>> \o b
<1>1. Len(s) \in Nat /\ at \in Nat /\ DOMAIN s = 1 .. Len(s)
  OBVIOUS
<1>2. a \in Seq(S) /\ Len(a) = at - 1 /\ \A i \in 1 .. at - 1 : a[i] = s[i]
  BY <1>1
<1>3. b \in Seq(S) /\ Len(b) = Len(s) + 1 - at /\ \A i \in 1 .. Len(s) + 1 - at : b[i] = s[at + i - 1]
  BY <1>1
<1>. HIDE DEF a, b
<1>4. r \in Seq(S) /\ Len(r) = Len(s) + 1
  <2>1. PICK c : c = a \o <<e>>
    OBVIOUS
  <2>2. c \in Seq(S) /\ Len(c) = at
    BY <1>1, <1>2, <2>1
  <2>3. c \o b \in Seq(S) /\ Len(c \o b) = Len(c) + Len(b)
    BY <1>3, <2>2, ConcatProperties
  <2>4. r = c \o b
    BY <2>1
  <2>5. Len(c) + Len(b) = Len(s) + 1
    BY <1>1, <1>3, <2>2
  <2>. HIDE DEF r
  <2>. QED BY <2>3, <2>4, <2>5
<1>5. \A i \in 1 .. at - 1 : r[i] = s[i]
  BY <1>1, <1>2, <1>3
<1>6. r[at] = e
  BY <1>1, <1>2, <1>3
<1>7. \A i \in at + 1 .. Len(s) + 1 : r[i] = s[i - 1]
  <2>. SUFFICES ASSUME NEW i \in at + 1 .. Len(s) + 1 PROVE r[i] = s[i - 1]
    OBVIOUS
  <2>1. r[i] = b[i - at]
    BY <1>1, <1>2, <1>3
  <2>2. i - at \in 1 .. Len(s) + 1 - at
    BY <1>1
  <2>3. b[i - at] = s[at + (i - at) - 1] /\ at + (i - at) - 1 = i - 1
    BY <1>1, <1>3, <2>2
  <2>. QED BY <2>1, <2>3
<1>8. DOMAIN r = 1 .. Len(s) + 1
  BY <1>4
<1>9. InsertAt(s, at, e) = r
  BY DEF InsertAt, a, b
<1>. HIDE DEF r
<1>. QED BY <1>4, <1>5, <1>6, <1>7, <1>8, <1>9 DEF Inserts

\* An index of 1 .. n, in the order of less.
Orders(less, n, order) ==
    /\ order \in Seq(1 .. n) /\ Len(order) = n
    /\ \A p, q \in 1 .. n : p < q => <<order[p], order[q]>> \in less
    /\ \A i \in 1 .. n : \E p \in 1 .. n : order[p] = i

\* less tells 1 .. n apart and is transitive.
IsOrder(less, n) ==
    /\ \A i, j \in 1 .. n : i # j => <<i, j>> \in less \/ <<j, i>> \in less
    /\ \A i, j, k \in 1 .. n : <<i, j>> \in less /\ <<j, k>> \in less => <<i, k>> \in less
    /\ \A i \in 1 .. n : <<i, i>> \notin less

LEMMA PutInOrder ==
    ASSUME NEW n \in Nat, NEW less, IsOrder(less, n + 1), NEW order, Orders(less, n, order),
           NEW greater, greater = {p \in DOMAIN order : <<n + 1, order[p]>> \in less}
    PROVE  Orders(less, n + 1, PutBefore(order, greater, n + 1))
<1>. DEFINE at == IF greater = {} THEN n + 1 ELSE Min(greater)
            r == InsertAt(order, at, n + 1)
<1>0. order \in Seq(1 .. n) /\ Len(order) = n
  BY DEF Orders
<1>1. order \in Seq(1 .. n) /\ Len(order) = n /\ DOMAIN order = 1 .. n
      /\ \A p \in 1 .. n : order[p] \in 1 .. n
  BY <1>0
<1>11. \A p : p \in greater <=> p \in 1 .. n /\ <<n + 1, order[p]>> \in less
  BY <1>1
<1>2. /\ at \in 1 .. n + 1
      /\ \A p \in 1 .. n : p < at => <<n + 1, order[p]>> \notin less
      /\ at \in 1 .. n => <<n + 1, order[at]>> \in less
  <2>1. CASE greater = {}
    <3>1. at = n + 1
      BY <2>1
    <3>. HIDE DEF at
    <3>2. \A p \in 1 .. n : <<n + 1, order[p]>> \notin less
      BY <1>11, <2>1
    <3>. QED BY <3>1, <3>2
  <2>2. CASE greater # {}
    <3>1. greater \subseteq Nat
      BY <1>11
    <3>2. Min(greater) \in greater /\ \A m \in greater : Min(greater) <= m
      BY <2>2, <3>1, LeastOf
    <3>3. at \in greater /\ \A m \in greater : at <= m
      BY <2>2, <3>2
    <3>. HIDE DEF at
    <3>4. at \in 1 .. n /\ <<n + 1, order[at]>> \in less
      BY <1>11, <3>3
    <3>5. ASSUME NEW p \in 1 .. n, p < at PROVE <<n + 1, order[p]>> \notin less
      <4>1. p \notin greater
        BY <3>3, <3>4, <3>5
      <4>. QED BY <1>11, <4>1
    <3>. QED BY <3>4, <3>5
  <2>. QED BY <2>1, <2>2
<1>. HIDE DEF at
<1>3. order \in Seq(1 .. n + 1) /\ n + 1 \in 1 .. n + 1 /\ at \in 1 .. Len(order) + 1
  BY <1>1, <1>2
<1>4. r \in Seq(1 .. n + 1) /\ Inserts(order, at, n + 1, r)
  BY <1>3, InsertAtIs
<1>5. PutBefore(order, greater, n + 1) = r
  BY <1>1 DEF PutBefore, at
<1>. HIDE DEF r
<1>6. /\ Len(r) = n + 1 /\ r[at] = n + 1
      /\ \A i \in 1 .. n + 1 : i < at => r[i] = order[i] /\ i \in 1 .. n
      /\ \A i \in 1 .. n + 1 : at < i => r[i] = order[i - 1] /\ i - 1 \in 1 .. n
  <2>1. Len(order) = n /\ at \in 1 .. n + 1
    BY <1>1, <1>2
  <2>2. /\ Len(r) = n + 1 /\ r[at] = n + 1
        /\ \A i \in 1 .. at - 1 : r[i] = order[i]
        /\ \A i \in at + 1 .. n + 1 : r[i] = order[i - 1]
    BY <1>4, <2>1 DEF Inserts
  <2>3. ASSUME NEW i \in 1 .. n + 1, i < at PROVE i \in 1 .. at - 1 /\ i \in 1 .. n
    BY <2>1, <2>3
  <2>4. ASSUME NEW i \in 1 .. n + 1, at < i PROVE i \in at + 1 .. n + 1 /\ i - 1 \in 1 .. n
    BY <2>1, <2>4
  <2>. QED BY <2>2, <2>3, <2>4
<1>7. \A p \in 1 .. n : p < at => <<order[p], n + 1>> \in less
  <2>. SUFFICES ASSUME NEW p \in 1 .. n, p < at PROVE <<order[p], n + 1>> \in less
    OBVIOUS
  <2>1. order[p] # n + 1 /\ order[p] \in 1 .. n + 1 /\ n + 1 \in 1 .. n + 1
    BY <1>1
  <2>. QED BY <1>2, <2>1 DEF IsOrder
<1>8. \A p \in 1 .. n : at <= p => <<n + 1, order[p]>> \in less
  <2>. SUFFICES ASSUME NEW p \in 1 .. n, at <= p PROVE <<n + 1, order[p]>> \in less
    OBVIOUS
  <2>1. at \in 1 .. n /\ <<n + 1, order[at]>> \in less
    BY <1>2
  <2>2. CASE p = at
    BY <2>1, <2>2
  <2>3. CASE p # at
    <3>1. <<order[at], order[p]>> \in less
      BY <1>2, <2>1, <2>3 DEF Orders
    <3>2. order[at] \in 1 .. n + 1 /\ order[p] \in 1 .. n + 1 /\ n + 1 \in 1 .. n + 1
      BY <1>1, <2>1
    <3>. QED BY <2>1, <3>1, <3>2 DEF IsOrder
  <2>. QED BY <2>2, <2>3
<1>9. ASSUME NEW p \in 1 .. n + 1, NEW q \in 1 .. n + 1, p < q PROVE <<r[p], r[q]>> \in less
  <2>1. CASE q < at
    BY <1>2, <1>6, <1>9, <2>1 DEF Orders
  <2>2. CASE q = at
    <3>1. p < at
      BY <1>9, <2>2
    <3>2. p \in 1 .. n /\ r[p] = order[p]
      BY <1>6, <3>1
    <3>. QED BY <1>6, <1>7, <2>2, <3>1, <3>2
  <2>3. CASE at < q /\ p < at
    <3>1. p \in 1 .. n /\ q - 1 \in 1 .. n /\ p < q - 1 /\ r[p] = order[p] /\ r[q] = order[q - 1]
      BY <1>2, <1>6, <2>3
    <3>. QED BY <3>1 DEF Orders
  <2>4. CASE at < q /\ p = at
    <3>1. q - 1 \in 1 .. n /\ at <= q - 1 /\ r[q] = order[q - 1]
      BY <1>2, <1>6, <2>4
    <3>. QED BY <1>6, <1>8, <2>4, <3>1
  <2>5. CASE at < p
    <3>1. p - 1 \in 1 .. n /\ q - 1 \in 1 .. n /\ p - 1 < q - 1
          /\ r[p] = order[p - 1] /\ r[q] = order[q - 1]
      BY <1>2, <1>6, <1>9, <2>5
    <3>. QED BY <3>1 DEF Orders
  <2>. QED BY <1>2, <1>9, <2>1, <2>2, <2>3, <2>4, <2>5
<1>10. ASSUME NEW i \in 1 .. n + 1 PROVE \E p \in 1 .. n + 1 : r[p] = i
  <2>1. CASE i = n + 1
    BY <1>2, <1>6, <2>1
  <2>2. CASE i # n + 1
    <3>1. PICK p \in 1 .. n : order[p] = i
      BY <2>2 DEF Orders
    <3>2. CASE p < at
      BY <1>6, <3>1, <3>2
    <3>3. CASE at <= p
      <4>1. p + 1 \in 1 .. n + 1 /\ at < p + 1
        BY <1>2, <3>3
      <4>2. r[p + 1] = order[p]
        BY <1>6, <4>1
      <4>. QED BY <3>1, <4>1, <4>2
    <3>. QED BY <1>2, <3>2, <3>3
  <2>. QED BY <2>1, <2>2
<1>. QED BY <1>4, <1>5, <1>6, <1>9, <1>10 DEF Orders

\* c is where a predicate that holds of a beginning of 0 .. n - 1 stops.
Cuts(n, P, c) == \A i \in 0 .. n - 1 : i \in P <=> i < c

LEMMA CutExists ==
    ASSUME NEW n \in Nat, NEW P, \A i, j \in 0 .. n - 1 : i < j /\ j \in P => i \in P
    PROVE  \E c \in 0 .. n : Cuts(n, P, c)
<1>. DEFINE T == {k \in 0 .. n : k = n \/ k \notin P}
<1>1. PICK c \in T : \A m \in T : c <= m
  <2>1. T \subseteq Nat /\ n \in T
    OBVIOUS
  <2>. HIDE DEF T
  <2>. QED BY <2>1, Least
<1>2. \A i \in 0 .. n - 1 : i \in P <=> i < c
  <2>. SUFFICES ASSUME NEW i \in 0 .. n - 1 PROVE i \in P <=> i < c
    OBVIOUS
  <2>1. CASE i < c
    <3>1. i \notin T
      BY <1>1, <2>1
    <3>. QED BY <2>1, <3>1
  <2>2. CASE c <= i
    <3>1. c \in 0 .. n - 1 /\ c \notin P
      BY <1>1, <2>2
    <3>. QED BY <2>2, <3>1
  <2>. QED BY <1>1, <2>1, <2>2
<1>. QED BY <1>1, <1>2 DEF Cuts

\* A search of n places, each telling whether to go on above it: the place where those that do end.
IsSearch(n, P, f) ==
    f = [r \in Ranges(n) |->
            IF r[1] >= r[2] THEN r[1]
            ELSE IF Middle(r) \in P THEN f[<<Middle(r) + 1, r[2]>>] ELSE f[<<r[1], Middle(r)>>]]

\* c, or the end of the range that is nearer.
Clamped(c, lo, hi) == IF lo >= hi \/ c < lo THEN lo ELSE IF c > hi THEN hi ELSE c

LEMMA MiddleIs ==
    ASSUME NEW n \in Nat, NEW lo \in 0 .. n, NEW hi \in 0 .. n, lo < hi
    PROVE  /\ Middle(<<lo, hi>>) \in lo .. hi - 1
           /\ <<lo, hi>> \in Ranges(n) /\ <<lo, Middle(<<lo, hi>>)>> \in Ranges(n)
           /\ <<Middle(<<lo, hi>>) + 1, hi>> \in Ranges(n)
<1>. DEFINE half == (hi - lo) \div 2
            mid == lo + half
<1>1. hi - lo \in Nat /\ lo \in Nat /\ hi \in Nat
  OBVIOUS
<1>2. half \in Nat /\ 2 * half <= hi - lo
  BY <1>1
<1>. HIDE DEF half
<1>3. mid \in lo .. hi - 1 /\ mid \in 0 .. n /\ mid + 1 \in 0 .. n
  BY <1>1, <1>2
<1>4. Middle(<<lo, hi>>) = mid
  BY DEF Middle, half
<1>. QED BY <1>3, <1>4 DEF Ranges

LEMMA SearchFinds ==
    ASSUME NEW n \in Nat, NEW P, NEW c \in 0 .. n, \A i \in 0 .. n - 1 : i \in P <=> i < c
    PROVE  (CHOOSE f : IsSearch(n, P, f))[<<0, n>>] = c
<1>. DEFINE g == [r \in Ranges(n) |-> Clamped(c, r[1], r[2])]
            f == CHOOSE f : IsSearch(n, P, f)
<1>1. ASSUME NEW lo \in 0 .. n, NEW hi \in 0 .. n, lo < hi
      PROVE  Clamped(c, lo, hi) = IF Middle(<<lo, hi>>) \in P
                                  THEN Clamped(c, Middle(<<lo, hi>>) + 1, hi)
                                  ELSE Clamped(c, lo, Middle(<<lo, hi>>))
  <2>1. PICK mid \in lo .. hi - 1 : mid = Middle(<<lo, hi>>)
    BY <1>1, MiddleIs
  <2>2. mid \in P <=> mid < c
    BY <2>1
  <2>3. lo \in Nat /\ hi \in Nat /\ mid \in Nat /\ c \in Nat
    BY <2>1
  <2>4. CASE mid < c
    BY <1>1, <2>1, <2>2, <2>3, <2>4 DEF Clamped
  <2>5. CASE c <= mid
    BY <1>1, <2>1, <2>2, <2>3, <2>5 DEF Clamped
  <2>. QED BY <2>3, <2>4, <2>5
<1>2. IsSearch(n, P, g)
  <2>. DEFINE step(r) == IF r[1] >= r[2] THEN r[1]
                         ELSE IF Middle(r) \in P THEN g[<<Middle(r) + 1, r[2]>>] ELSE g[<<r[1], Middle(r)>>]
  <2>1. ASSUME NEW r \in Ranges(n) PROVE Clamped(c, r[1], r[2]) = step(r)
    <3>1. PICK lo \in 0 .. n, hi \in 0 .. n : r = <<lo, hi>>
      BY DEF Ranges
    <3>2. r[1] = lo /\ r[2] = hi
      BY <3>1
    <3>3. CASE lo >= hi
      BY <3>2, <3>3 DEF Clamped
    <3>4. CASE lo < hi
      <4>1. <<Middle(r) + 1, hi>> \in Ranges(n) /\ <<lo, Middle(r)>> \in Ranges(n)
        BY <3>1, <3>4, MiddleIs
      <4>2. g[<<Middle(r) + 1, hi>>] = Clamped(c, Middle(r) + 1, hi)
            /\ g[<<lo, Middle(r)>>] = Clamped(c, lo, Middle(r))
        BY <4>1
      <4>3. ~(lo >= hi)
        BY <3>4
      <4>. HIDE DEF g
      <4>4. step(r) = IF Middle(r) \in P THEN Clamped(c, Middle(r) + 1, hi) ELSE Clamped(c, lo, Middle(r))
        BY <3>2, <4>2, <4>3
      <4>. HIDE DEF step
      <4>. QED BY <1>1, <3>1, <3>2, <3>4, <4>4
    <3>. QED BY <3>1, <3>3, <3>4
  <2>2. g = [r \in Ranges(n) |-> step(r)]
    BY <2>1
  <2>. HIDE DEF g
  <2>. QED BY <2>2 DEF IsSearch
<1>3. IsSearch(n, P, f)
  BY <1>2
<1>. HIDE DEF f, g
<1>4. ASSUME NEW lo \in 0 .. n, NEW hi \in 0 .. n
      PROVE  f[<<lo, hi>>] = IF lo >= hi THEN lo
                             ELSE IF Middle(<<lo, hi>>) \in P THEN f[<<Middle(<<lo, hi>>) + 1, hi>>]
                             ELSE f[<<lo, Middle(<<lo, hi>>)>>]
  <2>1. <<lo, hi>> \in Ranges(n)
    BY DEF Ranges
  <2>. QED BY <1>3, <2>1 DEF IsSearch
<1>. DEFINE Right(lo, hi) == f[<<lo, hi>>] = Clamped(c, lo, hi)
            T == {w \in 0 .. n : \E lo, hi \in 0 .. n : lo <= hi /\ hi - lo = w /\ ~Right(lo, hi)}
<1>5. T = {}
  <2>. SUFFICES ASSUME T # {} PROVE FALSE
    OBVIOUS
  <2>1. PICK w \in T : \A v \in T : w <= v
    <3>1. T \subseteq Nat
      OBVIOUS
    <3>. HIDE DEF T
    <3>. QED BY <3>1, Least
  <2>2. PICK lo \in 0 .. n : \E hi \in 0 .. n : lo <= hi /\ hi - lo = w /\ ~Right(lo, hi)
    BY <2>1
  <2>3. PICK hi \in 0 .. n : lo <= hi /\ hi - lo = w /\ ~Right(lo, hi)
    BY <2>2
  <2>4. ASSUME NEW a \in 0 .. n, NEW b \in 0 .. n, a <= b, b - a < w PROVE Right(a, b)
    <3>1. PICK v \in 0 .. n : v = b - a
      BY <2>4
    <3>. HIDE DEF Right
    <3>2. v < w /\ w \in 0 .. n
      BY <2>1, <2>4, <3>1
    <3>3. v \notin T
      <4>. HIDE DEF T
      <4>. QED BY <2>1, <3>1, <3>2
    <3>. QED BY <2>4, <3>1, <3>3
  <2>5. lo # hi
    <3>. SUFFICES ASSUME lo = hi PROVE FALSE
      OBVIOUS
    <3>1. lo >= hi
      OBVIOUS
    <3>2. f[<<lo, hi>>] = lo /\ Clamped(c, lo, hi) = lo
      BY <1>4, <3>1 DEF Clamped
    <3>. QED BY <2>3, <3>2
  <2>6. lo < hi
    BY <2>3, <2>5
  <2>7. PICK mid \in lo .. hi - 1 : mid = Middle(<<lo, hi>>)
    BY <2>6, MiddleIs
  <2>8. f[<<lo, hi>>] = IF mid \in P THEN f[<<mid + 1, hi>>] ELSE f[<<lo, mid>>]
    BY <1>4, <2>6, <2>7
  <2>9. Clamped(c, lo, hi) = IF mid \in P THEN Clamped(c, mid + 1, hi) ELSE Clamped(c, lo, mid)
    BY <1>1, <2>6, <2>7
  <2>10. mid + 1 \in 0 .. n /\ mid \in 0 .. n /\ mid + 1 <= hi /\ hi - (mid + 1) < w
         /\ lo <= mid /\ mid - lo < w
    BY <2>3, <2>6, <2>7
  <2>11. Right(mid + 1, hi) /\ Right(lo, mid)
    <3>. HIDE DEF Right
    <3>. QED BY <2>4, <2>10
  <2>. QED BY <2>3, <2>8, <2>9, <2>11
<1>6. 0 \in 0 .. n /\ n \in 0 .. n /\ n - 0 \in 0 .. n /\ n - 0 \notin T
  <2>. HIDE DEF T
  <2>. QED BY <1>5
<1>7. Right(0, n)
  <2>. HIDE DEF Right
  <2>. QED BY <1>6
<1>8. Clamped(c, 0, n) = c
  BY DEF Clamped
<1>. QED BY <1>7, <1>8 DEF f

\* The search for a key, which stops at it.
KeyAt(t, order, i) == t[order[i + 1]].key
IsFind(t, order, key, f) ==
    f = [r \in Ranges(Len(order)) |->
            IF r[1] >= r[2] THEN 0
            ELSE IF KeyAt(t, order, Middle(r)) = key THEN order[Middle(r) + 1]
            ELSE IF KeyAt(t, order, Middle(r)) < key THEN f[<<Middle(r) + 1, r[2]>>]
            ELSE f[<<r[1], Middle(r)>>]]

LEMMA FindIndexIs ==
    ASSUME NEW t, NEW order, NEW key
    PROVE  FindIndex(t, order, key) = (CHOOSE f : IsFind(t, order, key, f))[<<0, Len(order)>>]
BY DEF FindIndex, IsFind, KeyAt

\* Whether it is at c and the range has c.
Within1(c, lo, hi) == lo <= c /\ c < hi

\* c is where a search for key stops.
StopsAt(t, order, n, key, c) ==
    FindIndex(t, order, key) = IF c < n /\ KeyAt(t, order, c) = key THEN order[c + 1] ELSE 0

LEMMA FindStops ==
    ASSUME NEW t, NEW order, NEW n \in Nat, n = Len(order), NEW key \in Int,
           \A i \in 0 .. n - 1 : KeyAt(t, order, i) \in Int,
           \A i, j \in 0 .. n - 1 : i < j => KeyAt(t, order, i) < KeyAt(t, order, j),
           NEW c \in 0 .. n, \A i \in 0 .. n - 1 : KeyAt(t, order, i) < key <=> i < c
    PROVE  StopsAt(t, order, n, key, c)
<1>. DEFINE K(i) == KeyAt(t, order, i)
            Ans(lo, hi) == IF Within1(c, lo, hi) /\ K(c) = key THEN order[c + 1] ELSE 0
            g == [r \in Ranges(n) |-> Ans(r[1], r[2])]
            f == CHOOSE f : IsFind(t, order, key, f)
<1>1. ASSUME NEW lo \in 0 .. n, NEW hi \in 0 .. n, lo < hi
      PROVE  Ans(lo, hi) = IF K(Middle(<<lo, hi>>)) = key THEN order[Middle(<<lo, hi>>) + 1]
                           ELSE IF K(Middle(<<lo, hi>>)) < key THEN Ans(Middle(<<lo, hi>>) + 1, hi)
                           ELSE Ans(lo, Middle(<<lo, hi>>))
  <2>1. PICK mid \in lo .. hi - 1 : mid = Middle(<<lo, hi>>)
    BY <1>1, MiddleIs
  <2>2. /\ mid \in 0 .. n - 1 /\ K(mid) \in Int
        /\ K(mid) < key <=> mid < c
        /\ lo \in Nat /\ hi \in Nat /\ mid \in Nat /\ c \in Nat
    BY <2>1
  <2>3. CASE mid < c
    <3>1. K(mid) < key /\ K(mid) # key
      BY <2>2, <2>3
    <3>2. Within1(c, lo, hi) <=> Within1(c, mid + 1, hi)
      BY <2>1, <2>2, <2>3 DEF Within1
    <3>. HIDE DEF K
    <3>. QED BY <2>1, <3>1, <3>2
  <2>4. CASE mid = c
    <3>1. ~(K(mid) < key) /\ Within1(c, lo, hi) /\ ~Within1(c, lo, mid)
      BY <1>1, <2>1, <2>2, <2>4 DEF Within1
    <3>. HIDE DEF K
    <3>. QED BY <2>1, <2>4, <3>1
  <2>5. CASE c < mid
    <3>1. ~(K(mid) < key)
      BY <2>2, <2>5
    <3>2. c \in 0 .. n - 1 /\ ~(K(c) < key) /\ K(c) < K(mid) /\ K(c) \in Int
      BY <2>2, <2>5
    <3>3. K(mid) # key
      BY <2>2, <3>1, <3>2
    <3>4. Within1(c, lo, hi) <=> Within1(c, lo, mid)
      BY <2>1, <2>2, <2>5 DEF Within1
    <3>. HIDE DEF K
    <3>. QED BY <2>1, <3>1, <3>3, <3>4
  <2>. QED BY <2>2, <2>3, <2>4, <2>5
<1>. HIDE DEF Ans
<1>2. IsFind(t, order, key, g)
  <2>. DEFINE step(r) == IF r[1] >= r[2] THEN 0
                         ELSE IF KeyAt(t, order, Middle(r)) = key THEN order[Middle(r) + 1]
                         ELSE IF KeyAt(t, order, Middle(r)) < key THEN g[<<Middle(r) + 1, r[2]>>]
                         ELSE g[<<r[1], Middle(r)>>]
  <2>1. ASSUME NEW r \in Ranges(n) PROVE Ans(r[1], r[2]) = step(r)
    <3>1. PICK lo \in 0 .. n, hi \in 0 .. n : r = <<lo, hi>>
      BY DEF Ranges
    <3>2. r[1] = lo /\ r[2] = hi
      BY <3>1
    <3>3. CASE lo >= hi
      <4>1. ~Within1(c, lo, hi)
        BY <3>3 DEF Within1
      <4>. QED BY <3>2, <3>3, <4>1 DEF Ans
    <3>4. CASE lo < hi
      <4>1. <<Middle(r) + 1, hi>> \in Ranges(n) /\ <<lo, Middle(r)>> \in Ranges(n)
        BY <3>1, <3>4, MiddleIs
      <4>2. g[<<Middle(r) + 1, hi>>] = Ans(Middle(r) + 1, hi)
            /\ g[<<lo, Middle(r)>>] = Ans(lo, Middle(r))
        BY <4>1
      <4>3. ~(lo >= hi)
        BY <3>4
      <4>. HIDE DEF g, K
      <4>4. step(r) = IF KeyAt(t, order, Middle(r)) = key THEN order[Middle(r) + 1]
                      ELSE IF KeyAt(t, order, Middle(r)) < key THEN Ans(Middle(r) + 1, hi)
                      ELSE Ans(lo, Middle(r))
        BY <3>2, <4>2, <4>3
      <4>5. K(Middle(r)) = KeyAt(t, order, Middle(r))
        BY DEF K
      <4>. HIDE DEF step
      <4>. QED BY <1>1, <3>1, <3>2, <3>4, <4>4, <4>5
    <3>. QED BY <3>1, <3>3, <3>4
  <2>2. g = [r \in Ranges(n) |-> step(r)]
    BY <2>1
  <2>. HIDE DEF g, K
  <2>. QED BY <2>2 DEF IsFind
<1>3. IsFind(t, order, key, f)
  BY <1>2
<1>. HIDE DEF f, g
<1>4. ASSUME NEW lo \in 0 .. n, NEW hi \in 0 .. n
      PROVE  f[<<lo, hi>>] = IF lo >= hi THEN 0
                             ELSE IF K(Middle(<<lo, hi>>)) = key THEN order[Middle(<<lo, hi>>) + 1]
                             ELSE IF K(Middle(<<lo, hi>>)) < key THEN f[<<Middle(<<lo, hi>>) + 1, hi>>]
                             ELSE f[<<lo, Middle(<<lo, hi>>)>>]
  <2>1. <<lo, hi>> \in Ranges(n)
    BY DEF Ranges
  <2>. QED BY <1>3, <2>1 DEF IsFind
<1>. HIDE DEF K
<1>. DEFINE Right(lo, hi) == f[<<lo, hi>>] = Ans(lo, hi)
            T == {w \in 0 .. n : \E lo, hi \in 0 .. n : lo <= hi /\ hi - lo = w /\ ~Right(lo, hi)}
<1>5. T = {}
  <2>. SUFFICES ASSUME T # {} PROVE FALSE
    OBVIOUS
  <2>1. PICK w \in T : \A v \in T : w <= v
    <3>1. T \subseteq Nat
      OBVIOUS
    <3>. HIDE DEF T
    <3>. QED BY <3>1, Least
  <2>2. PICK lo \in 0 .. n : \E hi \in 0 .. n : lo <= hi /\ hi - lo = w /\ ~Right(lo, hi)
    BY <2>1
  <2>3. PICK hi \in 0 .. n : lo <= hi /\ hi - lo = w /\ ~Right(lo, hi)
    BY <2>2
  <2>4. ASSUME NEW a \in 0 .. n, NEW b \in 0 .. n, a <= b, b - a < w PROVE Right(a, b)
    <3>1. PICK v \in 0 .. n : v = b - a
      BY <2>4
    <3>. HIDE DEF Right
    <3>2. v < w /\ w \in 0 .. n
      BY <2>1, <2>4, <3>1
    <3>3. v \notin T
      <4>. HIDE DEF T
      <4>. QED BY <2>1, <3>1, <3>2
    <3>. QED BY <2>4, <3>1, <3>3
  <2>5. lo # hi
    <3>. SUFFICES ASSUME lo = hi PROVE FALSE
      OBVIOUS
    <3>1. lo >= hi /\ ~Within1(c, lo, hi)
      BY DEF Within1
    <3>2. f[<<lo, hi>>] = 0 /\ Ans(lo, hi) = 0
      BY <1>4, <3>1 DEF Ans
    <3>. QED BY <2>3, <3>2
  <2>6. lo < hi
    BY <2>3, <2>5
  <2>7. PICK mid \in lo .. hi - 1 : mid = Middle(<<lo, hi>>)
    BY <2>6, MiddleIs
  <2>8. f[<<lo, hi>>] = IF K(mid) = key THEN order[mid + 1]
                        ELSE IF K(mid) < key THEN f[<<mid + 1, hi>>] ELSE f[<<lo, mid>>]
    BY <1>4, <2>6, <2>7
  <2>9. Ans(lo, hi) = IF K(mid) = key THEN order[mid + 1]
                      ELSE IF K(mid) < key THEN Ans(mid + 1, hi) ELSE Ans(lo, mid)
    BY <1>1, <2>6, <2>7
  <2>10. mid + 1 \in 0 .. n /\ mid \in 0 .. n /\ mid + 1 <= hi /\ hi - (mid + 1) < w
         /\ lo <= mid /\ mid - lo < w
    BY <2>3, <2>6, <2>7, SMTT(40)
  <2>11. Right(mid + 1, hi) /\ Right(lo, mid)
    <3>. HIDE DEF Right
    <3>. QED BY <2>4, <2>10
  <2>. QED BY <2>3, <2>8, <2>9, <2>11
<1>6. 0 \in 0 .. n /\ n \in 0 .. n /\ n - 0 \in 0 .. n /\ n - 0 \notin T
  <2>. HIDE DEF T
  <2>. QED BY <1>5
<1>7. Right(0, n)
  <2>. HIDE DEF Right
  <2>. QED BY <1>6
<1>8. Within1(c, 0, n) <=> c < n
  BY DEF Within1
<1>. QED BY <1>7, <1>8, FindIndexIs DEF StopsAt, f, Ans, K

\* The cvars' keys, and the order they give the rows.
Distinct(t) == \A i, j \in DOMAIN t : t[i].key = t[j].key => i = j
KeyOrder(t) == {e \in (DOMAIN t) \X (DOMAIN t) : t[e[1]].key < t[e[2]].key}

LEMMA InKeyOrder ==
    ASSUME NEW t, NEW i \in DOMAIN t, NEW j \in DOMAIN t
    PROVE  <<i, j>> \in KeyOrder(t) <=> t[i].key < t[j].key
<1>. DEFINE D == DOMAIN t
<1>1. i \in D /\ j \in D /\ KeyOrder(t) = {e \in D \X D : t[e[1]].key < t[e[2]].key}
  BY DEF KeyOrder
<1>. HIDE DEF D
<1>2. <<i, j>> \in D \X D /\ <<i, j>>[1] = i /\ <<i, j>>[2] = j
  BY <1>1
<1>. QED BY <1>1, <1>2

LEMMA KeysAreNumbers ==
    ASSUME NEW t \in Seq(Descs)
    PROVE  Len(t) \in Nat /\ DOMAIN t = 1 .. Len(t) /\ \A i \in 1 .. Len(t) : t[i].key \in Int
<1>1. \A i \in 1 .. Len(t) : t[i] \in Descs
  OBVIOUS
<1>. QED BY <1>1, ConsoleAssumption DEF ConsoleAssumption

LEMMA KeysOrder ==
    ASSUME NEW t \in Seq(Descs), Distinct(t)
    PROVE  IsOrder(KeyOrder(t), Len(t))
<1>1. /\ Len(t) \in Nat /\ DOMAIN t = 1 .. Len(t)
      /\ \A i \in 1 .. Len(t) : t[i].key \in Int
      /\ \A i, j \in 1 .. Len(t) : <<i, j>> \in KeyOrder(t) <=> t[i].key < t[j].key
      /\ \A i, j \in 1 .. Len(t) : t[i].key = t[j].key => i = j
  BY KeysAreNumbers, InKeyOrder DEF Distinct
<1>2. ASSUME NEW i \in 1 .. Len(t), NEW j \in 1 .. Len(t), i # j
      PROVE  <<i, j>> \in KeyOrder(t) \/ <<j, i>> \in KeyOrder(t)
  BY <1>1, <1>2
<1>3. ASSUME NEW i \in 1 .. Len(t), NEW j \in 1 .. Len(t), NEW k \in 1 .. Len(t),
             <<i, j>> \in KeyOrder(t), <<j, k>> \in KeyOrder(t)
      PROVE  <<i, k>> \in KeyOrder(t)
  <2>1. t[i].key < t[j].key /\ t[j].key < t[k].key
    BY <1>1, <1>3
  <2>. QED BY <1>1, <2>1
<1>4. \A i \in 1 .. Len(t) : <<i, i>> \notin KeyOrder(t)
  BY <1>1
<1>. QED BY <1>2, <1>3, <1>4 DEF IsOrder

Listed(less, n, order) ==
    /\ order \in Seq(1 .. n) /\ n = Len(order) /\ DOMAIN order = 1 .. n
    /\ \A p \in 1 .. n : order[p] \in 1 .. n
    /\ \A p, q \in 1 .. n : p < q => <<order[p], order[q]>> \in less
    /\ \A i \in 1 .. n : \E p \in 1 .. n : order[p] = i

LEMMA OrdersAre ==
    ASSUME NEW n \in Nat, NEW less, NEW order, Orders(less, n, order)
    PROVE  Listed(less, n, order)
<1>1. order \in Seq(1 .. n) /\ Len(order) = n
  BY DEF Orders
<1>2. DOMAIN order = 1 .. n /\ \A p \in 1 .. n : order[p] \in 1 .. n
  BY <1>1
<1>. QED BY <1>1, <1>2 DEF Orders, Listed

\* cvar_find_index finds the row of a key, and no row for a key of none.
LEMMA FindTells ==
    ASSUME NEW t \in Seq(Descs), Distinct(t), NEW order, Orders(KeyOrder(t), Len(t), order), NEW key \in Int
    PROVE  /\ FindIndex(t, order, key) \in 0 .. Len(t)
           /\ \A i \in 1 .. Len(t) : t[i].key = key <=> FindIndex(t, order, key) = i
<1>. DEFINE n == Len(t)
            P == {i \in 0 .. n - 1 : KeyAt(t, order, i) < key}
            found == FindIndex(t, order, key)
<1>1. /\ n \in Nat /\ DOMAIN t = 1 .. n
      /\ \A i \in 1 .. n : t[i].key \in Int
      /\ \A i, j \in 1 .. n : t[i].key = t[j].key => i = j
  BY KeysAreNumbers DEF Distinct
<1>. HIDE DEF n
<1>20. Orders(KeyOrder(t), n, order)
  BY DEF n
<1>2. /\ n = Len(order)
      /\ \A p \in 1 .. n : order[p] \in 1 .. n
      /\ \A p, q \in 1 .. n : p < q => <<order[p], order[q]>> \in KeyOrder(t)
      /\ \A i \in 1 .. n : \E p \in 1 .. n : order[p] = i
  <2>1. Listed(KeyOrder(t), n, order)
    BY <1>1, <1>20, OrdersAre
  <2>. QED BY <2>1 DEF Listed
<1>3. \A i \in 0 .. n - 1 : i + 1 \in 1 .. n /\ order[i + 1] \in 1 .. n
  BY <1>1, <1>2
<1>4. \A i \in 0 .. n - 1 : KeyAt(t, order, i) \in Int
  BY <1>1, <1>3 DEF KeyAt
<1>5. \A i, j \in 0 .. n - 1 : i < j => KeyAt(t, order, i) < KeyAt(t, order, j)
  <2>. SUFFICES ASSUME NEW i \in 0 .. n - 1, NEW j \in 0 .. n - 1, i < j
                PROVE  KeyAt(t, order, i) < KeyAt(t, order, j)
    OBVIOUS
  <2>1. i + 1 \in 1 .. n /\ j + 1 \in 1 .. n /\ i + 1 < j + 1
    BY <1>1
  <2>2. <<order[i + 1], order[j + 1]>> \in KeyOrder(t)
    BY <1>2, <2>1
  <2>3. t[order[i + 1]].key < t[order[j + 1]].key
    BY <1>1, <1>3, <2>2, InKeyOrder
  <2>. QED BY <2>3 DEF KeyAt
<1>6. \A i : i \in P <=> i \in 0 .. n - 1 /\ KeyAt(t, order, i) < key
  OBVIOUS
<1>. HIDE DEF P
<1>7. \A i, j \in 0 .. n - 1 : i < j /\ j \in P => i \in P
  <2>. SUFFICES ASSUME NEW i \in 0 .. n - 1, NEW j \in 0 .. n - 1, i < j, j \in P
                PROVE  i \in P
    OBVIOUS
  <2>1. KeyAt(t, order, i) < KeyAt(t, order, j) /\ KeyAt(t, order, j) < key
    BY <1>5, <1>6
  <2>2. KeyAt(t, order, i) < key
    BY <1>4, <2>1
  <2>. QED BY <1>6, <2>2
<1>8. PICK c \in 0 .. n : \A i \in 0 .. n - 1 : i \in P <=> i < c
  <2>1. \E c \in 0 .. n : Cuts(n, P, c)
    BY <1>1, <1>7, CutExists
  <2>. QED BY <2>1 DEF Cuts
<1>9. \A i \in 0 .. n - 1 : KeyAt(t, order, i) < key <=> i < c
  BY <1>6, <1>8
<1>10. found = IF c < n /\ KeyAt(t, order, c) = key THEN order[c + 1] ELSE 0
  <2>1. n \in Nat /\ n = Len(order)
    BY <1>1, <1>2
  <2>2. StopsAt(t, order, n, key, c)
    BY <1>4, <1>5, <1>9, <2>1, FindStops
  <2>. QED BY <2>2 DEF StopsAt
<1>. HIDE DEF found
<1>11. c < n => c \in 0 .. n - 1
  BY <1>1
<1>12. found \in 0 .. n
  <2>1. 0 \in 0 .. n /\ \A i \in 1 .. n : i \in 0 .. n
    BY <1>1
  <2>. QED BY <1>3, <1>10, <1>11, <2>1
<1>13. ASSUME NEW i \in 1 .. n, t[i].key = key PROVE found = i
  <2>1. PICK p \in 1 .. n : order[p] = i
    BY <1>2
  <2>2. PICK k \in 0 .. n - 1 : k + 1 = p
    <3>1. p - 1 \in 0 .. n - 1 /\ (p - 1) + 1 = p
      BY <1>1
    <3>. QED BY <3>1
  <2>3. KeyAt(t, order, k) = key
    BY <1>13, <2>1, <2>2 DEF KeyAt
  <2>4. ~(k < c)
    BY <1>9, <2>3
  <2>5. k = c
    <3>. SUFFICES ASSUME k # c PROVE FALSE
      OBVIOUS
    <3>1. c \in 0 .. n - 1 /\ c < k
      BY <1>1, <2>4
    <3>2. KeyAt(t, order, c) < key /\ ~(c < c)
      BY <1>5, <2>3, <3>1
    <3>. QED BY <1>9, <3>1, <3>2
  <2>6. c < n
    BY <1>1, <2>5
  <2>. QED BY <1>10, <2>1, <2>2, <2>3, <2>5, <2>6
<1>14. ASSUME NEW i \in 1 .. n, found = i PROVE t[i].key = key
  <2>1. found # 0
    BY <1>14
  <2>2. c < n /\ KeyAt(t, order, c) = key /\ found = order[c + 1]
    BY <1>10, <2>1
  <2>. QED BY <1>14, <2>2 DEF KeyAt
<1>. QED BY <1>12, <1>13, <1>14 DEF n, found

\* f's values, each made by G of the one before.
Iterates(G, a, n, f) ==
    /\ DOMAIN f = 0 .. n
    /\ f[0] = a
    /\ \A i \in 1 .. n : f[i] = G[<<f[i - 1], i>>]

LEMMA IterationExists ==
    ASSUME NEW S, NEW a \in S, NEW n \in Nat, NEW G \in [S \X (1 .. n) -> S]
    PROVE  \E f \in [0 .. n -> S] : Iterates(G, a, n, f)
<1>. DEFINE Good(m) == \E f \in [0 .. m -> S] : Iterates(G, a, m, f)
            T == {m \in 0 .. n : ~Good(m)}
<1>1. ASSUME T # {} PROVE FALSE
  <2>1. PICK m \in T : \A k \in T : m <= k
    <3>1. T \subseteq Nat
      OBVIOUS
    <3>. HIDE DEF T
    <3>. QED BY <1>1, <3>1, Least
  <2>2. m \in 0 .. n /\ ~Good(m)
    OBVIOUS
  <2>3. m # 0
    <3>. SUFFICES ASSUME m = 0 PROVE FALSE
      OBVIOUS
    <3>. DEFINE f == [i \in 0 .. 0 |-> a]
    <3>1. f \in [0 .. 0 -> S] /\ Iterates(G, a, 0, f)
      BY DEF Iterates
    <3>. QED BY <2>2, <3>1
  <2>4. m - 1 \in 0 .. n /\ m - 1 \notin T
    BY <2>1, <2>2, <2>3
  <2>5. Good(m - 1)
    BY <2>4
  <2>6. PICK g \in [0 .. m - 1 -> S] : Iterates(G, a, m - 1, g)
    BY <2>5
  <2>7. PICK x \in S : x = G[<<g[m - 1], m>>]
    <3>1. g[m - 1] \in S /\ m \in 1 .. n
      BY <2>2, <2>3, <2>4
    <3>. QED BY <3>1
  <2>. DEFINE f == [i \in 0 .. m |-> IF i = m THEN x ELSE g[i]]
  <2>8. /\ f \in [0 .. m -> S] /\ f[m] = x /\ f[0] = g[0]
        /\ \A i \in 0 .. m - 1 : f[i] = g[i]
    BY <2>2, <2>3
  <2>. HIDE DEF f
  <2>9. \A i \in 1 .. m : f[i] = G[<<f[i - 1], i>>]
    <3>. SUFFICES ASSUME NEW i \in 1 .. m PROVE f[i] = G[<<f[i - 1], i>>]
      OBVIOUS
    <3>1. CASE i = m
      <4>1. m - 1 \in 0 .. m - 1
        BY <2>2, <2>3
      <4>. QED BY <2>7, <2>8, <3>1, <4>1
    <3>2. CASE i # m
      <4>1. i \in 1 .. m - 1 /\ i \in 0 .. m - 1 /\ i - 1 \in 0 .. m - 1
        BY <2>2, <3>2
      <4>. QED BY <2>6, <2>8, <4>1 DEF Iterates
    <3>. QED BY <3>1, <3>2
  <2>10. Iterates(G, a, m, f)
    BY <2>6, <2>8, <2>9 DEF Iterates
  <2>. QED BY <2>2, <2>8, <2>10
<1>2. n \in 0 .. n
  OBVIOUS
<1>3. Good(n)
  BY <1>1, <1>2
<1>. QED BY <1>3

\* A name is a sequence of letters, and i is where a and b part, a the lesser.
LexAt(a, b, i) ==
    /\ i \in 1 .. Len(b) /\ i <= Len(a) + 1
    /\ i <= Len(a) => a[i] < b[i]
    /\ \A k \in 1 .. i - 1 : a[k] = b[k]

LEMMA FrontsAgree ==
    ASSUME NEW a \in Seq(Nat), NEW b \in Seq(Nat), NEW n \in Nat, n <= Len(a), n <= Len(b)
    PROVE  SubSeq(a, 1, n) = SubSeq(b, 1, n) <=> \A k \in 1 .. n : a[k] = b[k]
<1>. DEFINE u == SubSeq(a, 1, n)
            v == SubSeq(b, 1, n)
<1>0. \A k \in 1 .. n : a[k] \in Nat /\ b[k] \in Nat
  OBVIOUS
<1>00. n - 1 + 1 = n /\ 1 \in Int /\ n \in Int /\ (IF 1 <= n THEN n - 1 + 1 ELSE 0) = n /\ \A k \in 1 .. n : 1 + k - 1 = k
  OBVIOUS
<1>1. u \in Seq(Nat) /\ Len(u) = n /\ \A k \in 1 .. n : u[k] = a[k]
  BY <1>0, <1>00, SubSeqProperties
<1>2. v \in Seq(Nat) /\ Len(v) = n /\ \A k \in 1 .. n : v[k] = b[k]
  BY <1>0, <1>00, SubSeqProperties
<1>. HIDE DEF u, v
<1>3. u = v <=> \A k \in 1 .. n : u[k] = v[k]
  BY <1>1, <1>2
<1>4. u = v <=> \A k \in 1 .. n : a[k] = b[k]
  BY <1>1, <1>2, <1>3
<1>. QED BY <1>4 DEF u, v

LEMMA PrefixIs ==
    ASSUME NEW a \in Seq(Nat), NEW b \in Seq(Nat)
    PROVE  IsPrefix(a, b) <=> Len(a) <= Len(b) /\ \A k \in 1 .. Len(a) : a[k] = b[k]
<1>1. PICK n \in Nat : n = Len(a)
  OBVIOUS
<1>2. n <= Len(b) => (SubSeq(a, 1, n) = SubSeq(b, 1, n) <=> \A k \in 1 .. n : a[k] = b[k])
  BY <1>1, FrontsAgree
<1>. QED BY <1>1, <1>2 DEF IsPrefix

LEMMA LexIs ==
    ASSUME NEW a \in Seq(Nat), NEW b \in Seq(Nat)
    PROVE  LexLess(a, b) <=> \E i \in Nat : LexAt(a, b, i)
<1>1. Len(a) \in Nat /\ Len(b) \in Nat /\ DOMAIN a = 1 .. Len(a) /\ DOMAIN b = 1 .. Len(b)
  OBVIOUS
<1>2. ASSUME IsStrictPrefix(a, b) PROVE \E i \in Nat : LexAt(a, b, i)
  <2>1. Len(a) <= Len(b) /\ (\A k \in 1 .. Len(a) : a[k] = b[k]) /\ a # b
    BY <1>2, PrefixIs DEF IsStrictPrefix
  <2>2. Len(a) # Len(b)
    BY <2>1
  <2>3. LexAt(a, b, Len(a) + 1)
    <3>1. PICK n \in Nat : n = Len(a)
      BY <1>1
    <3>2. PICK m \in Nat : m = Len(b)
      BY <1>1
    <3>3. n + 1 \in 1 .. m /\ n + 1 <= n + 1 /\ ~(n + 1 <= n) /\ (n + 1) - 1 = n
      BY <2>1, <2>2, <3>1, <3>2
    <3>. QED BY <2>1, <3>1, <3>2, <3>3 DEF LexAt
  <2>. QED BY <1>1, <2>3
<1>3. ASSUME NEW i \in DOMAIN a \cap DOMAIN b, a[i] < b[i], SubSeq(a, 1, i - 1) = SubSeq(b, 1, i - 1)
      PROVE  \E j \in Nat : LexAt(a, b, j)
  <2>1. i \in 1 .. Len(a) /\ i \in 1 .. Len(b) /\ i - 1 \in Nat /\ i - 1 <= Len(a) /\ i - 1 <= Len(b)
    BY <1>1
  <2>2. \A k \in 1 .. i - 1 : a[k] = b[k]
    BY <1>3, <2>1, FrontsAgree
  <2>3. LexAt(a, b, i)
    BY <1>1, <1>3, <2>1, <2>2 DEF LexAt
  <2>. QED BY <2>1, <2>3
<1>4. ASSUME NEW i \in Nat, LexAt(a, b, i) PROVE LexLess(a, b)
  <2>1. /\ i \in 1 .. Len(b) /\ i <= Len(a) + 1
        /\ i <= Len(a) => a[i] < b[i]
        /\ \A k \in 1 .. i - 1 : a[k] = b[k]
    BY <1>4 DEF LexAt
  <2>2. CASE i <= Len(a)
    <3>1. i \in DOMAIN a \cap DOMAIN b /\ a[i] < b[i]
      BY <1>1, <2>1, <2>2
    <3>2. i - 1 \in Nat /\ i - 1 <= Len(a) /\ i - 1 <= Len(b)
      BY <1>1, <2>1, <2>2
    <3>3. SubSeq(a, 1, i - 1) = SubSeq(b, 1, i - 1)
      BY <2>1, <3>2, FrontsAgree
    <3>. QED BY <3>1, <3>3 DEF LexLess
  <2>3. CASE i = Len(a) + 1
    <3>1. Len(a) <= Len(b) /\ a # b /\ \A k \in 1 .. Len(a) : a[k] = b[k]
      BY <1>1, <2>1, <2>3
    <3>2. IsStrictPrefix(a, b)
      BY <3>1, PrefixIs DEF IsStrictPrefix
    <3>. QED BY <3>2 DEF LexLess
  <2>. QED BY <1>1, <2>1, <2>2, <2>3
<1>. QED BY <1>2, <1>3, <1>4 DEF LexLess

LEMMA LexIrreflexive == ASSUME NEW a \in Seq(Nat) PROVE ~LexLess(a, a)
<1>. SUFFICES ASSUME NEW i \in Nat, LexAt(a, a, i) PROVE FALSE
  BY LexIs
<1>1. i \in 1 .. Len(a) /\ a[i] < a[i] /\ a[i] \in Nat
  BY DEF LexAt
<1>. QED BY <1>1

LEMMA LexTransitive ==
    ASSUME NEW a \in Seq(Nat), NEW b \in Seq(Nat), NEW c \in Seq(Nat), LexLess(a, b), LexLess(b, c)
    PROVE  LexLess(a, c)
<1>1. PICK i \in Nat : LexAt(a, b, i)
  BY LexIs
<1>2. PICK j \in Nat : LexAt(b, c, j)
  BY LexIs
<1>3. /\ Len(a) \in Nat /\ Len(b) \in Nat /\ Len(c) \in Nat
      /\ \A k \in 1 .. Len(a) : a[k] \in Nat
      /\ \A k \in 1 .. Len(b) : b[k] \in Nat
      /\ \A k \in 1 .. Len(c) : c[k] \in Nat
  OBVIOUS
<1>4. CASE i < j
  <2>1. i \in 1 .. Len(c) /\ i <= Len(a) + 1 /\ i \in 1 .. j - 1
    BY <1>1, <1>2, <1>3, <1>4 DEF LexAt
  <2>2. b[i] = c[i]
    BY <1>2, <2>1 DEF LexAt
  <2>3. i <= Len(a) => a[i] < c[i]
    BY <1>1, <2>2 DEF LexAt
  <2>4. \A k \in 1 .. i - 1 : a[k] = b[k] /\ b[k] = c[k]
    <3>. SUFFICES ASSUME NEW k \in 1 .. i - 1 PROVE a[k] = b[k] /\ b[k] = c[k]
      OBVIOUS
    <3>1. k \in 1 .. j - 1
      BY <1>4
    <3>. QED BY <1>1, <1>2, <3>1 DEF LexAt
  <2>5. LexAt(a, c, i)
    BY <2>1, <2>3, <2>4 DEF LexAt
  <2>. QED BY <2>5, LexIs
<1>5. CASE i = j
  <2>1. i \in 1 .. Len(c) /\ i <= Len(a) + 1 /\ i \in 1 .. Len(b)
    BY <1>1, <1>2, <1>3, <1>5 DEF LexAt
  <2>2. b[i] < c[i]
    BY <1>2, <1>3, <1>5, <2>1 DEF LexAt
  <2>3. i <= Len(a) => a[i] < c[i]
    <3>. SUFFICES ASSUME i <= Len(a) PROVE a[i] < c[i]
      OBVIOUS
    <3>1. a[i] < b[i]
      BY <1>1 DEF LexAt
    <3>2. a[i] \in Nat /\ b[i] \in Nat /\ c[i] \in Nat
      BY <1>3, <2>1
    <3>. QED BY <2>2, <3>1, <3>2, SMTT(40)
  <2>4. \A k \in 1 .. i - 1 : a[k] = b[k] /\ b[k] = c[k]
    BY <1>1, <1>2, <1>5 DEF LexAt
  <2>5. LexAt(a, c, i)
    BY <2>1, <2>3, <2>4 DEF LexAt
  <2>. QED BY <2>5, LexIs
<1>6. CASE j < i
  <2>1. j \in 1 .. Len(c) /\ j <= Len(a) /\ j \in 1 .. Len(b) /\ j \in 1 .. i - 1
    BY <1>1, <1>2, <1>3, <1>6, SMTT(40) DEF LexAt
  <2>2. b[j] < c[j]
    BY <1>2, <1>3, <2>1 DEF LexAt
  <2>3. a[j] = b[j]
    BY <1>1, <2>1 DEF LexAt
  <2>4. \A k \in 1 .. j - 1 : a[k] = b[k] /\ b[k] = c[k]
    <3>. SUFFICES ASSUME NEW k \in 1 .. j - 1 PROVE a[k] = b[k] /\ b[k] = c[k]
      OBVIOUS
    <3>1. k \in 1 .. i - 1
      BY <1>6
    <3>. QED BY <1>1, <1>2, <3>1 DEF LexAt
  <2>5. LexAt(a, c, j)
    BY <1>3, <2>1, <2>2, <2>3, <2>4, SMTT(40) DEF LexAt
  <2>. QED BY <2>5, LexIs
<1>. QED BY <1>4, <1>5, <1>6

LEMMA LexTotal ==
    ASSUME NEW a \in Seq(Nat), NEW b \in Seq(Nat), a # b
    PROVE  LexLess(a, b) \/ LexLess(b, a)
<1>. DEFINE T == {i \in Nat : i # 0 /\ (i > Len(a) \/ i > Len(b) \/ a[i] # b[i])}
<1>1. /\ Len(a) \in Nat /\ Len(b) \in Nat
      /\ \A k \in 1 .. Len(a) : a[k] \in Nat
      /\ \A k \in 1 .. Len(b) : b[k] \in Nat
  OBVIOUS
<1>2. PICK i \in T : \A m \in T : i <= m
  <2>1. T \subseteq Nat /\ Len(a) + 1 \in T
    BY <1>1
  <2>. HIDE DEF T
  <2>. QED BY <2>1, Least
<1>3. i \in Nat /\ i # 0 /\ (i > Len(a) \/ i > Len(b) \/ a[i] # b[i])
  OBVIOUS
<1>4. \A k \in 1 .. i - 1 : k <= Len(a) /\ k <= Len(b) /\ a[k] = b[k]
  <2>. SUFFICES ASSUME NEW k \in 1 .. i - 1 PROVE k <= Len(a) /\ k <= Len(b) /\ a[k] = b[k]
    OBVIOUS
  <2>1. k \in Nat /\ k # 0 /\ ~(i <= k)
    BY <1>3
  <2>2. k \notin T
    <3>. HIDE DEF T
    <3>. QED BY <1>2, <2>1
  <2>. QED BY <1>1, <2>1, <2>2
<1>5. i <= Len(a) + 1 /\ i <= Len(b) + 1
  <2>1. CASE i = 1
    BY <1>1, <2>1
  <2>2. CASE i # 1
    <3>1. i - 1 \in 1 .. i - 1
      BY <1>3, <2>2
    <3>2. i - 1 <= Len(a) /\ i - 1 <= Len(b)
      BY <1>4, <3>1
    <3>. QED BY <1>1, <1>3, <3>2
  <2>. QED BY <2>1, <2>2
<1>6. ~(i > Len(a) /\ i > Len(b))
  <2>. SUFFICES ASSUME i > Len(a), i > Len(b) PROVE FALSE
    OBVIOUS
  <2>1. Len(a) = i - 1 /\ Len(b) = i - 1
    BY <1>1, <1>3, <1>5
  <2>2. \A k \in 1 .. Len(a) : a[k] = b[k]
    BY <1>4, <2>1
  <2>. QED BY <2>1, <2>2
<1>7. LexAt(a, b, i) \/ LexAt(b, a, i)
  <2>1. CASE i > Len(a)
    BY <1>1, <1>3, <1>4, <1>5, <1>6, <2>1 DEF LexAt
  <2>2. CASE i > Len(b)
    BY <1>1, <1>3, <1>4, <1>5, <1>6, <2>2 DEF LexAt
  <2>3. CASE ~(i > Len(a)) /\ ~(i > Len(b))
    <3>1. i \in 1 .. Len(a) /\ i \in 1 .. Len(b) /\ a[i] # b[i]
      BY <1>1, <1>3, <2>3
    <3>2. a[i] < b[i] \/ b[i] < a[i]
      BY <1>1, <3>1
    <3>. QED BY <1>1, <1>4, <1>5, <3>1, <3>2 DEF LexAt
  <2>. QED BY <2>1, <2>2, <2>3
<1>. QED BY <1>3, <1>7, LexIs

\* What has the prefix does not come before it.
LEMMA PrefixIsFirst ==
    ASSUME NEW p \in Seq(Nat), NEW n \in Seq(Nat), IsPrefix(p, n)
    PROVE  ~LexLess(n, p)
<1>. SUFFICES ASSUME NEW i \in Nat, LexAt(n, p, i) PROVE FALSE
  BY LexIs
<1>1. Len(p) <= Len(n) /\ \A k \in 1 .. Len(p) : p[k] = n[k]
  BY PrefixIs
<1>2. Len(p) \in Nat /\ Len(n) \in Nat /\ \A k \in 1 .. Len(p) : p[k] \in Nat
  OBVIOUS
<1>3. i \in 1 .. Len(p) /\ i <= Len(n)
  BY <1>1, <1>2 DEF LexAt
<1>4. n[i] < p[i] /\ p[i] = n[i] /\ p[i] \in Nat
  BY <1>1, <1>2, <1>3 DEF LexAt
<1>. QED BY <1>4

\* What comes between the prefix and what has it has it.
LEMMA PrefixesAreTogether ==
    ASSUME NEW p \in Seq(Nat), NEW x \in Seq(Nat), NEW n \in Seq(Nat),
           ~LexLess(x, p), LexLess(x, n), IsPrefix(p, n)
    PROVE  IsPrefix(p, x)
<1>1. CASE x = p
  BY <1>1, PrefixIs
<1>2. CASE x # p
  <2>1. PICK i \in Nat : LexAt(p, x, i)
    BY <1>2, LexTotal, LexIs
  <2>2. /\ Len(p) \in Nat /\ Len(x) \in Nat /\ Len(n) \in Nat
        /\ Len(p) <= Len(n) /\ \A k \in 1 .. Len(p) : p[k] = n[k]
    BY PrefixIs
  <2>3. i = Len(p) + 1
    <3>. SUFFICES ASSUME i # Len(p) + 1 PROVE FALSE
      OBVIOUS
    <3>1. i \in 1 .. Len(p) /\ i \in 1 .. Len(x) /\ i \in 1 .. Len(n)
      BY <2>1, <2>2, SMTT(40) DEF LexAt
    <3>2. n[i] < x[i]
      BY <2>1, <2>2, <3>1 DEF LexAt
    <3>3. \A k \in 1 .. i - 1 : n[k] = x[k]
      BY <2>1, <2>2, <3>1 DEF LexAt
    <3>4. LexAt(n, x, i)
      BY <2>2, <3>1, <3>2, <3>3 DEF LexAt
    <3>5. LexLess(n, x)
      BY <3>4, LexIs
    <3>. QED BY <3>5, LexTransitive, LexIrreflexive
  <2>4. Len(p) <= Len(x) /\ \A k \in 1 .. Len(p) : p[k] = x[k]
    BY <2>1, <2>2, <2>3 DEF LexAt
  <2>. QED BY <2>4, PrefixIs
<1>. QED BY <1>1, <1>2

\* The commands' names are their own, and the index has them in their order.
CmdOrder(cs) == {e \in (DOMAIN cs) \X (DOMAIN cs) : LexLess(cs[e[1]], cs[e[2]])}
CommandsOK ==
    /\ cmds \in Seq(Names)
    /\ \A i, j \in DOMAIN cmds : cmds[i] = cmds[j] => i = j
    /\ Orders(CmdOrder(cmds), Len(cmds), cmd_sorted)

LEMMA InCmdOrder ==
    ASSUME NEW cs, NEW i \in DOMAIN cs, NEW j \in DOMAIN cs
    PROVE  <<i, j>> \in CmdOrder(cs) <=> LexLess(cs[i], cs[j])
<1>. DEFINE D == DOMAIN cs
<1>1. i \in D /\ j \in D /\ CmdOrder(cs) = {e \in D \X D : LexLess(cs[e[1]], cs[e[2]])}
  BY DEF CmdOrder
<1>. HIDE DEF D
<1>2. <<i, j>> \in D \X D /\ <<i, j>>[1] = i /\ <<i, j>>[2] = j
  BY <1>1
<1>. QED BY <1>1, <1>2

LEMMA NamesAreWords ==
    ASSUME NEW cs \in Seq(Names)
    PROVE  Len(cs) \in Nat /\ DOMAIN cs = 1 .. Len(cs) /\ \A i \in 1 .. Len(cs) : cs[i] \in Names /\ cs[i] \in Seq(Nat)
<1>1. \A i \in 1 .. Len(cs) : cs[i] \in Names
  OBVIOUS
<1>. QED BY <1>1, ConsoleAssumption DEF ConsoleAssumption

LEMMA NamesOrder ==
    ASSUME NEW cs \in Seq(Names), \A i, j \in DOMAIN cs : cs[i] = cs[j] => i = j
    PROVE  IsOrder(CmdOrder(cs), Len(cs))
<1>1. /\ Len(cs) \in Nat
      /\ \A i \in 1 .. Len(cs) : cs[i] \in Seq(Nat)
      /\ \A i, j \in 1 .. Len(cs) : <<i, j>> \in CmdOrder(cs) <=> LexLess(cs[i], cs[j])
      /\ \A i, j \in 1 .. Len(cs) : cs[i] = cs[j] => i = j
  BY NamesAreWords, InCmdOrder
<1>2. ASSUME NEW i \in 1 .. Len(cs), NEW j \in 1 .. Len(cs), i # j
      PROVE  <<i, j>> \in CmdOrder(cs) \/ <<j, i>> \in CmdOrder(cs)
  BY <1>1, <1>2, LexTotal
<1>3. ASSUME NEW i \in 1 .. Len(cs), NEW j \in 1 .. Len(cs), NEW k \in 1 .. Len(cs),
             <<i, j>> \in CmdOrder(cs), <<j, k>> \in CmdOrder(cs)
      PROVE  <<i, k>> \in CmdOrder(cs)
  <2>1. LexLess(cs[i], cs[j]) /\ LexLess(cs[j], cs[k])
    BY <1>1, <1>3
  <2>2. LexLess(cs[i], cs[k])
    BY <1>1, <2>1, LexTransitive
  <2>. QED BY <1>1, <2>2
<1>4. \A i \in 1 .. Len(cs) : <<i, i>> \notin CmdOrder(cs)
  BY <1>1, LexIrreflexive
<1>. QED BY <1>2, <1>3, <1>4 DEF IsOrder

\* The command at a place of the index.
At(p) == cmds[cmd_sorted[p]]

LEMMA CommandsAre ==
    ASSUME CommandsOK
    PROVE  \E n \in Nat :
               /\ Len(cmd_sorted) = n /\ DOMAIN cmd_sorted = 1 .. n
               /\ \A p \in 1 .. n : At(p) \in Seq(Nat) /\ At(p) \in Names /\ At(p) \in Range(cmds)
               /\ \A p, q \in 1 .. n : p < q => LexLess(At(p), At(q))
               /\ \A name \in Range(cmds) : \E p \in 1 .. n : name = At(p)
<1>1. cmds \in Seq(Names) /\ Orders(CmdOrder(cmds), Len(cmds), cmd_sorted)
  BY DEF CommandsOK
<1>2. PICK n \in Nat : n = Len(cmds)
  BY <1>1
<1>3. /\ n = Len(cmd_sorted) /\ DOMAIN cmd_sorted = 1 .. n
      /\ \A p \in 1 .. n : cmd_sorted[p] \in 1 .. n
      /\ \A p, q \in 1 .. n : p < q => <<cmd_sorted[p], cmd_sorted[q]>> \in CmdOrder(cmds)
      /\ \A i \in 1 .. n : \E p \in 1 .. n : cmd_sorted[p] = i
  <2>1. Orders(CmdOrder(cmds), n, cmd_sorted)
    BY <1>1, <1>2
  <2>2. Listed(CmdOrder(cmds), n, cmd_sorted)
    BY <2>1, OrdersAre
  <2>. QED BY <2>2 DEF Listed
<1>4. DOMAIN cmds = 1 .. n /\ \A i \in 1 .. n : cmds[i] \in Names /\ cmds[i] \in Seq(Nat)
  BY <1>1, <1>2, NamesAreWords
<1>5. \A p \in 1 .. n : At(p) \in Seq(Nat) /\ At(p) \in Names /\ At(p) \in Range(cmds)
  BY <1>3, <1>4 DEF At, Range
<1>6. \A p, q \in 1 .. n : p < q => LexLess(At(p), At(q))
  BY <1>3, <1>4, InCmdOrder DEF At
<1>7. \A name \in Range(cmds) : \E p \in 1 .. n : name = At(p)
  BY <1>3, <1>4 DEF At, Range
<1>. QED BY <1>3, <1>5, <1>6, <1>7

LEMMA LowerBoundCuts ==
    ASSUME CommandsOK, NEW prefix \in Seq(Nat), NEW n \in Nat, n = Len(cmd_sorted)
    PROVE  /\ LowerBound(prefix) \in 0 .. n
           /\ \A i \in 0 .. n - 1 : LexLess(At(i + 1), prefix) <=> i < LowerBound(prefix)
<1>1. /\ \A p \in 1 .. n : At(p) \in Seq(Nat)
      /\ \A p, q \in 1 .. n : p < q => LexLess(At(p), At(q))
  BY CommandsAre
<1>2. \A i : i \in Before(prefix) <=> i \in 0 .. n - 1 /\ LexLess(At(i + 1), prefix)
  BY DEF Before, At
<1>3. \A i, j \in 0 .. n - 1 : i < j /\ j \in Before(prefix) => i \in Before(prefix)
  <2>. SUFFICES ASSUME NEW i \in 0 .. n - 1, NEW j \in 0 .. n - 1, i < j, j \in Before(prefix)
                PROVE  i \in Before(prefix)
    OBVIOUS
  <2>1. i + 1 \in 1 .. n /\ j + 1 \in 1 .. n /\ i + 1 < j + 1
    OBVIOUS
  <2>2. LexLess(At(i + 1), At(j + 1)) /\ LexLess(At(j + 1), prefix)
    BY <1>1, <1>2, <2>1
  <2>3. LexLess(At(i + 1), prefix)
    BY <1>1, <2>1, <2>2, LexTransitive
  <2>. QED BY <1>2, <2>3
<1>4. PICK c \in 0 .. n : \A i \in 0 .. n - 1 : i \in Before(prefix) <=> i < c
  <2>1. \E c \in 0 .. n : Cuts(n, Before(prefix), c)
    BY <1>3, CutExists
  <2>. QED BY <2>1 DEF Cuts
<1>5. LowerBound(prefix) = (CHOOSE f : IsSearch(n, Before(prefix), f))[<<0, n>>]
  BY DEF LowerBound, IsSearch
<1>6. (CHOOSE f : IsSearch(n, Before(prefix), f))[<<0, n>>] = c
  BY <1>4, SearchFinds
<1>7. LowerBound(prefix) = c
  BY <1>5, <1>6
<1>. QED BY <1>2, <1>4, <1>7

\* console_find finds a name if and only if it was registered.
LEMMA ConsoleFindTells ==
    ASSUME CommandsOK, NEW name \in Seq(Nat)
    PROVE  ConsoleFind(name) <=> name \in Range(cmds)
<1>1. PICK n \in Nat :
          /\ Len(cmd_sorted) = n /\ DOMAIN cmd_sorted = 1 .. n
          /\ \A p \in 1 .. n : At(p) \in Seq(Nat) /\ At(p) \in Names /\ At(p) \in Range(cmds)
          /\ \A p, q \in 1 .. n : p < q => LexLess(At(p), At(q))
          /\ \A x \in Range(cmds) : \E p \in 1 .. n : x = At(p)
  BY CommandsAre
<1>2. PICK c \in 0 .. n : c = LowerBound(name)
  BY <1>1, LowerBoundCuts
<1>3. \A i \in 0 .. n - 1 : LexLess(At(i + 1), name) <=> i < c
  BY <1>1, <1>2, LowerBoundCuts
<1>4. ConsoleFind(name) <=> c + 1 \in 1 .. n /\ At(c + 1) = name
  BY <1>1, <1>2 DEF ConsoleFind, At
<1>5. ASSUME name \in Range(cmds) PROVE c + 1 \in 1 .. n /\ At(c + 1) = name
  <2>1. PICK p \in 1 .. n : name = At(p)
    BY <1>1, <1>5
  <2>2. PICK k \in 0 .. n - 1 : p = k + 1
    <3>1. p - 1 \in 0 .. n - 1 /\ p = (p - 1) + 1
      OBVIOUS
    <3>. QED BY <3>1
  <2>3. ~(k < c)
    BY <1>3, <2>1, <2>2, LexIrreflexive
  <2>4. k = c
    <3>. SUFFICES ASSUME c < k PROVE FALSE
      BY <2>3
    <3>1. c \in 0 .. n - 1 /\ c + 1 \in 1 .. n /\ c + 1 < p
      BY <2>2
    <3>2. LexLess(At(c + 1), name) /\ ~(c < c)
      BY <1>1, <2>1, <3>1
    <3>. QED BY <1>3, <3>1, <3>2
  <2>. QED BY <2>1, <2>2, <2>4
<1>. QED BY <1>1, <1>4, <1>5

LEMMA Headed ==
    ASSUME NEW S, NEW x \in S, NEW s \in Seq(S), NEW r \in Seq(S), NEW n \in Nat, Len(s) = n, Len(r) = n + 1,
           r[1] = x, \A k \in 1 .. n : r[k + 1] = s[k]
    PROVE  <<x>> \o s = r
<1>. DEFINE q == <<x>> \o s
<1>1. q \in Seq(S) /\ Len(q) = n + 1 /\ q[1] = x /\ \A k \in 1 .. n : q[k + 1] = s[k]
  OBVIOUS
<1>. HIDE DEF q
<1>2. \A k \in 1 .. n + 1 : q[k] = r[k]
  <2>. SUFFICES ASSUME NEW k \in 1 .. n + 1 PROVE q[k] = r[k]
    OBVIOUS
  <2>1. CASE k = 1
    BY <1>1, <2>1
  <2>2. CASE k # 1
    <3>1. k - 1 \in 1 .. n /\ (k - 1) + 1 = k
      BY <2>2
    <3>. QED BY <1>1, <3>1
  <2>. QED BY <2>1, <2>2
<1>3. q = r
  BY <1>1, <1>2
<1>. QED BY <1>3 DEF q

\* The walk of console_complete: on, while there is place and the prefix matches.
Goes(prefix, at, i) == i < Shown /\ at + i + 1 \in DOMAIN cmd_sorted /\ IsPrefix(prefix, At(at + i + 1))
IsRun(prefix, at, f) ==
    f = [i \in 0 .. Len(cmd_sorted) - at |->
            IF Goes(prefix, at, i) THEN <<At(at + i + 1)>> \o f[i + 1] ELSE <<>>]
\* What it shows, if it stops after m.
ShownFrom(at, m) == [k \in 1 .. m |-> At(at + k)]

LEMMA ShownIs ==
    ASSUME CommandsOK, NEW n \in Nat, n = Len(cmd_sorted), NEW at \in Nat, NEW m \in Nat, at + m <= n
    PROVE  /\ ShownFrom(at, m) \in Seq(Names) /\ Len(ShownFrom(at, m)) = m /\ DOMAIN ShownFrom(at, m) = 1 .. m
           /\ \A k \in 1 .. m : ShownFrom(at, m)[k] = At(at + k)
<1>1. \A p \in 1 .. n : At(p) \in Names
  BY CommandsAre
<1>2. \A k \in 1 .. m : at + k \in 1 .. n
  OBVIOUS
<1>3. \A k \in 1 .. m : At(at + k) \in Names
  BY <1>1, <1>2
<1>. QED BY <1>3 DEF ShownFrom

LEMMA NoneShown == ASSUME NEW at PROVE ShownFrom(at, 0) = <<>>
BY DEF ShownFrom

LEMMA CompleteIs ==
    ASSUME NEW prefix
    PROVE  Complete(prefix) = IF LowerBound(prefix) = Len(cmd_sorted) THEN <<>>
                              ELSE (CHOOSE f : IsRun(prefix, LowerBound(prefix), f))[0]
BY DEF Complete, IsRun, Goes, At

LEMMA RunShows ==
    ASSUME CommandsOK, NEW prefix, NEW n \in Nat, n = Len(cmd_sorted), NEW at \in 0 .. n
    PROVE  \E m \in 0 .. n - at :
               /\ (CHOOSE f : IsRun(prefix, at, f))[0] = ShownFrom(at, m)
               /\ ~Goes(prefix, at, m)
               /\ \A i \in 0 .. m - 1 : Goes(prefix, at, i)
<1>. DEFINE w == n - at
            Go(i) == Goes(prefix, at, i)
            Stops(i, j) == ~Go(j) /\ \A k \in i .. j - 1 : Go(k)
            last == [i \in 0 .. w |-> CHOOSE j \in i .. w : Stops(i, j)]
            g == [i \in 0 .. w |-> ShownFrom(at + i, last[i] - i)]
            f == CHOOSE f : IsRun(prefix, at, f)
<1>1. /\ DOMAIN cmd_sorted = 1 .. n
      /\ \A p \in 1 .. n : At(p) \in Names
  BY CommandsAre
<1>2. w \in Nat /\ ~Go(w)
  BY <1>1 DEF Goes
<1>20. n - at = w
  OBVIOUS
<1>21. \A i \in 0 .. w : Go(i) => at + i + 1 \in 1 .. n /\ i + 1 \in 0 .. w
  BY <1>1, <1>2 DEF Goes
<1>. HIDE DEF w, Go
<1>3. ASSUME NEW i \in 0 .. w PROVE \E j \in i .. w : Stops(i, j)
  <2>. DEFINE T == {j \in i .. w : ~Go(j)}
  <2>1. PICK j \in T : \A k \in T : j <= k
    <3>1. T \subseteq Nat /\ w \in T
      BY <1>2
    <3>. HIDE DEF T
    <3>. QED BY <3>1, Least
  <2>2. j \in i .. w /\ ~Go(j)
    OBVIOUS
  <2>3. ASSUME NEW k \in i .. j - 1 PROVE Go(k)
    <3>1. k \in i .. w /\ ~(j <= k)
      BY <1>2, <2>2
    <3>2. k \notin T
      <4>. HIDE DEF T
      <4>. QED BY <2>1, <3>1
    <3>. QED BY <3>1, <3>2
  <2>. QED BY <2>2, <2>3
<1>4. ASSUME NEW i \in 0 .. w
      PROVE  last[i] \in i .. w /\ ~Go(last[i]) /\ \A k \in i .. last[i] - 1 : Go(k)
  BY <1>3
<1>. HIDE DEF Last, last
<1>5. ASSUME NEW i \in 0 .. w PROVE g[i] = IF Go(i) THEN <<At(at + i + 1)>> \o g[i + 1] ELSE <<>>
  <2>1. PICK j \in i .. w : j = last[i]
    BY <1>4
  <2>2. CASE ~Go(i)
    <3>1. j = i
      <4>. SUFFICES ASSUME i < j PROVE FALSE
        BY <1>2, <2>1
      <4>1. i \in i .. last[i] - 1
        BY <1>2, <2>1
      <4>. QED BY <1>4, <2>2, <4>1
    <3>2. g[i] = ShownFrom(at + i, j - i)
      BY <2>1
    <3>3. j - i = 0
      BY <1>2, <3>1
    <3>4. g[i] = <<>>
      <4>. HIDE DEF g
      <4>. QED BY <3>2, <3>3, NoneShown
    <3>. HIDE DEF g
    <3>. QED BY <2>2, <3>4
  <2>3. CASE Go(i)
    <3>1. i + 1 \in 0 .. w /\ at + i + 1 \in 1 .. n
      BY <1>21, <2>3
    <3>2. PICK h \in i + 1 .. w : h = last[i + 1]
      BY <1>4, <3>1
    <3>3. j # i
      BY <1>4, <2>1, <2>3
    <3>4. j = h
      <4>1. ASSUME j < h PROVE FALSE
        <5>1. j \in i + 1 .. last[i + 1] - 1
          BY <1>2, <2>1, <3>2, <3>3, <4>1
        <5>2. Go(j)
          BY <1>4, <3>1, <5>1
        <5>. QED BY <1>4, <2>1, <5>2
      <4>2. ASSUME h < j PROVE FALSE
        <5>1. h \in i .. last[i] - 1
          BY <1>2, <2>1, <3>2, <4>2
        <5>2. Go(h)
          BY <1>4, <5>1
        <5>. QED BY <1>4, <3>1, <3>2, <5>2
      <4>. QED BY <1>2, <2>1, <3>2, <4>1, <4>2
    <3>5. g[i] = ShownFrom(at + i, j - i) /\ g[i + 1] = ShownFrom(at + (i + 1), j - (i + 1))
      BY <2>1, <3>1, <3>2, <3>4
    <3>6. PICK d \in Nat : d = j - (i + 1)
      BY <1>2, <2>1, <3>3
    <3>7. j - i = d + 1
      BY <1>2, <2>1, <3>6, SMTT(40)
    <3>. DEFINE r == ShownFrom(at + i, d + 1)
                s == ShownFrom(at + (i + 1), d)
                x == At(at + i + 1)
    <3>8. at + i \in Nat /\ at + (i + 1) \in Nat /\ (at + i) + (d + 1) <= n /\ (at + (i + 1)) + d <= n
      BY <1>2, <1>20, <2>1, <3>6
    <3>9. s \in Seq(Names) /\ Len(s) = d /\ \A k \in 1 .. d : s[k] = At(at + (i + 1) + k)
      BY <3>8, ShownIs, SMTT(40)
    <3>10. r \in Seq(Names) /\ Len(r) = d + 1 /\ \A k \in 1 .. d + 1 : r[k] = At(at + i + k)
      <4>1. d + 1 \in Nat
        OBVIOUS
      <4>. QED BY <3>8, <4>1, ShownIs
    <3>11. r[1] = x
      BY <3>10
    <3>12. \A k \in 1 .. d : r[k + 1] = s[k]
      <4>. SUFFICES ASSUME NEW k \in 1 .. d PROVE r[k + 1] = s[k]
        OBVIOUS
      <4>1. k + 1 \in 1 .. d + 1 /\ at + i + (k + 1) = at + (i + 1) + k
        BY <1>2
      <4>. HIDE DEF r, s
      <4>. QED BY <3>9, <3>10, <4>1
    <3>13. x \in Names
      BY <1>1, <3>1
    <3>. HIDE DEF r, s, x
    <3>14. <<x>> \o s = r
      BY <3>9, <3>10, <3>11, <3>12, <3>13, Headed
    <3>15. g[i] = r /\ g[i + 1] = s
      BY <3>5, <3>6, <3>7 DEF r, s
    <3>. HIDE DEF g
    <3>. QED BY <2>3, <3>14, <3>15 DEF x
  <2>. QED BY <2>2, <2>3
<1>6. IsRun(prefix, at, g)
  <2>1. g = [i \in 0 .. w |-> g[i]]
    OBVIOUS
  <2>. HIDE DEF g
  <2>2. g = [i \in 0 .. w |-> IF Go(i) THEN <<At(at + i + 1)>> \o g[i + 1] ELSE <<>>]
    BY <1>5, <2>1
  <2>. QED BY <2>2 DEF IsRun, w, Go
<1>7. IsRun(prefix, at, f)
  BY <1>6
<1>70. \A i \in 0 .. w : g[i] = ShownFrom(at + i, last[i] - i)
  OBVIOUS
<1>. HIDE DEF f, g
<1>8. \A i \in 0 .. w : f[i] = IF Go(i) THEN <<At(at + i + 1)>> \o f[i + 1] ELSE <<>>
  BY <1>7 DEF IsRun, w, Go
<1>. DEFINE T == {d \in 0 .. w : f[w - d] # g[w - d]}
<1>9. T = {}
  <2>. SUFFICES ASSUME T # {} PROVE FALSE
    OBVIOUS
  <2>1. PICK d \in T : \A e \in T : d <= e
    <3>1. T \subseteq Nat
      BY <1>2
    <3>. HIDE DEF T
    <3>. QED BY <3>1, Least
  <2>2. PICK i \in 0 .. w : i = w - d
    BY <1>2, <2>1
  <2>3. d \in 0 .. w /\ f[i] # g[i]
    BY <2>1, <2>2
  <2>4. Go(i)
    BY <1>5, <1>8, <2>3
  <2>5. i + 1 \in 0 .. w
    BY <1>21, <2>4
  <2>6. d - 1 \in 0 .. w /\ w - (d - 1) = i + 1 /\ ~(d <= d - 1)
    BY <1>2, <2>2, <2>3, <2>5
  <2>7. d - 1 \notin T
    <3>. HIDE DEF T
    <3>. QED BY <2>1, <2>6
  <2>8. f[i + 1] = g[i + 1]
    BY <2>6, <2>7
  <2>. QED BY <1>5, <1>8, <2>3, <2>8
<1>10. w \in 0 .. w /\ w - w = 0 /\ 0 \in 0 .. w
  BY <1>2
<1>11. f[0] = g[0]
  <2>1. w \notin T
    <3>. HIDE DEF T
    <3>. QED BY <1>9
  <2>. QED BY <1>10, <2>1
<1>12. PICK m \in 0 .. w : m = last[0]
  BY <1>4, <1>10
<1>13. f[0] = ShownFrom(at, m)
  <2>1. g[0] = ShownFrom(at + 0, m - 0)
    BY <1>10, <1>12, <1>70
  <2>2. m - 0 = m /\ at + 0 = at
    BY <1>2
  <2>. QED BY <1>11, <2>1, <2>2
<1>14. ~Go(m) /\ \A i \in 0 .. m - 1 : Go(i)
  BY <1>4, <1>10, <1>12
<1>. QED BY <1>13, <1>14 DEF w, Go, f

\* console_complete shows the first commands of a prefix, in their order.
LEMMA CompleteTells ==
    ASSUME CommandsOK, NEW prefix \in Seq(Nat)
    PROVE  /\ Len(Complete(prefix)) <= Shown
           /\ \A i \in DOMAIN Complete(prefix) :
                  Complete(prefix)[i] \in Range(cmds) /\ IsPrefix(prefix, Complete(prefix)[i])
           /\ \A i, j \in DOMAIN Complete(prefix) : i < j => LexLess(Complete(prefix)[i], Complete(prefix)[j])
           /\ \A name \in Range(cmds) \ Range(Complete(prefix)) : IsPrefix(prefix, name) =>
                  /\ Len(Complete(prefix)) = Shown
                  /\ \A i \in DOMAIN Complete(prefix) : LexLess(Complete(prefix)[i], name)
<1>1. PICK n \in Nat :
          /\ Len(cmd_sorted) = n /\ DOMAIN cmd_sorted = 1 .. n
          /\ \A p \in 1 .. n : At(p) \in Seq(Nat) /\ At(p) \in Names /\ At(p) \in Range(cmds)
          /\ \A p, q \in 1 .. n : p < q => LexLess(At(p), At(q))
          /\ \A x \in Range(cmds) : \E p \in 1 .. n : x = At(p)
  BY CommandsAre
<1>2. PICK c \in 0 .. n : c = LowerBound(prefix)
  BY <1>1, LowerBoundCuts
<1>3. \A i \in 0 .. n - 1 : LexLess(At(i + 1), prefix) <=> i < c
  BY <1>1, <1>2, LowerBoundCuts
<1>4. PICK m \in 0 .. n - c :
          /\ (CHOOSE f : IsRun(prefix, c, f))[0] = ShownFrom(c, m)
          /\ ~Goes(prefix, c, m)
          /\ \A i \in 0 .. m - 1 : Goes(prefix, c, i)
  BY <1>1, RunShows
<1>5. Complete(prefix) = ShownFrom(c, m)
  <2>1. CASE c = n
    <3>1. m = 0 /\ 1 .. m = {}
      BY <1>1, <2>1
    <3>2. ShownFrom(c, m) = <<>>
      BY <3>1 DEF ShownFrom
    <3>. QED BY <1>1, <1>2, <2>1, <3>2, CompleteIs
  <2>2. CASE c # n
    BY <1>1, <1>2, <1>4, <2>2, CompleteIs
  <2>. QED BY <2>1, <2>2
<1>. DEFINE shown == ShownFrom(c, m)
<1>6. /\ m \in Nat /\ c \in Nat /\ c + m <= n
      /\ \A k \in 1 .. m : c + k \in 1 .. n
  BY <1>1
<1>7. shown \in Seq(Names) /\ Len(shown) = m /\ DOMAIN shown = 1 .. m /\ \A k \in 1 .. m : shown[k] = At(c + k)
  BY <1>1, <1>6 DEF ShownFrom
<1>. HIDE DEF shown
<1>8. Shown \in Nat
  BY ConsoleAssumption DEF ConsoleAssumption
<1>9. \A k \in 1 .. m : k <= Shown /\ IsPrefix(prefix, At(c + k))
  <2>. SUFFICES ASSUME NEW k \in 1 .. m PROVE k <= Shown /\ IsPrefix(prefix, At(c + k))
    OBVIOUS
  <2>1. PICK i \in 0 .. m - 1 : k = i + 1
    <3>1. k - 1 \in 0 .. m - 1 /\ k = (k - 1) + 1
      BY <1>6
    <3>. QED BY <3>1
  <2>2. Goes(prefix, c, i) /\ c + i + 1 = c + k
    BY <1>4, <1>6, <2>1
  <2>. QED BY <1>6, <1>8, <2>1, <2>2 DEF Goes
<1>10. m <= Shown
  <2>1. CASE m = 0
    BY <1>8, <2>1
  <2>2. CASE m # 0
    <3>1. m \in 1 .. m
      BY <1>6, <2>2
    <3>. QED BY <1>9, <3>1
  <2>. QED BY <2>1, <2>2
<1>11. ASSUME NEW i \in 1 .. m, NEW j \in 1 .. m, i < j PROVE LexLess(shown[i], shown[j])
  <2>1. c + i \in 1 .. n /\ c + j \in 1 .. n /\ c + i < c + j
    BY <1>6, <1>11
  <2>. QED BY <1>1, <1>7, <2>1
<1>12. ASSUME NEW name \in Range(cmds) \ Range(shown), IsPrefix(prefix, name)
       PROVE  m = Shown /\ \A i \in 1 .. m : LexLess(shown[i], name)
  <2>1. PICK p \in 1 .. n : name = At(p)
    BY <1>1, <1>12
  <2>2. PICK k \in 0 .. n - 1 : p = k + 1
    <3>1. p - 1 \in 0 .. n - 1 /\ p = (p - 1) + 1
      BY <1>1
    <3>. QED BY <3>1
  <2>3. ~LexLess(name, prefix)
    BY <1>1, <1>12, <2>1, PrefixIsFirst
  <2>4. c < p
    BY <1>1, <1>3, <2>1, <2>2, <2>3
  <2>5. c + m < p
    <3>. SUFFICES ASSUME p <= c + m PROVE FALSE
      BY <1>6
    <3>1. p - c \in 1 .. m /\ c + (p - c) = p
      BY <1>6, <2>4
    <3>2. shown[p - c] = name
      BY <1>7, <2>1, <3>1
    <3>3. name \in Range(shown)
      BY <1>7, <3>1, <3>2 DEF Range
    <3>. QED BY <1>12, <3>3
  <2>6. \A i \in 1 .. m : LexLess(shown[i], name)
    <3>. SUFFICES ASSUME NEW i \in 1 .. m PROVE LexLess(shown[i], name)
      OBVIOUS
    <3>1. c + i \in 1 .. n /\ c + i < p
      BY <1>6, <2>5
    <3>. QED BY <1>1, <1>7, <2>1, <3>1
  <2>7. c + m + 1 \in 1 .. n /\ c + m + 1 <= p /\ c + m \in 0 .. n - 1
    BY <1>6, <2>1, <2>5
  <2>8. IsPrefix(prefix, At(c + m + 1))
    <3>1. CASE c + m + 1 = p
      BY <1>12, <2>1, <3>1
    <3>2. CASE c + m + 1 # p
      <4>1. LexLess(At(c + m + 1), name)
        BY <1>1, <2>1, <2>7, <3>2
      <4>2. ~LexLess(At(c + m + 1), prefix)
        <5>1. ~(c + m < c)
          BY <1>6
        <5>. QED BY <1>3, <2>7, <5>1
      <4>3. At(c + m + 1) \in Seq(Nat) /\ name \in Seq(Nat)
        BY <1>1, <2>1, <2>7
      <4>. QED BY <1>12, <4>1, <4>2, <4>3, PrefixesAreTogether
    <3>. QED BY <3>1, <3>2
  <2>9. ~(m < Shown)
    BY <1>1, <1>4, <2>7, <2>8 DEF Goes
  <2>. QED BY <1>6, <1>8, <1>10, <2>6, <2>9
<1>13. \A i \in 1 .. m : shown[i] \in Range(cmds) /\ IsPrefix(prefix, shown[i])
  BY <1>1, <1>6, <1>7, <1>9
<1>. QED BY <1>5, <1>7, <1>10, <1>11, <1>12, <1>13 DEF shown

\* The index of a table that is registered row by row.
IsIndex(t, f) == f = [n \in 0 .. Len(t) |-> IF n = 0 THEN <<>> ELSE Indexed(t, f[n - 1], n)]

LEMMA IndexOfIs == ASSUME NEW t PROVE IndexOf(t) = (CHOOSE f : IsIndex(t, f))[Len(t)]
BY DEF IndexOf, IsIndex

LEMMA IndexedIsIndex ==
    ASSUME NEW t, NEW order \in Seq(Nat), NEW i \in Nat
    PROVE  Indexed(t, order, i) \in Seq(Nat)
<1>. DEFINE greater == {p \in DOMAIN order : t[i].key < t[order[p]].key}
            at == IF greater = {} THEN Len(order) + 1 ELSE Min(greater)
<1>1. greater \subseteq 1 .. Len(order) /\ Len(order) \in Nat
  OBVIOUS
<1>. HIDE DEF greater
<1>2. at \in 1 .. Len(order) + 1
  <2>1. CASE greater = {}
    BY <1>1, <2>1
  <2>2. CASE greater # {}
    <3>0. greater \subseteq Nat
      BY <1>1
    <3>1. Min(greater) \in greater
      BY <2>2, <3>0, LeastOf
    <3>2. Min(greater) \in 1 .. Len(order)
      BY <1>1, <3>1
    <3>3. \A x \in 1 .. Len(order) : x \in 1 .. Len(order) + 1
      BY <1>1
    <3>. QED BY <2>2, <3>2, <3>3
  <2>. QED BY <2>1, <2>2
<1>. HIDE DEF at
<1>3. InsertAt(order, at, i) \in Seq(Nat)
  BY <1>2, InsertAtIs
<1>4. Indexed(t, order, i) = InsertAt(order, at, i)
  BY DEF Indexed, PutBefore, greater, at
<1>. QED BY <1>3, <1>4

LEMMA IndexExists ==
    ASSUME NEW t, Len(t) \in Nat
    PROVE  \E f : IsIndex(t, f)
<1>1. PICK n \in Nat : n = Len(t)
  OBVIOUS
<1>. DEFINE S == Seq(Nat)
            G == [e \in S \X (1 .. n) |-> Indexed(t, e[1], e[2])]
<1>2. G \in [S \X (1 .. n) -> S]
  <2>1. ASSUME NEW e \in S \X (1 .. n) PROVE Indexed(t, e[1], e[2]) \in S
    <3>1. e[1] \in Seq(Nat) /\ e[2] \in Nat
      OBVIOUS
    <3>. QED BY <3>1, IndexedIsIndex
  <2>. QED BY <2>1
<1>3. <<>> \in S
  OBVIOUS
<1>30. \A s \in S : \A i \in 1 .. n : G[<<s, i>>] = Indexed(t, s, i)
  OBVIOUS
<1>. HIDE DEF S, G
<1>4. PICK f \in [0 .. n -> S] : Iterates(G, <<>>, n, f)
  BY <1>2, <1>3, IterationExists
<1>5. ASSUME NEW k \in 0 .. n PROVE f[k] = IF k = 0 THEN <<>> ELSE Indexed(t, f[k - 1], k)
  <2>1. CASE k = 0
    BY <1>4, <2>1 DEF Iterates
  <2>2. CASE k # 0
    <3>1. k \in 1 .. n /\ k - 1 \in 0 .. n
      BY <2>2
    <3>2. f[k] = G[<<f[k - 1], k>>] /\ f[k - 1] \in S
      BY <1>4, <3>1 DEF Iterates
    <3>. QED BY <1>30, <2>2, <3>1, <3>2
  <2>. QED BY <2>1, <2>2
<1>6. f = [k \in 0 .. n |-> IF k = 0 THEN <<>> ELSE Indexed(t, f[k - 1], k)]
  BY <1>5
<1>. QED BY <1>1, <1>6 DEF IsIndex

LEMMA IndexedOrders ==
    ASSUME NEW t \in Seq(Descs), Distinct(t), NEW n \in Nat, n + 1 \in DOMAIN t,
           NEW order, Orders(KeyOrder(t), n, order)
    PROVE  Orders(KeyOrder(t), n + 1, Indexed(t, order, n + 1))
<1>. DEFINE greater == {p \in DOMAIN order : t[n + 1].key < t[order[p]].key}
            put == {p \in DOMAIN order : <<n + 1, order[p]>> \in KeyOrder(t)}
<1>1. Len(t) \in Nat /\ DOMAIN t = 1 .. Len(t) /\ n + 1 <= Len(t)
  BY KeysAreNumbers
<1>2. IsOrder(KeyOrder(t), Len(t))
  BY KeysOrder
<1>3. IsOrder(KeyOrder(t), n + 1)
  <2>1. \A i \in 1 .. n + 1 : i \in 1 .. Len(t)
    BY <1>1
  <2>. QED BY <1>2, <2>1 DEF IsOrder
<1>4. DOMAIN order = 1 .. n /\ \A p \in 1 .. n : order[p] \in 1 .. n
  BY OrdersAre DEF Listed
<1>5. \A p \in DOMAIN order : order[p] \in DOMAIN t
  BY <1>1, <1>4
<1>6. \A p \in DOMAIN order : <<n + 1, order[p]>> \in KeyOrder(t) <=> t[n + 1].key < t[order[p]].key
  BY <1>5, InKeyOrder
<1>7. greater = put
  BY <1>6
<1>8. Indexed(t, order, n + 1) = PutBefore(order, put, n + 1)
  BY <1>7 DEF Indexed
<1>9. Orders(KeyOrder(t), n + 1, PutBefore(order, put, n + 1))
  <2>1. put = {p \in DOMAIN order : <<n + 1, order[p]>> \in KeyOrder(t)}
    OBVIOUS
  <2>. HIDE DEF put
  <2>. QED BY <1>3, <2>1, PutInOrder
<1>. QED BY <1>8, <1>9

LEMMA NothingInOrder == ASSUME NEW less PROVE Orders(less, 0, <<>>)
BY DEF Orders

LEMMA IndexOrders ==
    ASSUME NEW t \in Seq(Descs), Distinct(t)
    PROVE  Orders(KeyOrder(t), Len(t), IndexOf(t))
<1>1. PICK n \in Nat : n = Len(t) /\ DOMAIN t = 1 .. n
  BY KeysAreNumbers
<1>. DEFINE f == CHOOSE f : IsIndex(t, f)
<1>2. IsIndex(t, f)
  BY <1>1, IndexExists
<1>. HIDE DEF f
<1>3. \A k \in 0 .. n : f[k] = IF k = 0 THEN <<>> ELSE Indexed(t, f[k - 1], k)
  BY <1>1, <1>2 DEF IsIndex
<1>. DEFINE T == {k \in 0 .. n : ~Orders(KeyOrder(t), k, f[k])}
<1>4. T = {}
  <2>. SUFFICES ASSUME T # {} PROVE FALSE
    OBVIOUS
  <2>1. PICK k \in T : \A m \in T : k <= m
    <3>1. T \subseteq Nat
      OBVIOUS
    <3>. HIDE DEF T
    <3>. QED BY <3>1, Least
  <2>2. k \in 0 .. n /\ ~Orders(KeyOrder(t), k, f[k])
    OBVIOUS
  <2>3. k # 0
    <3>1. f[0] = <<>>
      BY <1>3
    <3>. QED BY <2>2, <3>1, NothingInOrder
  <2>4. PICK j \in 0 .. n : k = j + 1
    <3>1. k - 1 \in 0 .. n /\ k = (k - 1) + 1
      BY <2>2, <2>3
    <3>. QED BY <3>1
  <2>5. j \notin T
    <3>1. ~(k <= j)
      BY <2>4
    <3>. HIDE DEF T
    <3>. QED BY <2>1, <3>1
  <2>6. Orders(KeyOrder(t), j, f[j])
    BY <2>5
  <2>7. f[k] = Indexed(t, f[j], j + 1)
    <3>1. k - 1 = j
      BY <2>4
    <3>. QED BY <1>3, <2>2, <2>3, <2>4, <3>1
  <2>8. j + 1 \in DOMAIN t /\ j \in Nat
    BY <1>1, <2>2, <2>4
  <2>9. Orders(KeyOrder(t), j + 1, Indexed(t, f[j], j + 1))
    BY <2>6, <2>8, IndexedOrders
  <2>. QED BY <2>2, <2>4, <2>7, <2>9
<1>5. n \in 0 .. n /\ n \notin T
  BY <1>4
<1>6. Orders(KeyOrder(t), n, f[n])
  BY <1>5
<1>7. IndexOf(t) = f[n]
  BY <1>1, IndexOfIs DEF f
<1>. QED BY <1>1, <1>6, <1>7

\* What the SIM fold takes of the row at place p of the index.
Folded(t, b, order, p) == <<t[order[p]].key, b[order[p]]>>
IsFold(t, b, order, f) ==
    f = [n \in 0 .. Len(order) |->
            IF n = 0 THEN <<>>
            ELSE IF Flagged(t[order[n]], "sim") THEN Append(f[n - 1], Folded(t, b, order, n)) ELSE f[n - 1]]
\* What it has after n places: of each SIM row, in the order of the places.
FoldOK(t, b, order, n, s) ==
    /\ \A x \in DOMAIN s : \E p \in 1 .. n : Flagged(t[order[p]], "sim") /\ s[x] = Folded(t, b, order, p)
    /\ \A p \in 1 .. n : Flagged(t[order[p]], "sim") => \E x \in DOMAIN s : s[x] = Folded(t, b, order, p)
    /\ \A x, y \in DOMAIN s : x < y => s[x][1] < s[y][1]

LEMMA SimFoldIs ==
    ASSUME NEW t, NEW b, NEW order
    PROVE  SimFold(t, b, order) = (CHOOSE f : IsFold(t, b, order, f))[Len(order)]
BY DEF SimFold, IsFold, Folded

LEMMA FoldTells ==
    ASSUME NEW t \in Seq(Descs), Distinct(t), NEW b, NEW order, Orders(KeyOrder(t), Len(t), order)
    PROVE  FoldOK(t, b, order, Len(t), SimFold(t, b, order))
<1>1. PICK n \in Nat : n = Len(t) /\ DOMAIN t = 1 .. n
  BY KeysAreNumbers
<1>2. /\ n = Len(order)
      /\ \A p \in 1 .. n : order[p] \in 1 .. n
      /\ \A p, q \in 1 .. n : p < q => <<order[p], order[q]>> \in KeyOrder(t)
  <2>1. Orders(KeyOrder(t), n, order)
    BY <1>1
  <2>2. Listed(KeyOrder(t), n, order)
    BY <2>1, OrdersAre
  <2>. QED BY <2>2 DEF Listed
<1>. DEFINE V == {b[i] : i \in 1 .. n}
            S == Seq(Int \X V)
            Taken(p) == Folded(t, b, order, p)
            Counts(p) == Flagged(t[order[p]], "sim")
            G == [e \in S \X (1 .. n) |-> IF Counts(e[2]) THEN Append(e[1], Taken(e[2])) ELSE e[1]]
            f == CHOOSE f : IsFold(t, b, order, f)
<1>3. \A p \in 1 .. n : Taken(p) \in Int \X V /\ Taken(p)[1] = t[order[p]].key
  <2>. SUFFICES ASSUME NEW p \in 1 .. n PROVE Taken(p) \in Int \X V /\ Taken(p)[1] = t[order[p]].key
    OBVIOUS
  <2>1. t[order[p]].key \in Int /\ b[order[p]] \in V
    BY <1>1, <1>2, KeysAreNumbers
  <2>. HIDE DEF V
  <2>. QED BY <2>1 DEF Folded
<1>. HIDE DEF V, Taken, Counts
<1>4. G \in [S \X (1 .. n) -> S]
  <2>1. ASSUME NEW e \in S \X (1 .. n) PROVE (IF Counts(e[2]) THEN Append(e[1], Taken(e[2])) ELSE e[1]) \in S
    <3>1. e[1] \in Seq(Int \X V) /\ Taken(e[2]) \in Int \X V
      BY <1>3
    <3>. QED BY <3>1
  <2>. QED BY <2>1
<1>5. <<>> \in S
  OBVIOUS
<1>6. \A s \in S : \A i \in 1 .. n : G[<<s, i>>] = IF Counts(i) THEN Append(s, Taken(i)) ELSE s
  OBVIOUS
<1>. HIDE DEF G
<1>7. PICK g \in [0 .. n -> S] : Iterates(G, <<>>, n, g)
  <2>. HIDE DEF S
  <2>. QED BY <1>4, <1>5, IterationExists
<1>8. IsFold(t, b, order, g)
  <2>1. ASSUME NEW k \in 0 .. n
        PROVE  g[k] = IF k = 0 THEN <<>> ELSE IF Counts(k) THEN Append(g[k - 1], Taken(k)) ELSE g[k - 1]
    <3>1. CASE k = 0
      BY <1>7, <3>1 DEF Iterates
    <3>2. CASE k # 0
      <4>. HIDE DEF S
      <4>1. k \in 1 .. n /\ k - 1 \in 0 .. n
        BY <3>2
      <4>2. g[k] = G[<<g[k - 1], k>>] /\ g[k - 1] \in S
        BY <1>7, <4>1 DEF Iterates
      <4>. QED BY <1>6, <3>2, <4>1, <4>2
    <3>. QED BY <3>1, <3>2
  <2>2. g = [k \in 0 .. n |-> IF k = 0 THEN <<>> ELSE IF Counts(k) THEN Append(g[k - 1], Taken(k)) ELSE g[k - 1]]
    BY <2>1
  <2>. QED BY <1>2, <2>2 DEF IsFold, Counts, Taken
<1>9. IsFold(t, b, order, f)
  BY <1>8
<1>. HIDE DEF f
<1>10. \A k \in 0 .. n :
           f[k] = IF k = 0 THEN <<>> ELSE IF Counts(k) THEN Append(f[k - 1], Taken(k)) ELSE f[k - 1]
  BY <1>2, <1>9 DEF IsFold, Counts, Taken
<1>11. \A p, q \in 1 .. n : p < q => Taken(p)[1] < Taken(q)[1]
  <2>. SUFFICES ASSUME NEW p \in 1 .. n, NEW q \in 1 .. n, p < q PROVE Taken(p)[1] < Taken(q)[1]
    OBVIOUS
  <2>1. <<order[p], order[q]>> \in KeyOrder(t) /\ order[p] \in DOMAIN t /\ order[q] \in DOMAIN t
    BY <1>1, <1>2
  <2>2. t[order[p]].key < t[order[q]].key
    BY <2>1, InKeyOrder
  <2>. QED BY <1>3, <2>2
<1>. DEFINE OK(k) == f[k] \in S /\ FoldOK(t, b, order, k, f[k])
            T == {k \in 0 .. n : ~OK(k)}
<1>12. T = {}
  <2>. SUFFICES ASSUME T # {} PROVE FALSE
    OBVIOUS
  <2>1. PICK k \in T : \A m \in T : k <= m
    <3>1. T \subseteq Nat
      OBVIOUS
    <3>. HIDE DEF T
    <3>. QED BY <3>1, Least
  <2>2. k \in 0 .. n /\ ~OK(k)
    OBVIOUS
  <2>3. k # 0
    <3>. SUFFICES ASSUME k = 0 PROVE FALSE
      OBVIOUS
    <3>1. f[k] = <<>>
      BY <1>10, <2>2
    <3>2. FoldOK(t, b, order, k, <<>>)
      BY DEF FoldOK
    <3>. QED BY <1>5, <2>2, <3>1, <3>2
  <2>4. PICK j \in 0 .. n : k = j + 1
    <3>1. k - 1 \in 0 .. n /\ k = (k - 1) + 1
      BY <2>2, <2>3
    <3>. QED BY <3>1
  <2>5. OK(j)
    <3>1. ~(k <= j)
      BY <2>4
    <3>2. j \notin T
      <4>. HIDE DEF T
      <4>. QED BY <2>1, <3>1
    <3>. QED BY <3>2
  <2>6. f[k] = IF Counts(k) THEN Append(f[j], Taken(k)) ELSE f[j]
    <3>1. k - 1 = j
      BY <2>4
    <3>. QED BY <1>10, <2>2, <2>3, <3>1
  <2>7. PICK s \in Seq(Int \X V) : s = f[j]
    BY <2>5
  <2>8. /\ \A x \in DOMAIN s : \E p \in 1 .. j : Counts(p) /\ s[x] = Taken(p)
        /\ \A p \in 1 .. j : Counts(p) => \E x \in DOMAIN s : s[x] = Taken(p)
        /\ \A x, y \in DOMAIN s : x < y => s[x][1] < s[y][1]
    BY <2>5, <2>7 DEF FoldOK, Counts, Taken
  <2>9. /\ j \in Nat /\ k \in 1 .. n /\ \A p \in 1 .. j : p \in 1 .. k /\ p \in 1 .. n /\ p < k
        /\ \A p \in 1 .. k : p \in 1 .. j \/ p = k
    BY <2>2, <2>4
  <2>10. CASE ~Counts(k)
    <3>1. f[k] = s
      BY <2>6, <2>7, <2>10
    <3>2. FoldOK(t, b, order, k, s)
      <4>1. \A x \in DOMAIN s : \E p \in 1 .. k : Counts(p) /\ s[x] = Taken(p)
        BY <2>8, <2>9
      <4>2. \A p \in 1 .. k : Counts(p) => \E x \in DOMAIN s : s[x] = Taken(p)
        BY <2>8, <2>9, <2>10
      <4>. QED BY <2>8, <4>1, <4>2 DEF FoldOK, Counts, Taken
    <3>. QED BY <2>2, <2>7, <3>1, <3>2
  <2>11. CASE Counts(k)
    <3>. DEFINE r == Append(s, Taken(k))
    <3>1. PICK l \in Nat : l = Len(s) /\ DOMAIN s = 1 .. l
      OBVIOUS
    <3>2. /\ r \in Seq(Int \X V) /\ DOMAIN r = 1 .. l + 1 /\ r[l + 1] = Taken(k)
          /\ \A x \in 1 .. l : r[x] = s[x]
      BY <1>3, <2>9, <3>1
    <3>3. f[k] = r
      BY <2>6, <2>7, <2>11
    <3>. HIDE DEF r
    <3>4. \A x \in 1 .. l + 1 : x \in 1 .. l \/ x = l + 1
      OBVIOUS
    <3>5. \A x \in DOMAIN r : \E p \in 1 .. k : Counts(p) /\ r[x] = Taken(p)
      <4>. SUFFICES ASSUME NEW x \in 1 .. l + 1 PROVE \E p \in 1 .. k : Counts(p) /\ r[x] = Taken(p)
        BY <3>2
      <4>1. CASE x \in 1 .. l
        <5>1. PICK p \in 1 .. j : Counts(p) /\ s[x] = Taken(p)
          BY <2>8, <3>1, <4>1
        <5>. QED BY <2>9, <3>2, <4>1, <5>1
      <4>2. CASE x = l + 1
        <5>1. k \in 1 .. k
          BY <2>9
        <5>. QED BY <2>11, <3>2, <4>2, <5>1
      <4>. QED BY <3>4, <4>1, <4>2
    <3>6. \A p \in 1 .. k : Counts(p) => \E x \in DOMAIN r : r[x] = Taken(p)
      <4>. SUFFICES ASSUME NEW p \in 1 .. k, Counts(p) PROVE \E x \in 1 .. l + 1 : r[x] = Taken(p)
        BY <3>2
      <4>1. CASE p \in 1 .. j
        <5>1. PICK x \in 1 .. l : s[x] = Taken(p)
          BY <2>8, <3>1, <4>1
        <5>2. x \in 1 .. l + 1
          OBVIOUS
        <5>. QED BY <3>2, <5>1, <5>2
      <4>2. CASE p = k
        <5>1. l + 1 \in 1 .. l + 1
          BY <3>1
        <5>. QED BY <3>2, <4>2, <5>1
      <4>. QED BY <2>9, <4>1, <4>2
    <3>7. \A x, y \in DOMAIN r : x < y => r[x][1] < r[y][1]
      <4>. SUFFICES ASSUME NEW x \in 1 .. l + 1, NEW y \in 1 .. l + 1, x < y PROVE r[x][1] < r[y][1]
        BY <3>2
      <4>1. x \in 1 .. l
        BY <3>1
      <4>2. CASE y \in 1 .. l
        BY <2>8, <3>1, <3>2, <4>1, <4>2
      <4>3. CASE y = l + 1
        <5>1. PICK p \in 1 .. j : s[x] = Taken(p)
          BY <2>8, <3>1, <4>1
        <5>2. Taken(p)[1] < Taken(k)[1]
          BY <1>11, <2>9
        <5>. QED BY <3>2, <4>1, <4>3, <5>1, <5>2
      <4>. QED BY <3>4, <4>2, <4>3
    <3>8. FoldOK(t, b, order, k, r)
      BY <3>5, <3>6, <3>7 DEF FoldOK, Counts, Taken
    <3>. QED BY <2>2, <3>2, <3>3, <3>8
  <2>. QED BY <2>10, <2>11
<1>13. n \in 0 .. n /\ n \notin T
  <2>. HIDE DEF T
  <2>. QED BY <1>12
<1>14. FoldOK(t, b, order, n, f[n])
  BY <1>13
<1>15. SimFold(t, b, order) = f[n]
  BY <1>2, SimFoldIs DEF f
<1>. QED BY <1>1, <1>14, <1>15

-----------------------------------------------------------------------------
(* The barrier: what a queue of commands leaves.                           *)

TableOK ==
    /\ table \in Seq(Descs) /\ Distinct(table)
    /\ Orders(KeyOrder(table), Len(table), sorted)

LEMMA FindIs ==
    ASSUME TableOK, NEW i \in DOMAIN table
    PROVE  table[i].key \in Int /\ Find(table[i].key) = i /\ i # 0
<1>1. table \in Seq(Descs) /\ Distinct(table) /\ Orders(KeyOrder(table), Len(table), sorted)
  BY DEF TableOK
<1>2. i \in 1 .. Len(table) /\ table[i].key \in Int
  BY <1>1, KeysAreNumbers
<1>3. PICK key \in Int : key = table[i].key
  BY <1>2
<1>4. FindIndex(table, sorted, key) = i
  <2>1. \A x \in 1 .. Len(table) : table[x].key = key <=> FindIndex(table, sorted, key) = x
    BY <1>1, FindTells
  <2>. QED BY <1>2, <1>3, <2>1
<1>. QED BY <1>2, <1>3, <1>4 DEF Find

LEMMA FindFinds ==
    ASSUME TableOK, NEW key \in Int, Find(key) # 0
    PROVE  Find(key) \in DOMAIN table /\ table[Find(key)].key = key
<1>1. table \in Seq(Descs) /\ Distinct(table) /\ Orders(KeyOrder(table), Len(table), sorted)
  BY DEF TableOK
<1>2. /\ Find(key) \in 0 .. Len(table)
      /\ \A i \in 1 .. Len(table) : table[i].key = key <=> Find(key) = i
  BY <1>1, FindTells DEF Find
<1>3. Len(table) \in Nat /\ DOMAIN table = 1 .. Len(table)
  BY <1>1
<1>4. Find(key) \in 1 .. Len(table)
  BY <1>2, <1>3
<1>. QED BY <1>2, <1>3, <1>4

\* A command that sets a SIM cvar, which is no read-only one.
Sets(c) ==
    /\ c.kind = "set_cvar"
    /\ \E i \in DOMAIN table :
           table[i].key = c.key /\ Flagged(table[i], "sim") /\ ~Flagged(table[i], "readonly")
\* The n-th command sets cvar i.
For(n, i) == queue[n].kind = "set_cvar" /\ queue[n].key = table[i].key
\* b has the last value that the first n commands set, or what it had.
Won(b, b0, n) ==
    \A i \in DOMAIN table :
        \/ b[i] = b0[i] /\ \A m \in 1 .. n : ~For(m, i)
        \/ \E m \in 1 .. n : For(m, i) /\ b[i] = queue[m].v /\ \A k \in m + 1 .. n : ~For(k, i)

\* The states of a barrier.
Ends(B, V, D, start) ==
    [bits : B, single : V, dead : D, alive : {start.alive}, gen : {start.gen}, row : [EntitySlots -> V]]
Tells(start) == start = [bits |-> start.bits, single |-> start.single, dead |-> FALSE,
                         alive |-> start.alive, gen |-> start.gen, row |-> start.row]

IsPerformed(start, f) ==
    f = [n \in 0 .. Len(queue) |-> IF n = 0 THEN start ELSE Applied(f[n - 1], queue[n])]

LEMMA PerformedIs ==
    ASSUME NEW start
    PROVE  Performed(start) = (CHOOSE f : IsPerformed(start, f))[Len(queue)]
BY DEF Performed, IsPerformed

\* A barrier's steps stay in a set that its commands do not leave.
PerformedBy(S, start, n) ==
    \E f \in [0 .. n -> S] :
        /\ Performed(start) = f[n] /\ f[0] = start
        /\ \A k \in 1 .. n : f[k] = Applied(f[k - 1], queue[k])

LEMMA PerformedIn ==
    ASSUME NEW S, NEW start \in S, NEW n \in Nat, n = Len(queue),
           \A st \in S : \A k \in 1 .. n : Applied(st, queue[k]) \in S
    PROVE  PerformedBy(S, start, n)
<1>. DEFINE G == [e \in S \X (1 .. n) |-> Applied(e[1], queue[e[2]])]
            f == CHOOSE f : IsPerformed(start, f)
<1>1. G \in [S \X (1 .. n) -> S]
  OBVIOUS
<1>2. \A st \in S : \A k \in 1 .. n : G[<<st, k>>] = Applied(st, queue[k])
  OBVIOUS
<1>. HIDE DEF G
<1>3. PICK g \in [0 .. n -> S] : Iterates(G, start, n, g)
  BY <1>1, IterationExists
<1>4. ASSUME NEW k \in 0 .. n PROVE g[k] = IF k = 0 THEN start ELSE Applied(g[k - 1], queue[k])
  <2>1. CASE k = 0
    BY <1>3, <2>1 DEF Iterates
  <2>2. CASE k # 0
    <3>1. k \in 1 .. n /\ k - 1 \in 0 .. n
      BY <2>2
    <3>2. g[k] = G[<<g[k - 1], k>>] /\ g[k - 1] \in S
      BY <1>3, <3>1 DEF Iterates
    <3>. QED BY <1>2, <2>2, <3>1, <3>2
  <2>. QED BY <2>1, <2>2
<1>5. IsPerformed(start, g)
  <2>1. g = [k \in 0 .. n |-> IF k = 0 THEN start ELSE Applied(g[k - 1], queue[k])]
    BY <1>4
  <2>. QED BY <2>1 DEF IsPerformed
<1>6. IsPerformed(start, f)
  BY <1>5
<1>. HIDE DEF f
<1>7. \A k \in 0 .. n : f[k] = IF k = 0 THEN start ELSE Applied(f[k - 1], queue[k])
  BY <1>6 DEF IsPerformed
<1>8. \A k \in 0 .. n : f[k] = g[k]
  <2>. DEFINE T == {k \in 0 .. n : f[k] # g[k]}
  <2>. SUFFICES ASSUME T # {} PROVE FALSE
    OBVIOUS
  <2>1. PICK k \in T : \A m \in T : k <= m
    <3>1. T \subseteq Nat
      OBVIOUS
    <3>. HIDE DEF T
    <3>. QED BY <3>1, Least
  <2>2. k \in 0 .. n /\ f[k] # g[k]
    OBVIOUS
  <2>3. k # 0
    BY <1>4, <1>7, <2>2
  <2>4. k - 1 \in 0 .. n /\ ~(k <= k - 1)
    BY <2>2, <2>3
  <2>5. k - 1 \notin T
    <3>. HIDE DEF T
    <3>. QED BY <2>1, <2>4
  <2>6. f[k - 1] = g[k - 1]
    BY <2>4, <2>5
  <2>. QED BY <1>4, <1>7, <2>2, <2>3, <2>6
<1>9. Performed(start) = g[n]
  <2>1. n \in 0 .. n
    OBVIOUS
  <2>. QED BY <1>8, <2>1, PerformedIs DEF f
<1>10. g[0] = start /\ \A k \in 1 .. n : g[k] = Applied(g[k - 1], queue[k])
  <2>1. \A k \in 1 .. n : k \in 0 .. n /\ k # 0
    OBVIOUS
  <2>. QED BY <1>4, <2>1
<1>. QED BY <1>9, <1>10 DEF PerformedBy

\* A command of `set` writes its cvar, and nothing else.
LEMMA SetWrites ==
    ASSUME TableOK, NEW c, Sets(c), NEW st, ~st.dead
    PROVE  \E i \in DOMAIN table :
               /\ table[i].key = c.key
               /\ Applied(st, c) = [st EXCEPT !.bits = [st.bits EXCEPT ![i] = c.v]]
<1>1. PICK i \in DOMAIN table : table[i].key = c.key /\ ~Flagged(table[i], "readonly")
  BY DEF Sets
<1>2. Find(c.key) = i /\ i # 0
  BY <1>1, FindIs
<1>3. ApplySimRaw(st.bits, c.key, c.v) = [err |-> Ok, bits |-> [st.bits EXCEPT ![i] = c.v]]
  BY <1>1, <1>2 DEF ApplySimRaw, ApplySimAt
<1>4. CvarApplied(st, ApplySimRaw(st.bits, c.key, c.v)) = [st EXCEPT !.bits = [st.bits EXCEPT ![i] = c.v]]
  BY <1>3 DEF CvarApplied
<1>5. Applied(st, c) = [st EXCEPT !.bits = [st.bits EXCEPT ![i] = c.v]]
  BY <1>4 DEF Applied, Sets
<1>. QED BY <1>1, <1>5

\* A barrier after `set`s: each cvar has the last value, and the process goes on.
LEMMA CvarsPerformed ==
    ASSUME TableOK, NEW n \in Nat, n = Len(queue), \A k \in 1 .. n : Sets(queue[k]),
           NEW start, Tells(start), start.bits = [i \in DOMAIN table |-> start.bits[i]]
    PROVE  LET end == Performed(start) IN
           /\ end.dead = FALSE /\ end.single = start.single /\ end.row = start.row
           /\ end.bits = [i \in DOMAIN table |-> end.bits[i]]
           /\ Won(end.bits, start.bits, n)
<1>. DEFINE V == {start.bits[i] : i \in DOMAIN table} \cup {queue[k].v : k \in 1 .. n}
            B == [DOMAIN table -> V]
            S == [bits : B, single : {start.single}, dead : {FALSE}, alive : {start.alive}, gen : {start.gen},
                  row : {start.row}]
<1>1. start.bits \in B
  <2>1. \A i \in DOMAIN table : start.bits[i] \in V
    OBVIOUS
  <2>. HIDE DEF V
  <2>. QED BY <2>1
<1>2. \A k \in 1 .. n : queue[k].v \in V
  OBVIOUS
<1>. HIDE DEF V
<1>3. start \in S
  <2>. DEFINE r == [bits |-> start.bits, single |-> start.single, dead |-> FALSE,
                 alive |-> start.alive, gen |-> start.gen, row |-> start.row]
  <2>1. r \in S
    BY <1>1
  <2>2. start = r
    BY DEF Tells
  <2>. HIDE DEF r, S
  <2>. QED BY <2>1, <2>2
<1>4. ASSUME NEW st \in S, NEW k \in 1 .. n PROVE Applied(st, queue[k]) \in S
  <2>1. st.dead = FALSE /\ st.bits \in B
    OBVIOUS
  <2>2. Sets(queue[k]) /\ queue[k].v \in V
    BY <1>2
  <2>3. PICK i \in DOMAIN table : Applied(st, queue[k]) = [st EXCEPT !.bits = [st.bits EXCEPT ![i] = queue[k].v]]
    BY <2>1, <2>2, SetWrites
  <2>4. [st.bits EXCEPT ![i] = queue[k].v] \in B
    BY <2>1, <2>2
  <2>. QED BY <2>3, <2>4
<1>5. PICK f \in [0 .. n -> S] :
          /\ Performed(start) = f[n] /\ f[0] = start
          /\ \A k \in 1 .. n : f[k] = Applied(f[k - 1], queue[k])
  <2>. HIDE DEF S
  <2>1. \A st \in S : \A k \in 1 .. n : Applied(st, queue[k]) \in S
    BY <1>4
  <2>2. PerformedBy(S, start, n)
    BY <1>3, <2>1, PerformedIn
  <2>. QED BY <2>2 DEF PerformedBy
<1>6. \A k \in 0 .. n : /\ f[k] \in S /\ f[k].dead = FALSE /\ f[k].single = start.single
                        /\ f[k].row = start.row /\ f[k].bits \in B
  OBVIOUS
<1>. HIDE DEF S
<1>. DEFINE T == {k \in 0 .. n : ~Won(f[k].bits, start.bits, k)}
<1>7. T = {}
  <2>. SUFFICES ASSUME T # {} PROVE FALSE
    OBVIOUS
  <2>1. PICK k \in T : \A m \in T : k <= m
    <3>1. T \subseteq Nat
      OBVIOUS
    <3>. HIDE DEF T
    <3>. QED BY <3>1, Least
  <2>2. k \in 0 .. n /\ ~Won(f[k].bits, start.bits, k)
    OBVIOUS
  <2>3. k # 0
    <3>1. Won(start.bits, start.bits, 0)
      BY DEF Won
    <3>. QED BY <1>5, <2>2, <3>1
  <2>4. PICK j \in 0 .. n : k = j + 1
    <3>1. k - 1 \in 0 .. n /\ k = (k - 1) + 1
      BY <2>2, <2>3
    <3>. QED BY <3>1
  <2>5. Won(f[j].bits, start.bits, j)
    <3>1. ~(k <= j)
      BY <2>4
    <3>2. j \notin T
      <4>. HIDE DEF T
      <4>. QED BY <2>1, <3>1
    <3>. QED BY <3>2
  <2>6. f[k] = Applied(f[j], queue[k]) /\ k \in 1 .. n
    <3>1. k \in 1 .. n /\ k - 1 = j
      <4>. HIDE DEF T
      <4>. QED BY <2>2, <2>4
    <3>. QED BY <1>5, <3>1
  <2>7. Sets(queue[k]) /\ ~f[j].dead
    BY <1>6, <2>6
  <2>8. PICK i \in DOMAIN table :
            /\ table[i].key = queue[k].key
            /\ Applied(f[j], queue[k]) = [f[j] EXCEPT !.bits = [f[j].bits EXCEPT ![i] = queue[k].v]]
    BY <2>7, SetWrites
  <2>. DEFINE b == f[j].bits
              r == f[k].bits
  <2>9. r = [b EXCEPT ![i] = queue[k].v]
    <3>1. f[j] \in S
      BY <1>6
    <3>. QED BY <2>6, <2>8, <3>1 DEF S
  <2>10. r[i] = queue[k].v /\ \A x \in DOMAIN table \ {i} : r[x] = b[x]
    <3>1. b \in B
      BY <1>6
    <3>. HIDE DEF b, r
    <3>. QED BY <2>9, <3>1
  <2>11. For(k, i) /\ \A x \in DOMAIN table : For(k, x) => x = i
    <3>1. \A x \in DOMAIN table : table[x].key = table[i].key => x = i
      BY DEF TableOK, Distinct
    <3>. QED BY <2>7, <2>8, <3>1 DEF Sets, For
  <2>. HIDE DEF b, r
  <2>12. /\ k \in 1 .. k /\ k + 1 .. k = {}
         /\ \A m \in 1 .. j : m \in 1 .. k
         /\ \A m \in 1 .. k : m \in 1 .. j \/ m = k
         /\ \A m \in 1 .. j : \A l \in m + 1 .. k : l \in m + 1 .. j \/ l = k
    BY <2>4, <2>6
  <2>13. Won(b, start.bits, j)
    BY <2>5 DEF b
  <2>14. ASSUME NEW x \in DOMAIN table
         PROVE  \/ r[x] = start.bits[x] /\ \A m \in 1 .. k : ~For(m, x)
                \/ \E m \in 1 .. k : For(m, x) /\ r[x] = queue[m].v /\ \A l \in m + 1 .. k : ~For(l, x)
    <3>1. CASE x = i
      BY <2>10, <2>11, <2>12, <3>1
    <3>2. CASE x # i
      <4>1. ~For(k, x) /\ r[x] = b[x]
        BY <2>10, <2>11, <3>2
      <4>2. CASE b[x] = start.bits[x] /\ \A m \in 1 .. j : ~For(m, x)
        BY <2>12, <4>1, <4>2
      <4>3. CASE \E m \in 1 .. j : For(m, x) /\ b[x] = queue[m].v /\ \A l \in m + 1 .. j : ~For(l, x)
        <5>1. PICK m \in 1 .. j : For(m, x) /\ b[x] = queue[m].v /\ \A l \in m + 1 .. j : ~For(l, x)
          BY <4>3
        <5>2. \A l \in m + 1 .. k : ~For(l, x)
          BY <2>12, <4>1, <5>1
        <5>. QED BY <2>12, <4>1, <5>1, <5>2
      <4>. QED BY <2>13, <4>2, <4>3 DEF Won
    <3>. QED BY <3>1, <3>2
  <2>15. Won(r, start.bits, k)
    BY <2>14 DEF Won
  <2>. QED BY <2>2, <2>15 DEF r
<1>80. n \notin T
  <2>. HIDE DEF T
  <2>. QED BY <1>7
<1>8. n \in 0 .. n /\ n \notin T
  BY <1>80
<1>9. Won(f[n].bits, start.bits, n)
  BY <1>8
<1>10. f[n].bits = [i \in DOMAIN table |-> f[n].bits[i]]
  <2>1. f[n].bits \in B
    BY <1>6, <1>8
  <2>. QED BY <2>1
<1>. QED BY <1>5, <1>6, <1>8, <1>9, <1>10

\* A barrier after edits leaves the cvars.
LEMMA EditsPerformed ==
    ASSUME NEW n \in Nat, n = Len(queue), \A k \in 1 .. n : queue[k].kind # "set_cvar",
           NEW start, Tells(start), start.row = [i \in EntitySlots |-> start.row[i]]
    PROVE  /\ Performed(start).bits = start.bits
           /\ Performed(start).row = [i \in EntitySlots |-> Performed(start).row[i]]
<1>. DEFINE V == {start.row[i] : i \in EntitySlots} \cup {queue[k].v : k \in 1 .. n} \cup {start.single}
            S == [bits : {start.bits}, single : V, dead : BOOLEAN, alive : {start.alive}, gen : {start.gen},
                  row : [EntitySlots -> V]]
<1>1. start.row \in [EntitySlots -> V]
  <2>1. \A i \in EntitySlots : start.row[i] \in V
    OBVIOUS
  <2>. HIDE DEF V
  <2>. QED BY <2>1
<1>2. start.single \in V /\ \A k \in 1 .. n : queue[k].v \in V
  OBVIOUS
<1>. HIDE DEF V
<1>3. start \in S
  <2>. DEFINE r == [bits |-> start.bits, single |-> start.single, dead |-> FALSE,
                 alive |-> start.alive, gen |-> start.gen, row |-> start.row]
  <2>1. r \in S
    BY <1>1, <1>2
  <2>2. start = r
    BY DEF Tells
  <2>. HIDE DEF r, S
  <2>. QED BY <2>1, <2>2
<1>4. ASSUME NEW st \in S, NEW k \in 1 .. n PROVE Applied(st, queue[k]) \in S
  <2>. DEFINE c == queue[k]
  <2>1. c.v \in V /\ c.kind # "set_cvar"
    BY <1>2
  <2>. HIDE DEF c
  <2>2. [st EXCEPT !.single = c.v] \in S
    BY <2>1
  <2>3. [st EXCEPT !.row[c.ref.idx] = c.v] \in S
    <3>1. [st.row EXCEPT ![c.ref.idx] = c.v] \in [EntitySlots -> V]
      BY <2>1
    <3>2. [st EXCEPT !.row = [st.row EXCEPT ![c.ref.idx] = c.v]] \in S
      BY <3>1
    <3>. QED BY <3>2
  <2>4. [st EXCEPT !.dead = TRUE] \in S
    OBVIOUS
  <2>. HIDE DEF S
  <2>5. Applied(st, c) \in S
    BY <2>1, <2>2, <2>3, <2>4 DEF Applied
  <2>. QED BY <2>5 DEF c
<1>5. PICK f \in [0 .. n -> S] : Performed(start) = f[n]
  <2>. HIDE DEF S
  <2>1. \A st \in S : \A k \in 1 .. n : Applied(st, queue[k]) \in S
    BY <1>4
  <2>2. PerformedBy(S, start, n)
    BY <1>3, <2>1, PerformedIn
  <2>. QED BY <2>2 DEF PerformedBy
<1>6. f[n] \in S
  <2>1. n \in 0 .. n
    OBVIOUS
  <2>. HIDE DEF S
  <2>. QED BY <2>1
<1>7. f[n].bits = start.bits /\ f[n].row = [i \in EntitySlots |-> f[n].row[i]]
  BY <1>6
<1>. QED BY <1>5, <1>7

LEMMA NothingPerformed ==
    ASSUME NEW start, queue = <<>>
    PROVE  Performed(start) = start
<1>. DEFINE g == [k \in 0 .. 0 |-> start]
            f == CHOOSE f : IsPerformed(start, f)
<1>1. Len(queue) = 0 /\ \A k \in 0 .. 0 : k = 0
  OBVIOUS
<1>2. g = [k \in 0 .. 0 |-> IF k = 0 THEN start ELSE Applied(g[k - 1], queue[k])]
  BY <1>1
<1>. HIDE DEF g
<1>3. IsPerformed(start, g)
  BY <1>1, <1>2 DEF IsPerformed
<1>4. IsPerformed(start, f)
  BY <1>3
<1>. HIDE DEF f
<1>5. f[0] = start
  BY <1>1, <1>4 DEF IsPerformed
<1>. QED BY <1>1, <1>5, PerformedIs DEF f

-----------------------------------------------------------------------------
(* The invariant, by parts of the state.                                   *)

HistoryOK ==
    /\ hist = [i \in 0 .. HistoryCap - 1 |-> hist[i]]
    /\ hist_head \in 0 .. HistoryCap - 1
    /\ lines \in Seq(Lines)
    /\ hist_count = IF Len(lines) < HistoryCap THEN Len(lines) ELSE HistoryCap
    /\ \A i \in 0 .. hist_count - 1 : HistoryAt(i) = lines[Len(lines) - hist_count + 1 + i]

PathOK ==
    got.op = "path" /\ got.out = Ok /\ got.in # "none" =>
        HasRow(ref) /\ \A i \in alive : name_of[i] = got.in <=> i = ref.idx

WritesOK ==
    /\ bits = [i \in DOMAIN table |-> bits[i]]
    /\ sealed = [i \in DOMAIN table |-> sealed[i]]
    /\ asked = [i \in DOMAIN table |-> asked[i]]
    /\ row = [i \in EntitySlots |-> row[i]] /\ alive \subseteq EntitySlots
    /\ queue \in Seq(Range(queue))
    /\ SimOnlyAtBarriers /\ ToolsRefusedInLockstep
    /\ \A n \in DOMAIN queue : IF desk = "typing" THEN Sets(queue[n]) ELSE queue[n].kind # "set_cvar"
    /\ Won(asked, bits, Len(queue))
    /\ ConsoleNeverKills

ConsoleIInv == TableOK /\ CommandsOK /\ HistoryOK /\ PathOK /\ WritesOK

LEMMA TableStays == ASSUME TableOK, UNCHANGED <<table, sorted>> PROVE TableOK'
BY DEF TableOK

LEMMA CommandsStay == ASSUME CommandsOK, UNCHANGED <<cmds, cmd_sorted>> PROVE CommandsOK'
BY DEF CommandsOK

LEMMA HistoryStays == ASSUME HistoryOK, UNCHANGED <<hist, hist_head, hist_count, lines>> PROVE HistoryOK'
BY DEF HistoryOK, HistoryAt

LEMMA PathStays == ASSUME PathOK, UNCHANGED <<got, ref, alive, gen, name_of>> PROVE PathOK'
BY DEF PathOK, HasRow

LEMMA WritesStay ==
    ASSUME WritesOK,
           UNCHANGED <<desk, lockstep, table, bits, sealed, asked, row, alive, single, queue>>,
           fatal' \in {fatal, "kind"} \/ desk # "typing"
    PROVE  WritesOK'
<1>1. SimOnlyAtBarriers' /\ ToolsRefusedInLockstep'
  BY DEF WritesOK, SimOnlyAtBarriers, ToolsRefusedInLockstep, Sim
<1>2. (\A n \in DOMAIN queue : IF desk = "typing" THEN Sets(queue[n]) ELSE queue[n].kind # "set_cvar")'
  BY DEF WritesOK, Sets
<1>3. Won(asked, bits, Len(queue))'
  BY DEF WritesOK, Won, For
<1>4. ConsoleNeverKills'
  BY DEF WritesOK, ConsoleNeverKills
<1>. QED BY <1>1, <1>2, <1>3, <1>4 DEF WritesOK

-----------------------------------------------------------------------------
(* Registration.                                                           *)

LEMMA TableGrows ==
    ASSUME TableOK, NEW d \in Descs, Register(d)
    PROVE  TableOK'
<1>1. CASE RegisterFatal(d)
  BY <1>1, TableStays DEF Register, cvar_vars
<1>2. CASE ~RegisterFatal(d)
  <2>. DEFINE t == Append(table, d)
  <2>1. table' = t /\ sorted' = Indexed(t, sorted, Len(t)) /\ Find(d.key) = 0
    BY <1>2 DEF Register, RegisterFatal
  <2>2. table \in Seq(Descs) /\ Distinct(table) /\ Orders(KeyOrder(table), Len(table), sorted)
    BY DEF TableOK
  <2>3. PICK n \in Nat : n = Len(table) /\ DOMAIN table = 1 .. n
    BY <2>2
  <2>4. /\ t \in Seq(Descs) /\ Len(t) = n + 1 /\ DOMAIN t = 1 .. n + 1 /\ t[n + 1] = d
        /\ \A i \in 1 .. n : t[i] = table[i]
    BY <2>2, <2>3
  <2>. HIDE DEF t
  <2>5. d.key \in Int
    BY ConsoleAssumption DEF ConsoleAssumption
  <2>6. \A i \in 1 .. n : table[i].key # d.key
    BY <2>1, <2>3, FindIs
  <2>7. Distinct(t)
    <3>. SUFFICES ASSUME NEW i \in 1 .. n + 1, NEW j \in 1 .. n + 1, t[i].key = t[j].key PROVE i = j
      BY <2>4 DEF Distinct
    <3>1. (i \in 1 .. n \/ i = n + 1) /\ (j \in 1 .. n \/ j = n + 1)
      BY <2>3
    <3>2. CASE i \in 1 .. n /\ j \in 1 .. n
      BY <2>2, <2>3, <2>4, <3>2 DEF Distinct
    <3>. QED BY <2>4, <2>6, <3>1, <3>2
  <2>8. Orders(KeyOrder(t), n, sorted)
    <3>1. Orders(KeyOrder(table), n, sorted)
      BY <2>2, <2>3
    <3>2. \A p \in 1 .. n : sorted[p] \in 1 .. n
      BY <3>1, OrdersAre DEF Listed
    <3>3. \A i, j \in 1 .. n : <<i, j>> \in KeyOrder(table) => <<i, j>> \in KeyOrder(t)
      <4>. SUFFICES ASSUME NEW i \in 1 .. n, NEW j \in 1 .. n, <<i, j>> \in KeyOrder(table)
                    PROVE  <<i, j>> \in KeyOrder(t)
        OBVIOUS
      <4>1. table[i].key < table[j].key
        BY <2>3, InKeyOrder
      <4>2. i \in DOMAIN t /\ j \in DOMAIN t /\ t[i] = table[i] /\ t[j] = table[j]
        BY <2>3, <2>4
      <4>3. t[i].key < t[j].key
        BY <4>1, <4>2
      <4>. QED BY <4>2, <4>3, InKeyOrder
    <3>. QED BY <3>1, <3>2, <3>3 DEF Orders
  <2>9. n + 1 \in DOMAIN t
    BY <2>3, <2>4
  <2>10. Orders(KeyOrder(t), n + 1, Indexed(t, sorted, n + 1))
    BY <2>4, <2>7, <2>8, <2>9, IndexedOrders
  <2>. QED BY <2>1, <2>4, <2>7, <2>10 DEF TableOK
<1>. QED BY <1>1, <1>2

LEMMA CommandsGrow ==
    ASSUME CommandsOK, NEW name \in Names, ConsoleRegister(name)
    PROVE  CommandsOK'
<1>1. CASE Len(cmds) >= CmdCap \/ ConsoleFind(name)
  BY <1>1, CommandsStay DEF ConsoleRegister
<1>2. CASE ~(Len(cmds) >= CmdCap \/ ConsoleFind(name))
  <2>. DEFINE cs == Append(cmds, name)
              greater == {p \in DOMAIN cmd_sorted : LexLess(name, cmds[cmd_sorted[p]])}
              put(n) == {p \in DOMAIN cmd_sorted : <<n + 1, cmd_sorted[p]>> \in CmdOrder(cs)}
  <2>1. cmds' = cs /\ cmd_sorted' = PutBefore(cmd_sorted, greater, Len(cs)) /\ ~ConsoleFind(name)
    BY <1>2 DEF ConsoleRegister
  <2>2. /\ cmds \in Seq(Names) /\ Orders(CmdOrder(cmds), Len(cmds), cmd_sorted)
        /\ \A i, j \in DOMAIN cmds : cmds[i] = cmds[j] => i = j
    BY DEF CommandsOK
  <2>3. PICK n \in Nat : n = Len(cmds) /\ DOMAIN cmds = 1 .. n
    BY <2>2
  <2>4. /\ cs \in Seq(Names) /\ Len(cs) = n + 1 /\ DOMAIN cs = 1 .. n + 1 /\ cs[n + 1] = name
        /\ \A i \in 1 .. n : cs[i] = cmds[i]
    BY <2>2, <2>3
  <2>. HIDE DEF cs
  <2>5. name \in Seq(Nat)
    BY ConsoleAssumption DEF ConsoleAssumption
  <2>6. \A i \in 1 .. n : cmds[i] # name
    <3>1. name \notin Range(cmds)
      BY <2>1, <2>5, ConsoleFindTells
    <3>. QED BY <2>3, <3>1 DEF Range
  <2>7. \A i, j \in DOMAIN cs : cs[i] = cs[j] => i = j
    <3>. SUFFICES ASSUME NEW i \in 1 .. n + 1, NEW j \in 1 .. n + 1, cs[i] = cs[j] PROVE i = j
      BY <2>4
    <3>1. (i \in 1 .. n \/ i = n + 1) /\ (j \in 1 .. n \/ j = n + 1)
      BY <2>3
    <3>2. CASE i \in 1 .. n /\ j \in 1 .. n
      BY <2>2, <2>3, <2>4, <3>2
    <3>. QED BY <2>4, <2>6, <3>1, <3>2
  <2>8. Orders(CmdOrder(cmds), n, cmd_sorted)
    BY <2>2, <2>3
  <2>9. DOMAIN cmd_sorted = 1 .. n /\ \A p \in 1 .. n : cmd_sorted[p] \in 1 .. n
    BY <2>8, OrdersAre DEF Listed
  <2>10. Orders(CmdOrder(cs), n, cmd_sorted)
    <3>1. \A i, j \in 1 .. n : <<i, j>> \in CmdOrder(cmds) => <<i, j>> \in CmdOrder(cs)
      <4>. SUFFICES ASSUME NEW i \in 1 .. n, NEW j \in 1 .. n, <<i, j>> \in CmdOrder(cmds)
                    PROVE  <<i, j>> \in CmdOrder(cs)
        OBVIOUS
      <4>1. LexLess(cmds[i], cmds[j])
        BY <2>3, InCmdOrder
      <4>2. i \in DOMAIN cs /\ j \in DOMAIN cs /\ cs[i] = cmds[i] /\ cs[j] = cmds[j]
        BY <2>3, <2>4
      <4>3. LexLess(cs[i], cs[j])
        BY <4>1, <4>2
      <4>. QED BY <4>2, <4>3, InCmdOrder
    <3>. QED BY <2>8, <2>9, <3>1 DEF Orders
  <2>11. IsOrder(CmdOrder(cs), n + 1)
    BY <2>4, <2>7, NamesOrder
  <2>12. greater = put(n)
    <3>1. \A p \in DOMAIN cmd_sorted :
              <<n + 1, cmd_sorted[p]>> \in CmdOrder(cs) <=> LexLess(name, cmds[cmd_sorted[p]])
      <4>. SUFFICES ASSUME NEW p \in 1 .. n
                    PROVE  <<n + 1, cmd_sorted[p]>> \in CmdOrder(cs) <=> LexLess(name, cmds[cmd_sorted[p]])
        BY <2>9
      <4>1. n + 1 \in DOMAIN cs /\ cmd_sorted[p] \in DOMAIN cs /\ cs[n + 1] = name
            /\ cs[cmd_sorted[p]] = cmds[cmd_sorted[p]]
        BY <2>4, <2>9, SMTT(40)
      <4>2. <<n + 1, cmd_sorted[p]>> \in CmdOrder(cs) <=> LexLess(cs[n + 1], cs[cmd_sorted[p]])
        BY <4>1, InCmdOrder
      <4>. QED BY <4>1, <4>2
    <3>. QED BY <3>1
  <2>13. Orders(CmdOrder(cs), n + 1, PutBefore(cmd_sorted, put(n), n + 1))
    <3>. DEFINE g == put(n)
    <3>1. g = {p \in DOMAIN cmd_sorted : <<n + 1, cmd_sorted[p]>> \in CmdOrder(cs)}
      OBVIOUS
    <3>. HIDE DEF g
    <3>2. Orders(CmdOrder(cs), n + 1, PutBefore(cmd_sorted, g, n + 1))
      BY <2>10, <2>11, <3>1, PutInOrder
    <3>. QED BY <3>2 DEF g
  <2>. HIDE DEF greater
  <2>. QED BY <2>1, <2>4, <2>7, <2>12, <2>13 DEF CommandsOK
<1>. QED BY <1>1, <1>2

-----------------------------------------------------------------------------
(* The history of lines.                                                   *)

LEMMA HistoryGrows ==
    ASSUME HistoryOK, NEW line \in Lines, Exec(line)
    PROVE  HistoryOK'
<1>1. PICK H \in Nat \ {0} : H = HistoryCap
  BY ConsoleAssumption DEF ConsoleAssumption
<1>2. PICK h \in 0 .. H - 1 : h = hist_head
  BY <1>1 DEF HistoryOK
<1>3. PICK l \in Nat : l = Len(lines)
  BY DEF HistoryOK
<1>4. PICK c \in Nat : c = hist_count /\ c = (IF l < H THEN l ELSE H)
  BY <1>1, <1>3 DEF HistoryOK
<1>5. lines \in Seq(Lines) /\ hist = [i \in 0 .. H - 1 |-> hist[i]]
  BY <1>1 DEF HistoryOK
<1>6. /\ lines' = Append(lines, line)
      /\ hist' = [hist EXCEPT ![h] = line]
      /\ hist_head' = (h + 1) % H
      /\ hist_count' = IF c < H THEN c + 1 ELSE c
  BY <1>1, <1>2, <1>4 DEF Exec
<1>7. /\ lines' \in Seq(Lines) /\ Len(lines') = l + 1 /\ lines'[l + 1] = line
      /\ \A i \in 1 .. l : lines'[i] = lines[i]
  BY <1>3, <1>5, <1>6
<1>8. /\ hist' = [i \in 0 .. H - 1 |-> hist'[i]] /\ hist'[h] = line
      /\ \A i \in 0 .. H - 1 : i # h => hist'[i] = hist[i]
  BY <1>5, <1>6
<1>9. PICK k \in 0 .. H - 1 : k = hist_head' /\ k = IF h + 1 < H THEN h + 1 ELSE h + 1 - H
  <2>1. PICK y \in 0 .. 2 * H - 1 : y = h + 1
    OBVIOUS
  <2>2. y % H = IF y < H THEN y ELSE y - H
    BY Turn
  <2>. QED BY <1>6, <2>1, <2>2
<1>10. PICK e \in Nat : e = hist_count' /\ e = (IF l + 1 < H THEN l + 1 ELSE H) /\ e = (IF c < H THEN c + 1 ELSE c)
  BY <1>4, <1>6
<1>. DEFINE place(i) == (h + H - c + i) % H
            next(i) == (k + H - e + i) % H
<1>11. \A i \in 0 .. c - 1 : hist[place(i)] = lines[l - c + 1 + i]
  BY <1>1, <1>2, <1>3, <1>4 DEF HistoryOK, HistoryAt
<1>12. ASSUME NEW i \in 0 .. e - 1 PROVE hist'[next(i)] = lines'[(l + 1) - e + 1 + i]
  <2>0. e <= H
    BY <1>10
  <2>1. PICK y \in 0 .. 2 * H - 1 : y = k + H - e + i
    <3>1. k + H - e + i \in 0 .. 2 * H - 1
      BY <2>0
    <3>. QED BY <3>1
  <2>2. y % H = IF y < H THEN y ELSE y - H
    BY Turn
  <2>20. next(i) = IF k + H - e + i < H THEN k + H - e + i ELSE k + H - e + i - H
    BY <2>1, <2>2
  <2>3. CASE i = e - 1
    <3>1. next(i) = h
      BY <1>9, <1>10, <2>20, <2>3
    <3>2. (l + 1) - e + 1 + i = l + 1
      BY <1>10, <2>3
    <3>. QED BY <1>7, <1>8, <3>1, <3>2
  <2>4. CASE i # e - 1
    <3>1. PICK j \in 0 .. c - 1 : j = i + 1 - (e - c)
      <4>1. CASE c < H
        <5>1. i + 1 - (e - c) = i /\ i \in 0 .. c - 1
          BY <1>10, <2>4, <4>1
        <5>. QED BY <5>1
      <4>2. CASE c >= H
        <5>1. i + 1 - (e - c) = i + 1 /\ i + 1 \in 0 .. c - 1
          BY <1>10, <2>4, <4>2
        <5>. QED BY <5>1
      <4>. QED BY <4>1, <4>2
    <3>2. PICK z \in 0 .. 2 * H - 1 : z = h + H - c + j
      BY <1>4, <3>1
    <3>20. z % H = IF z < H THEN z ELSE z - H
      BY Turn
    <3>3. place(j) = IF h + H - c + j < H THEN h + H - c + j ELSE h + H - c + j - H
      BY <3>2, <3>20
    <3>4. next(i) = place(j) /\ place(j) # h /\ place(j) \in 0 .. H - 1
      BY <1>4, <1>9, <1>10, <2>20, <2>4, <3>1, <3>3
    <3>5. l - c + 1 + j = (l + 1) - e + 1 + i /\ l - c + 1 + j \in 1 .. l
      BY <1>4, <1>10, <3>1
    <3>6. hist'[next(i)] = hist[place(j)]
      BY <1>8, <3>4
    <3>. QED BY <1>7, <1>11, <3>1, <3>5, <3>6
  <2>. QED BY <2>3, <2>4
<1>13. \A i \in 0 .. hist_count' - 1 : HistoryAt(i)' = lines'[Len(lines') - hist_count' + 1 + i]
  BY <1>1, <1>7, <1>9, <1>10, <1>12 DEF HistoryAt
<1>. QED BY <1>1, <1>7, <1>8, <1>9, <1>10, <1>13 DEF HistoryOK

-----------------------------------------------------------------------------
(* Paths.                                                                  *)

LEMMA One ==
    ASSUME NEW S, NEW T, S \subseteq T, IsFiniteSet(T), Cardinality(S) = 1
    PROVE  \E x : S = {x}
<1>1. IsFiniteSet(S)
  BY FS_Subset
<1>. QED BY <1>1, FS_Singleton

LEMMA PathIsExact ==
    ASSUME alive \subseteq EntitySlots, EntitySlots \subseteq Nat, IsFiniteSet(EntitySlots),
           NEW path \in Paths, path.head = "name", PathError(path) = Ok
    PROVE  /\ Resolved(path).idx \in alive /\ Resolved(path).gen = gen[Resolved(path).idx]
           /\ \A i \in alive : name_of[i] = path.who <=> i = Resolved(path).idx
<1>1. EntityError(path) = Ok
  BY DEF PathError
<1>2. Cardinality(Named(path.who)) = 1
  BY <1>1 DEF EntityError, Ok
<1>3. PICK x : Named(path.who) = {x}
  <2>1. Named(path.who) \subseteq EntitySlots
    BY DEF Named
  <2>. QED BY <1>2, <2>1, One
<1>4. \A i : i = x <=> i \in alive /\ name_of[i] = path.who
  BY <1>3 DEF Named
<1>5. Min({x}) = x
  <2>1. {x} \subseteq Nat /\ {x} # {}
    BY <1>4
  <2>2. Min({x}) \in {x}
    BY <2>1, LeastOf
  <2>. QED BY <2>2
<1>6. Resolved(path) = Ref("row", x, gen[x], Comps[path.comp].fields[path.field])
  BY <1>3, <1>5 DEF Resolved
<1>7. Resolved(path).idx = x /\ Resolved(path).gen = gen[x]
  BY <1>6 DEF Ref
<1>. QED BY <1>4, <1>7

-----------------------------------------------------------------------------
(* The cvars and the queue.                                                *)

LEMMA RegisterWrites ==
    ASSUME TableOK, WritesOK, NEW d \in Descs, Register(d)
    PROVE  WritesOK'
<1>1. CASE RegisterFatal(d)
  <2>1. /\ UNCHANGED <<desk, lockstep, table, bits, sealed, asked, row, alive, single, queue>>
        /\ desk # "typing"
    BY <1>1 DEF Register, cvar_vars, past_vars, entity_vars
  <2>. QED BY <2>1, WritesStay
<1>2. CASE ~RegisterFatal(d)
  <2>1. /\ table' = Append(table, d) /\ bits' = Append(bits, d.def) /\ sealed' = bits' /\ asked' = bits'
        /\ desk = "cvars" /\ UNCHANGED <<desk, lockstep, row, alive, single, queue, fatal>>
    BY <1>2 DEF Register, entity_vars
  <2>2. PICK n \in Nat : n = Len(table) /\ DOMAIN table = 1 .. n
    BY DEF TableOK
  <2>3. /\ DOMAIN table' = 1 .. n + 1 /\ table'[n + 1] = d
        /\ \A i \in 1 .. n : table'[i] = table[i]
    BY <2>1, <2>2 DEF TableOK
  <2>. DEFINE V == {bits[i] : i \in 1 .. n} \cup {d.def}
  <2>4. bits \in Seq(V) /\ Len(bits) = n /\ d.def \in V
    <3>1. bits = [i \in 1 .. n |-> bits[i]]
      BY <2>2 DEF WritesOK
    <3>2. \A i \in 1 .. n : bits[i] \in V
      OBVIOUS
    <3>3. d.def \in V
      OBVIOUS
    <3>. HIDE DEF V
    <3>. QED BY <3>1, <3>2, <3>3
  <2>. HIDE DEF V
  <2>5. /\ bits' \in Seq(V) /\ DOMAIN bits' = 1 .. n + 1 /\ bits'[n + 1] = d.def
        /\ \A i \in 1 .. n : bits'[i] = bits[i]
    BY <2>1, <2>4
  <2>6. bits' = [i \in DOMAIN table' |-> bits'[i]]
    BY <2>3, <2>5
  <2>7. \A i \in 1 .. n + 1 : i \in 1 .. n \/ i = n + 1
    BY <2>2
  <2>8. SimOnlyAtBarriers'
    <3>. SUFFICES ASSUME NEW i \in 1 .. n + 1, (Sim(i)' /\ lockstep) \/ Flagged(table'[i], "readonly")
                  PROVE  bits'[i] = table'[i].def
      BY <2>1, <2>3 DEF SimOnlyAtBarriers
    <3>1. CASE i \in 1 .. n
      BY <2>2, <2>3, <2>5, <3>1 DEF WritesOK, SimOnlyAtBarriers, Sim
    <3>2. CASE i = n + 1
      BY <2>3, <2>5, <3>2
    <3>. QED BY <2>7, <3>1, <3>2
  <2>9. ToolsRefusedInLockstep'
    BY <2>1 DEF WritesOK, ToolsRefusedInLockstep
  <2>10. (\A k \in DOMAIN queue : IF desk = "typing" THEN Sets(queue[k]) ELSE queue[k].kind # "set_cvar")'
    BY <2>1 DEF WritesOK
  <2>11. Won(asked, bits, Len(queue))'
    <3>1. PICK q \in Nat : q = Len(queue) /\ DOMAIN queue = 1 .. q
      BY DEF WritesOK
    <3>2. \A m \in 1 .. q : queue[m].kind # "set_cvar"
      BY <2>1, <3>1 DEF WritesOK
    <3>3. Len(queue') = q /\ asked' = bits' /\ queue' = queue
      BY <2>1, <3>1
    <3>. QED BY <3>2, <3>3 DEF Won, For
  <2>12. ConsoleNeverKills'
    BY <2>1 DEF ConsoleNeverKills
  <2>. QED BY <2>1, <2>6, <2>8, <2>9, <2>10, <2>11, <2>12 DEF WritesOK
<1>. QED BY <1>1, <1>2

\* No queued command is of a cvar that is not SIM.
LEMMA NoneFor ==
    ASSUME TableOK, WritesOK, desk = "typing", NEW i \in DOMAIN table, NEW m \in DOMAIN queue, For(m, i)
    PROVE  Sim(i) /\ ~Flagged(table[i], "readonly")
<1>1. PICK j \in DOMAIN table :
          table[j].key = queue[m].key /\ Flagged(table[j], "sim") /\ ~Flagged(table[j], "readonly")
  BY DEF WritesOK, Sets
<1>2. j = i
  BY <1>1 DEF TableOK, Distinct, For
<1>. QED BY <1>1, <1>2 DEF Sim

\* An ordinary cvar is written at once.
LEMMA WriteKeeps ==
    ASSUME TableOK, WritesOK, desk = "typing",
           NEW i \in DOMAIN table, ~Flagged(table[i], "sim"), ~Flagged(table[i], "readonly"),
           NEW v, bits' = [bits EXCEPT ![i] = v], asked' = [asked EXCEPT ![i] = v],
           UNCHANGED <<desk, lockstep, table, sealed, row, alive, single, queue, fatal>>
    PROVE  WritesOK'
<1>1. bits = [x \in DOMAIN table |-> bits[x]] /\ asked = [x \in DOMAIN table |-> asked[x]]
  BY DEF WritesOK
<1>2. /\ bits' = [x \in DOMAIN table |-> bits'[x]] /\ asked' = [x \in DOMAIN table |-> asked'[x]]
      /\ bits'[i] = v /\ asked'[i] = v
      /\ \A x \in DOMAIN table : x # i => bits'[x] = bits[x] /\ asked'[x] = asked[x]
  BY <1>1
<1>3. SimOnlyAtBarriers'
  BY <1>2 DEF WritesOK, SimOnlyAtBarriers, Sim
<1>4. ToolsRefusedInLockstep'
  BY DEF WritesOK, ToolsRefusedInLockstep
<1>5. (\A k \in DOMAIN queue : IF desk = "typing" THEN Sets(queue[k]) ELSE queue[k].kind # "set_cvar")'
  BY DEF WritesOK, Sets
<1>6. Won(asked, bits, Len(queue))'
  <2>1. DOMAIN queue = 1 .. Len(queue)
    BY DEF WritesOK
  <2>2. \A m \in 1 .. Len(queue) : ~For(m, i)
    BY <2>1, NoneFor DEF Sim
  <2>3. \A m, x : For(m, x)' <=> For(m, x)
    BY DEF For
  <2>4. \A x \in DOMAIN table :
            \/ asked'[x] = bits'[x] /\ \A m \in 1 .. Len(queue) : ~For(m, x)
            \/ \E m \in 1 .. Len(queue) :
                   For(m, x) /\ asked'[x] = queue[m].v /\ \A k \in m + 1 .. Len(queue) : ~For(k, x)
    <3>. SUFFICES ASSUME NEW x \in DOMAIN table
                  PROVE  \/ asked'[x] = bits'[x] /\ \A m \in 1 .. Len(queue) : ~For(m, x)
                         \/ \E m \in 1 .. Len(queue) :
                                For(m, x) /\ asked'[x] = queue[m].v /\ \A k \in m + 1 .. Len(queue) : ~For(k, x)
      OBVIOUS
    <3>1. CASE x = i
      BY <1>2, <2>2, <3>1
    <3>2. CASE x # i
      BY <1>2, <3>2 DEF WritesOK, Won
    <3>. QED BY <3>1, <3>2
  <2>. QED BY <2>3, <2>4 DEF Won
<1>7. ConsoleNeverKills'
  BY DEF WritesOK, ConsoleNeverKills
<1>. QED BY <1>2, <1>3, <1>4, <1>5, <1>6, <1>7 DEF WritesOK

\* A queue with one more command.
OneMore(q, c) ==
    \E n \in Nat :
        /\ n = Len(q) /\ DOMAIN q = 1 .. n
        /\ Len(Append(q, c)) = n + 1 /\ DOMAIN Append(q, c) = 1 .. n + 1
        /\ Append(q, c)[n + 1] = c /\ \A m \in 1 .. n : Append(q, c)[m] = q[m]

LEMMA QueueGrows ==
    ASSUME NEW q, q \in Seq(Range(q)), NEW c
    PROVE  Append(q, c) \in Seq(Range(Append(q, c))) /\ OneMore(q, c)
<1>. DEFINE S == Range(q) \cup {c}
            r == Append(q, c)
<1>1. q \in Seq(S) /\ c \in S
  OBVIOUS
<1>. HIDE DEF S
<1>2. PICK n \in Nat : n = Len(q) /\ DOMAIN q = 1 .. n
  BY <1>1
<1>3. r \in Seq(S) /\ Len(r) = n + 1 /\ DOMAIN r = 1 .. n + 1 /\ r[n + 1] = c /\ \A m \in 1 .. n : r[m] = q[m]
  BY <1>1, <1>2
<1>. HIDE DEF r
<1>4. r \in Seq(Range(r))
  <2>1. r = [m \in 1 .. n + 1 |-> r[m]]
    BY <1>3
  <2>2. \A m \in 1 .. n + 1 : r[m] \in Range(r)
    BY <1>3 DEF Range
  <2>3. n + 1 \in Nat
    OBVIOUS
  <2>. QED BY <2>1, <2>2, <2>3
<1>. QED BY <1>2, <1>3, <1>4 DEF r, OneMore

\* A SIM cvar is written by a command, which is the last one for it.
LEMMA SealKeeps ==
    ASSUME TableOK, WritesOK, desk = "typing", ~lockstep,
           NEW i \in DOMAIN table, Flagged(table[i], "sim"), ~Flagged(table[i], "readonly"),
           NEW v, NEW c, c.kind = "set_cvar", c.key = table[i].key, c.v = v,
           queue' = Append(queue, c), asked' = [asked EXCEPT ![i] = v],
           UNCHANGED <<desk, lockstep, table, bits, sealed, row, alive, single, fatal>>
    PROVE  WritesOK'
<1>1. queue \in Seq(Range(queue)) /\ asked = [x \in DOMAIN table |-> asked[x]]
  BY DEF WritesOK
<1>2. PICK n \in Nat :
          /\ n = Len(queue) /\ DOMAIN queue = 1 .. n
          /\ Len(Append(queue, c)) = n + 1 /\ DOMAIN Append(queue, c) = 1 .. n + 1
          /\ Append(queue, c)[n + 1] = c /\ \A m \in 1 .. n : Append(queue, c)[m] = queue[m]
  <2>1. OneMore(queue, c)
    BY <1>1, QueueGrows
  <2>. QED BY <2>1 DEF OneMore
<1>3. queue' \in Seq(Range(queue'))
  <2>1. Append(queue, c) \in Seq(Range(Append(queue, c)))
    BY <1>1, QueueGrows
  <2>. QED BY <2>1
<1>4. /\ Len(queue') = n + 1 /\ DOMAIN queue' = 1 .. n + 1
      /\ queue'[n + 1] = c /\ \A m \in 1 .. n : queue'[m] = queue[m]
  BY <1>2
<1>5. /\ asked' = [x \in DOMAIN table |-> asked'[x]] /\ asked'[i] = v
      /\ \A x \in DOMAIN table : x # i => asked'[x] = asked[x]
  BY <1>1
<1>6. \A m \in 1 .. n + 1 : m \in 1 .. n \/ m = n + 1
  OBVIOUS
<1>7. (\A k \in DOMAIN queue : IF desk = "typing" THEN Sets(queue[k]) ELSE queue[k].kind # "set_cvar")'
  <2>1. \A k \in 1 .. n : Sets(queue[k])
    BY <1>2 DEF WritesOK
  <2>2. Sets(c)
    BY DEF Sets
  <2>3. \A k \in 1 .. n + 1 : Sets(queue'[k])
    BY <1>4, <1>6, <2>1, <2>2
  <2>4. \A x : Sets(x)' <=> Sets(x)
    BY DEF Sets
  <2>. QED BY <1>4, <2>3 DEF Sets
<1>8. SimOnlyAtBarriers' /\ ToolsRefusedInLockstep'
  BY DEF WritesOK, SimOnlyAtBarriers, ToolsRefusedInLockstep, Sim
<1>9. \A x \in DOMAIN table : For(n + 1, x)' <=> x = i
  BY <1>4 DEF For, TableOK, Distinct
<1>10. \A x \in DOMAIN table : \A m \in 1 .. n : For(m, x)' <=> For(m, x)
  BY <1>4 DEF For
<1>11. \A x \in DOMAIN table :
          \/ asked'[x] = bits'[x] /\ \A m \in 1 .. n + 1 : ~For(m, x)'
          \/ \E m \in 1 .. n + 1 :
                 For(m, x)' /\ asked'[x] = queue'[m].v /\ \A k \in m + 1 .. n + 1 : ~For(k, x)'
  <2>. SUFFICES ASSUME NEW x \in DOMAIN table
                PROVE  \/ asked'[x] = bits'[x] /\ \A m \in 1 .. n + 1 : ~For(m, x)'
                       \/ \E m \in 1 .. n + 1 :
                              For(m, x)' /\ asked'[x] = queue'[m].v /\ \A k \in m + 1 .. n + 1 : ~For(k, x)'
    OBVIOUS
  <2>1. CASE x = i
    <3>1. n + 1 \in 1 .. n + 1 /\ (n + 1) + 1 .. n + 1 = {}
      OBVIOUS
    <3>. QED BY <1>4, <1>5, <1>9, <2>1, <3>1
  <2>2. CASE x # i
    <3>1. ~For(n + 1, x)' /\ asked'[x] = asked[x] /\ bits'[x] = bits[x]
      BY <1>5, <1>9, <2>2
    <3>2. \/ asked[x] = bits[x] /\ \A m \in 1 .. n : ~For(m, x)
          \/ \E m \in 1 .. n : For(m, x) /\ asked[x] = queue[m].v /\ \A k \in m + 1 .. n : ~For(k, x)
      BY <1>2 DEF WritesOK, Won
    <3>3. CASE asked[x] = bits[x] /\ \A m \in 1 .. n : ~For(m, x)
      BY <1>6, <1>10, <3>1, <3>3
    <3>4. CASE \E m \in 1 .. n : For(m, x) /\ asked[x] = queue[m].v /\ \A k \in m + 1 .. n : ~For(k, x)
      <4>1. PICK m \in 1 .. n : For(m, x) /\ asked[x] = queue[m].v /\ \A k \in m + 1 .. n : ~For(k, x)
        BY <3>4
      <4>2. \A k \in m + 1 .. n + 1 : (k \in m + 1 .. n /\ k \in 1 .. n) \/ k = n + 1
        OBVIOUS
      <4>3. m \in 1 .. n + 1 /\ For(m, x)' /\ asked'[x] = queue'[m].v
        BY <1>4, <1>10, <3>1, <4>1
      <4>4. \A k \in m + 1 .. n + 1 : ~For(k, x)'
        BY <1>10, <3>1, <4>1, <4>2
      <4>. QED BY <4>3, <4>4
    <3>. QED BY <3>2, <3>3, <3>4
  <2>. QED BY <2>1, <2>2
<1>12. Won(asked, bits, Len(queue))'
  BY <1>4, <1>11 DEF Won
<1>13. ConsoleNeverKills'
  BY DEF WritesOK, ConsoleNeverKills
<1>14. (bits = [x \in DOMAIN table |-> bits[x]])' /\ (sealed = [x \in DOMAIN table |-> sealed[x]])'
  BY DEF WritesOK
<1>15. (row = [x \in EntitySlots |-> row[x]])' /\ (alive \subseteq EntitySlots)'
  BY DEF WritesOK
<1>. QED BY <1>3, <1>5, <1>7, <1>8, <1>12, <1>13, <1>14, <1>15 DEF WritesOK

\* An edit is queued, which sets no cvar.
LEMMA EditKeeps ==
    ASSUME WritesOK, desk # "typing", ~lockstep,
           NEW c, c.kind # "set_cvar", queue' = Append(queue, c),
           UNCHANGED <<desk, lockstep, table, bits, sealed, asked, row, alive, single>>
    PROVE  WritesOK'
<1>1. queue \in Seq(Range(queue))
  BY DEF WritesOK
<1>2. PICK n \in Nat :
          /\ n = Len(queue) /\ DOMAIN queue = 1 .. n
          /\ Len(Append(queue, c)) = n + 1 /\ DOMAIN Append(queue, c) = 1 .. n + 1
          /\ Append(queue, c)[n + 1] = c /\ \A m \in 1 .. n : Append(queue, c)[m] = queue[m]
  <2>1. OneMore(queue, c)
    BY <1>1, QueueGrows
  <2>. QED BY <2>1 DEF OneMore
<1>3. queue' \in Seq(Range(queue'))
  <2>1. Append(queue, c) \in Seq(Range(Append(queue, c)))
    BY <1>1, QueueGrows
  <2>. QED BY <2>1
<1>4. Len(queue') = n + 1 /\ DOMAIN queue' = 1 .. n + 1 /\ \A m \in 1 .. n + 1 : queue'[m].kind # "set_cvar"
  <2>1. \A m \in 1 .. n + 1 : m \in 1 .. n \/ m = n + 1
    OBVIOUS
  <2>2. \A m \in 1 .. n : queue[m].kind # "set_cvar"
    BY <1>2 DEF WritesOK
  <2>. QED BY <1>2, <2>1, <2>2
<1>5. (\A k \in DOMAIN queue : IF desk = "typing" THEN Sets(queue[k]) ELSE queue[k].kind # "set_cvar")'
  BY <1>4
<1>6. SimOnlyAtBarriers' /\ ToolsRefusedInLockstep'
  BY DEF WritesOK, SimOnlyAtBarriers, ToolsRefusedInLockstep, Sim
<1>7. Won(asked, bits, Len(queue))'
  <2>1. \A x \in DOMAIN table : asked[x] = bits[x]
    <3>1. \A m \in 1 .. n : queue[m].kind # "set_cvar"
      BY <1>2 DEF WritesOK
    <3>. QED BY <1>2, <3>1 DEF WritesOK, Won, For
  <2>. QED BY <1>4, <2>1 DEF Won, For
<1>8. ConsoleNeverKills'
  BY DEF ConsoleNeverKills
<1>9. /\ (bits = [x \in DOMAIN table |-> bits[x]])' /\ (sealed = [x \in DOMAIN table |-> sealed[x]])'
      /\ (asked = [x \in DOMAIN table |-> asked[x]])'
  BY DEF WritesOK
<1>10. (row = [x \in EntitySlots |-> row[x]])' /\ (alive \subseteq EntitySlots)'
  BY DEF WritesOK
<1>. QED BY <1>3, <1>5, <1>6, <1>7, <1>8, <1>9, <1>10 DEF WritesOK

LEMMA SetTypedWrites ==
    ASSUME TableOK, WritesOK, NEW d \in Descs, NEW kind, NEW v, SetTyped(d.key, kind, v)
    PROVE  WritesOK'
<1>. DEFINE i == Find(d.key)
<1>1. /\ desk = "typing"
      /\ UNCHANGED <<desk, lockstep, table, sealed, row, alive, single, queue>>
      /\ IF i # 0 /\ table[i].kind # kind THEN fatal' = "kind" /\ UNCHANGED <<bits, asked>>
         ELSE /\ bits' = SetAt(i, v).bits /\ UNCHANGED fatal
              /\ asked' = IF WriteError(i) = Ok THEN [asked EXCEPT ![i] = v] ELSE asked
  BY DEF SetTyped, entity_vars
<1>2. d.key \in Int
  BY ConsoleAssumption DEF ConsoleAssumption
<1>3. i # 0 => i \in DOMAIN table
  BY <1>2, FindFinds
<1>. HIDE DEF i
<1>4. CASE i # 0 /\ table[i].kind # kind
  BY <1>1, <1>4, WritesStay
<1>5. CASE ~(i # 0 /\ table[i].kind # kind) /\ WriteError(i) # Ok
  <2>1. UNCHANGED <<bits, asked, fatal>>
    BY <1>1, <1>5 DEF SetAt
  <2>. QED BY <1>1, <2>1, WritesStay
<1>6. CASE ~(i # 0 /\ table[i].kind # kind) /\ WriteError(i) = Ok
  <2>1. i # 0 /\ ~Flagged(table[i], "readonly") /\ ~Flagged(table[i], "sim")
    BY <1>6 DEF WriteError, Ok
  <2>2. bits' = [bits EXCEPT ![i] = v] /\ asked' = [asked EXCEPT ![i] = v] /\ UNCHANGED fatal
    BY <1>1, <1>6 DEF SetAt
  <2>. QED BY <1>1, <1>3, <2>1, <2>2, WriteKeeps
<1>. QED BY <1>4, <1>5, <1>6

\* What a line does: it is refused, or writes a cvar, or seals a command for it.
LEMMA DispatchDoes ==
    ASSUME TableOK, NEW line \in Lines
    PROVE  \/ Dispatch(line).err # Ok /\ Dispatch(line).bits = bits /\ Dispatch(line).queue = queue
           \/ \E i \in DOMAIN table :
                  /\ ~lockstep /\ Find(line.key) = i /\ ~Flagged(table[i], "readonly") /\ Dispatch(line).err = Ok
                  /\ \/ /\ Flagged(table[i], "sim") /\ Dispatch(line).bits = bits
                        /\ Dispatch(line).queue =
                               Append(queue, [kind |-> "set_cvar", key |-> table[i].key, v |-> Dispatch(line).v])
                     \/ /\ ~Flagged(table[i], "sim") /\ Dispatch(line).queue = queue
                        /\ Dispatch(line).bits = [bits EXCEPT ![i] = Dispatch(line).v]
<1>. DEFINE nothing == /\ Dispatch(line).err # Ok
                       /\ Dispatch(line).bits = bits /\ Dispatch(line).queue = queue
<1>1. \A err : Unsaid(err).err = err /\ Unsaid(err).bits = bits /\ Unsaid(err).queue = queue
  BY DEF Unsaid, Said
<1>2. CASE line.err # Ok
  BY <1>1, <1>2 DEF Dispatch
<1>3. CASE line.err = Ok /\ line.cmd # "set"
  BY <1>1, <1>3 DEF Dispatch, Ok
<1>4. CASE line.err = Ok /\ line.cmd = "set" /\ line.argc # 2
  BY <1>1, <1>4 DEF Dispatch, Ok
<1>5. CASE line.err = Ok /\ line.cmd = "set" /\ line.argc = 2 /\ lockstep
  BY <1>1, <1>5 DEF Dispatch, Ok
<1>6. CASE line.err = Ok /\ line.cmd = "set" /\ line.argc = 2 /\ ~lockstep
  <2>1. Dispatch(line) = CmdSet(line.key, line.x)
    BY <1>6 DEF Dispatch
  <2>2. line.key \in Int
    <3>1. line.key \in {d.key : d \in Descs}
      BY <1>6 DEF Lines, Ok
    <3>. QED BY <3>1, ConsoleAssumption DEF ConsoleAssumption
  <2>3. PICK i : i = Find(line.key)
    OBVIOUS
  <2>4. PICK p : p = ParseRaw(table[i], line.x)
    OBVIOUS
  <2>5. Dispatch(line) = IF i = 0 THEN Unsaid("cvar not found") ELSE Parsed(i, p)
    BY <2>1, <2>3, <2>4 DEF CmdSet, SetFound
  <2>6. CASE i = 0
    <3>1. Dispatch(line) = Unsaid("cvar not found")
      BY <2>5, <2>6
    <3>2. /\ Unsaid("cvar not found").err = "cvar not found"
          /\ Unsaid("cvar not found").bits = bits /\ Unsaid("cvar not found").queue = queue
      BY <1>1
    <3>3. nothing
      <4>. HIDE DEF nothing
      <4>1. Dispatch(line).err = "cvar not found" /\ Dispatch(line).bits = bits /\ Dispatch(line).queue = queue
        BY <3>1, <3>2
      <4>. QED BY <4>1 DEF nothing, Ok
    <3>. QED BY <3>3
  <2>7. CASE i # 0
    <3>1. i \in DOMAIN table /\ Dispatch(line) = Parsed(i, p)
      BY <2>2, <2>3, <2>5, <2>7, FindFinds
    <3>2. CASE ~p.ok
      BY <1>1, <3>1, <3>2 DEF Parsed, Ok
    <3>3. CASE p.ok /\ Flagged(table[i], "readonly")
      BY <1>1, <3>1, <3>3 DEF Parsed, Ok
    <3>4. CASE p.ok /\ ~Flagged(table[i], "readonly") /\ Flagged(table[i], "sim")
      <4>1. Dispatch(line) = Sealed(i, p.v)
        BY <3>1, <3>4 DEF Parsed
      <4>2. /\ Dispatch(line).err = Ok /\ Dispatch(line).v = p.v /\ Dispatch(line).bits = bits
            /\ Dispatch(line).queue = Append(queue, [kind |-> "set_cvar", key |-> table[i].key, v |-> p.v])
        BY <4>1 DEF Sealed, Said
      <4>. QED BY <1>6, <2>3, <3>1, <3>4, <4>2
    <3>5. CASE p.ok /\ ~Flagged(table[i], "readonly") /\ ~Flagged(table[i], "sim")
      <4>1. Dispatch(line) = Stored(i, p.v, SetAt(i, p.v).bits)
        BY <3>1, <3>5 DEF Parsed
      <4>2. SetAt(i, p.v).bits = [bits EXCEPT ![i] = p.v]
        BY <2>7, <3>5 DEF SetAt, WriteError
      <4>3. /\ Dispatch(line).err = Ok /\ Dispatch(line).v = p.v /\ Dispatch(line).queue = queue
            /\ Dispatch(line).bits = [bits EXCEPT ![i] = p.v]
        BY <4>1, <4>2 DEF Stored, Said
      <4>. QED BY <1>6, <2>3, <3>1, <3>5, <4>3
    <3>. QED BY <3>2, <3>3, <3>4, <3>5
  <2>. QED BY <2>6, <2>7
<1>. QED BY <1>2, <1>3, <1>4, <1>5, <1>6

LEMMA ExecWrites ==
    ASSUME TableOK, WritesOK, NEW line \in Lines, Exec(line)
    PROVE  WritesOK'
<1>1. PICK said : said = Dispatch(line)
  OBVIOUS
<1>2. /\ desk = "typing" /\ UNCHANGED <<desk, lockstep, table, sealed, row, alive, single, fatal>>
      /\ bits' = said.bits /\ queue' = said.queue
      /\ asked' = IF said.err = Ok THEN [asked EXCEPT ![Find(line.key)] = said.v] ELSE asked
  BY <1>1 DEF Exec, entity_vars
<1>3. CASE said.err # Ok /\ said.bits = bits /\ said.queue = queue
  BY <1>2, <1>3, WritesStay
<1>4. CASE \E i \in DOMAIN table :
               /\ ~lockstep /\ Find(line.key) = i /\ ~Flagged(table[i], "readonly") /\ said.err = Ok
               /\ Flagged(table[i], "sim") /\ said.bits = bits
               /\ said.queue = Append(queue, [kind |-> "set_cvar", key |-> table[i].key, v |-> said.v])
  <2>1. PICK i \in DOMAIN table :
               /\ ~lockstep /\ Find(line.key) = i /\ ~Flagged(table[i], "readonly") /\ said.err = Ok
               /\ Flagged(table[i], "sim") /\ said.bits = bits
               /\ said.queue = Append(queue, [kind |-> "set_cvar", key |-> table[i].key, v |-> said.v])
    BY <1>4
  <2>2. PICK c : c = [kind |-> "set_cvar", key |-> table[i].key, v |-> said.v]
    OBVIOUS
  <2>3. c.kind = "set_cvar" /\ c.key = table[i].key /\ c.v = said.v
    BY <2>2
  <2>4. queue' = Append(queue, c) /\ asked' = [asked EXCEPT ![i] = said.v] /\ bits' = bits
    BY <1>2, <2>1, <2>2
  <2>. QED BY <1>2, <2>1, <2>3, <2>4, SealKeeps
<1>5. CASE \E i \in DOMAIN table :
               /\ ~lockstep /\ Find(line.key) = i /\ ~Flagged(table[i], "readonly") /\ said.err = Ok
               /\ ~Flagged(table[i], "sim") /\ said.queue = queue /\ said.bits = [bits EXCEPT ![i] = said.v]
  <2>1. PICK i \in DOMAIN table :
               /\ ~lockstep /\ Find(line.key) = i /\ ~Flagged(table[i], "readonly") /\ said.err = Ok
               /\ ~Flagged(table[i], "sim") /\ said.queue = queue /\ said.bits = [bits EXCEPT ![i] = said.v]
    BY <1>5
  <2>2. bits' = [bits EXCEPT ![i] = said.v] /\ asked' = [asked EXCEPT ![i] = said.v] /\ queue' = queue
    BY <1>2, <2>1
  <2>. QED BY <1>2, <2>1, <2>2, WriteKeeps
<1>. QED BY <1>1, <1>3, <1>4, <1>5, DispatchDoes

\* Two who have the last value of each have the same.
LEMMA LastIsOne ==
    ASSUME NEW a, NEW b, NEW b0, NEW n \in Nat, Won(a, b0, n), Won(b, b0, n), NEW i \in DOMAIN table
    PROVE  a[i] = b[i]
<1>1. CASE \A m \in 1 .. n : ~For(m, i)
  BY <1>1 DEF Won
<1>2. CASE \E m \in 1 .. n : For(m, i)
  <2>1. PICK m \in 1 .. n : For(m, i) /\ a[i] = queue[m].v /\ \A k \in m + 1 .. n : ~For(k, i)
    BY <1>2 DEF Won
  <2>2. PICK k \in 1 .. n : For(k, i) /\ b[i] = queue[k].v /\ \A l \in k + 1 .. n : ~For(l, i)
    BY <1>2 DEF Won
  <2>3. m = k
    <3>1. ~(m < k)
      <4>. SUFFICES ASSUME m < k PROVE FALSE
        OBVIOUS
      <4>1. k \in m + 1 .. n
        OBVIOUS
      <4>. QED BY <2>1, <2>2, <4>1
    <3>2. ~(k < m)
      <4>. SUFFICES ASSUME k < m PROVE FALSE
        OBVIOUS
      <4>1. m \in k + 1 .. n
        OBVIOUS
      <4>. QED BY <2>1, <2>2, <4>1
    <3>. QED BY <3>1, <3>2
  <2>. QED BY <2>1, <2>2, <2>3
<1>. QED BY <1>1, <1>2

LEMMA EmptyIs ==
    ASSUME NEW q, q = <<>>
    PROVE  Len(q) = 0 /\ DOMAIN q = {} /\ q \in Seq(Range(q))
<1>1. Len(q) = 0 /\ \A S : q \in Seq(S)
  OBVIOUS
<1>2. DOMAIN q = 1 .. 0 /\ 1 .. 0 = {}
  BY <1>1
<1>. QED BY <1>1, <1>2

LEMMA BarrierWrites ==
    ASSUME TableOK, WritesOK, NEW gone, NEW born, NEW name, Barrier(gone, born, name)
    PROVE  WritesOK'
<1>1. PICK start :
          start = [bits |-> bits, single |-> single, dead |-> FALSE, alive |-> alive', gen |-> gen',
                   row |-> [i \in EntitySlots |-> IF i \in born THEN 0 ELSE row[i]]]
  OBVIOUS
<1>2. PICK end : end = Performed(start)
  OBVIOUS
<1>3. /\ desk \in {"typing", "editing"} /\ UNCHANGED <<desk, lockstep, table, asked>>
      /\ bits' = end.bits /\ row' = end.row /\ single' = end.single /\ sealed' = end.bits
      /\ fatal' = IF end.dead THEN "stale edit" ELSE fatal
      /\ queue' = <<>>
      /\ alive' = (alive \ gone) \cup born /\ born \subseteq EntitySlots
  BY <1>1, <1>2 DEF Barrier
<1>4. /\ Tells(start) /\ start.bits = bits /\ start.single = single
      /\ start.row = [i \in EntitySlots |-> IF i \in born THEN 0 ELSE row[i]]
  <2>1. /\ start.bits = bits /\ start.single = single /\ start.alive = alive' /\ start.gen = gen'
        /\ start.row = [i \in EntitySlots |-> IF i \in born THEN 0 ELSE row[i]]
    BY <1>1
  <2>. QED BY <1>1, <2>1 DEF Tells
<1>5. start.row = [i \in EntitySlots |-> start.row[i]] /\ \A i \in EntitySlots : i \notin born => start.row[i] = row[i]
  BY <1>4
<1>6. start.bits = [i \in DOMAIN table |-> start.bits[i]]
  BY <1>4 DEF WritesOK
<1>7. PICK n \in Nat : n = Len(queue) /\ DOMAIN queue = 1 .. n
  BY DEF WritesOK
<1>8. Won(asked, bits, n)
  BY <1>7 DEF WritesOK
<1>. DEFINE Left == /\ bits' = [i \in DOMAIN table |-> bits'[i]] /\ row' = [x \in EntitySlots |-> row'[x]]
                    /\ \A i \in DOMAIN table : asked[i] = bits'[i]
                    /\ \A i \in DOMAIN table : Flagged(table[i], "readonly") => bits'[i] = bits[i]
                    /\ desk = "typing" => fatal' = fatal
<1>9. ASSUME desk = "typing" PROVE Left
  <2>1. \A k \in 1 .. n : Sets(queue[k])
    BY <1>7, <1>9 DEF WritesOK
  <2>2. n = Len(queue)
    BY <1>7
  <2>3. /\ end.dead = FALSE /\ end.row = start.row
        /\ end.bits = [i \in DOMAIN table |-> end.bits[i]]
        /\ Won(end.bits, start.bits, n)
    BY <1>2, <1>4, <1>6, <2>1, <2>2, CvarsPerformed
  <2>4. \A i \in DOMAIN table : asked[i] = bits'[i]
    <3>1. Won(end.bits, bits, n)
      BY <1>4, <2>3
    <3>. QED BY <1>3, <1>8, <3>1, LastIsOne
  <2>5. \A i \in DOMAIN table : Flagged(table[i], "readonly") => bits'[i] = bits[i]
    <3>. SUFFICES ASSUME NEW i \in DOMAIN table, Flagged(table[i], "readonly") PROVE bits'[i] = bits[i]
      OBVIOUS
    <3>1. \A m \in 1 .. n : ~For(m, i)
      BY <1>7, <1>9, NoneFor
    <3>. QED BY <1>3, <1>4, <2>3, <3>1 DEF Won
  <2>6. end.row = [x \in EntitySlots |-> end.row[x]]
    BY <1>5, <2>3
  <2>. QED BY <1>3, <2>3, <2>4, <2>5, <2>6
<1>10. ASSUME desk = "editing" PROVE Left
  <2>1. \A k \in 1 .. n : queue[k].kind # "set_cvar"
    BY <1>7, <1>10 DEF WritesOK
  <2>2. n = Len(queue)
    BY <1>7
  <2>3. end.bits = start.bits /\ end.row = [x \in EntitySlots |-> end.row[x]]
    BY <1>2, <1>4, <1>5, <2>1, <2>2, EditsPerformed
  <2>4. \A i \in DOMAIN table : asked[i] = bits[i]
    BY <1>8, <2>1 DEF Won, For
  <2>. QED BY <1>3, <1>4, <1>6, <1>10, <2>3, <2>4
<1>11. Left
  BY <1>3, <1>9, <1>10
<1>12. lockstep => end = start
  <2>1. lockstep => queue = <<>>
    BY DEF WritesOK, ToolsRefusedInLockstep
  <2>. QED BY <1>2, <2>1, NothingPerformed
<1>13. SimOnlyAtBarriers'
  <2>. SUFFICES ASSUME NEW i \in DOMAIN table, (Sim(i) /\ lockstep) \/ Flagged(table[i], "readonly")
                PROVE  bits'[i] = table[i].def
    BY <1>3 DEF SimOnlyAtBarriers, Sim
  <2>1. bits[i] = table[i].def
    BY DEF WritesOK, SimOnlyAtBarriers
  <2>2. bits'[i] = bits[i]
    BY <1>3, <1>4, <1>11, <1>12
  <2>. QED BY <2>1, <2>2
<1>14. ToolsRefusedInLockstep'
  <2>. SUFFICES ASSUME lockstep PROVE single' = 0 /\ \A i \in alive' : row'[i] = 0
    BY <1>3 DEF ToolsRefusedInLockstep
  <2>1. single = 0 /\ \A i \in alive : row[i] = 0
    BY DEF WritesOK, ToolsRefusedInLockstep
  <2>2. end.single = single /\ end.row = start.row
    BY <1>4, <1>12
  <2>3. \A i \in EntitySlots : start.row[i] = IF i \in born THEN 0 ELSE row[i]
    BY <1>4
  <2>4. \A i \in alive' : i \in EntitySlots /\ (i \in born \/ i \in alive)
    BY <1>3 DEF WritesOK
  <2>. QED BY <1>3, <2>1, <2>2, <2>3, <2>4
<1>15. Won(asked, bits, Len(queue))'
  <2>1. Len(queue') = 0
    BY <1>3, EmptyIs
  <2>10. \A m \in 1 .. 0 : FALSE
    OBVIOUS
  <2>. QED BY <1>3, <1>11, <2>1, <2>10 DEF Won
<1>16. ConsoleNeverKills'
  BY <1>3, <1>11 DEF WritesOK, ConsoleNeverKills
<1>17. /\ queue' \in Seq(Range(queue'))
       /\ (\A k \in DOMAIN queue : IF desk = "typing" THEN Sets(queue[k]) ELSE queue[k].kind # "set_cvar")'
  <2>1. queue' \in Seq(Range(queue')) /\ DOMAIN queue' = {}
    BY <1>3, EmptyIs
  <2>. QED BY <2>1
<1>18. sealed' = [i \in DOMAIN table' |-> sealed'[i]] /\ asked' = [i \in DOMAIN table' |-> asked'[i]]
  BY <1>3, <1>11 DEF WritesOK
<1>19. alive' \subseteq EntitySlots
  BY <1>3 DEF WritesOK
<1>. QED BY <1>3, <1>11, <1>13, <1>14, <1>15, <1>16, <1>17, <1>18, <1>19 DEF WritesOK

-----------------------------------------------------------------------------
(* The invariant holds from the start and after each step.                 *)

LEMMA InitKeeps == ConsoleInit => ConsoleIInv
<1>. SUFFICES ASSUME ConsoleInit PROVE ConsoleIInv
  OBVIOUS
<1>1. PICK start \in Fresh \cup Wired : InitOf(start[1], start[2], start[3])
  BY DEF ConsoleInit
<1>2. PICK d, locked, t : InitOf(d, locked, t) /\ ((t = <<>> /\ d # "typing" /\ d # "editing") \/ t = Program)
  <2>1. start \in Fresh => start[3] = <<>> /\ start[1] # "typing" /\ start[1] # "editing"
    <3>. SUFFICES ASSUME start \in Fresh PROVE start[3] = <<>> /\ start[1] # "typing" /\ start[1] # "editing"
      OBVIOUS
    <3>1. PICK x \in {"cvars", "commands", "reading"} : start = <<x, FALSE, <<>>>>
      BY DEF Fresh
    <3>2. start[1] = x /\ start[3] = <<>>
      BY <3>1
    <3>. QED BY <3>2
  <2>2. start \in Wired => start[3] = Program
    BY DEF Wired
  <2>3. (start[3] = <<>> /\ start[1] # "typing" /\ start[1] # "editing") \/ start[3] = Program
    BY <1>1, <2>1, <2>2
  <2>. QED BY <1>1, <2>3
<1>3. t \in Seq(Descs) /\ Distinct(t)
  <2>1. CASE t = <<>>
    <3>1. DOMAIN t = {} /\ \A T : t \in Seq(T)
      BY <2>1, EmptyIs
    <3>. QED BY <3>1 DEF Distinct
  <2>2. CASE t = Program
    BY <2>2, ConsoleAssumption DEF ConsoleAssumption, Distinct
  <2>. QED BY <1>2, <2>1, <2>2
<1>4. table = t /\ sorted = IndexOf(t)
  BY <1>2 DEF InitOf
<1>5. TableOK
  BY <1>3, <1>4, IndexOrders DEF TableOK
<1>6. CommandsOK
  <2>1. cmds = <<>> /\ cmd_sorted = <<>>
    BY <1>2 DEF InitOf
  <2>2. Len(cmds) = 0 /\ DOMAIN cmds = {} /\ \A T : cmds \in Seq(T)
    BY <2>1, EmptyIs
  <2>3. Orders(CmdOrder(cmds), Len(cmds), cmd_sorted)
    BY <2>1, <2>2, NothingInOrder
  <2>. QED BY <2>2, <2>3 DEF CommandsOK
<1>7. HistoryOK
  <2>1. /\ hist = [i \in 0 .. HistoryCap - 1 |-> None] /\ hist_head = 0 /\ hist_count = 0 /\ lines = <<>>
        /\ HistoryCap \in Nat \ {0}
    BY <1>2, ConsoleAssumption DEF InitOf, ConsoleAssumption
  <2>2. Len(lines) = 0 /\ lines \in Seq(Lines)
    BY <2>1, EmptyIs
  <2>3. \A i \in 0 .. hist_count - 1 : FALSE
    BY <2>1
  <2>. QED BY <2>1, <2>2, <2>3 DEF HistoryOK
<1>8. PathOK
  BY <1>2 DEF InitOf, Answer, PathOK
<1>9. WritesOK
  <2>1. /\ bits = [i \in DOMAIN table |-> table[i].def] /\ sealed = bits /\ asked = bits
        /\ row = [i \in EntitySlots |-> 0] /\ alive = {} /\ single = 0 /\ queue = <<>> /\ fatal = "none"
    BY <1>2 DEF InitOf
  <2>2. Len(queue) = 0 /\ DOMAIN queue = {} /\ queue \in Seq(Range(queue))
    BY <2>1, EmptyIs
  <2>3. \A m \in 1 .. 0 : FALSE
    OBVIOUS
  <2>4. SimOnlyAtBarriers /\ ToolsRefusedInLockstep /\ ConsoleNeverKills
    BY <2>1 DEF SimOnlyAtBarriers, ToolsRefusedInLockstep, ConsoleNeverKills
  <2>5. Won(asked, bits, Len(queue))
    BY <2>1, <2>2, <2>3 DEF Won
  <2>. QED BY <2>1, <2>2, <2>4, <2>5 DEF WritesOK
<1>. QED BY <1>5, <1>6, <1>7, <1>8, <1>9 DEF ConsoleIInv

\* A path is resolved as the world is.
LEMMA ResolvePath ==
    ASSUME WritesOK, PathOK, NEW path \in Paths, Resolve(path)
    PROVE  PathOK'
<1>1. CASE path.head = "name" /\ path.who \notin interned /\ Cardinality(interned) >= MaxStrings
  <2>1. UNCHANGED <<got, ref, alive, gen, name_of>>
    BY <1>1 DEF Resolve
  <2>. QED BY <2>1, PathStays
<1>2. CASE ~(path.head = "name" /\ path.who \notin interned /\ Cardinality(interned) >= MaxStrings)
  <2>1. /\ ref' = Resolved(path) /\ UNCHANGED <<alive, gen, name_of>>
        /\ got' = Answer("path", IF path.head = "name" THEN path.who ELSE "none", PathError(path))
    BY <1>2 DEF Resolve
  <2>2. got'.in = (IF path.head = "name" THEN path.who ELSE "none") /\ got'.out = PathError(path)
    BY <2>1 DEF Answer
  <2>3. CASE path.head = "name" /\ PathError(path) = Ok
    <3>1. alive \subseteq EntitySlots /\ EntitySlots \subseteq Nat /\ IsFiniteSet(EntitySlots)
      BY ConsoleAssumption DEF ConsoleAssumption, WritesOK
    <3>2. /\ Resolved(path).idx \in alive /\ Resolved(path).gen = gen[Resolved(path).idx]
          /\ \A i \in alive : name_of[i] = path.who <=> i = Resolved(path).idx
      BY <2>3, <3>1, PathIsExact
    <3>3. HasRow(ref)' /\ \A i \in alive' : name_of'[i] = got'.in <=> i = ref'.idx
      BY <2>1, <2>2, <2>3, <3>2 DEF HasRow
    <3>. QED BY <3>3 DEF PathOK
  <2>4. CASE ~(path.head = "name" /\ PathError(path) = Ok)
    BY <2>2, <2>4 DEF PathOK
  <2>. QED BY <2>3, <2>4
<1>. QED BY <1>1, <1>2

LEMMA NoPath == ASSUME got'.op # "path" PROVE PathOK'
BY DEF PathOK

LEMMA ReadKeeps == ASSUME Read PROVE got'.op # "path"
<1>1. CASE \E line : ReadLine(line)
  BY <1>1 DEF ReadLine, Answer
<1>2. CASE \E d, x : ReadText(d, x)
  BY <1>2 DEF ReadText, Answer
<1>3. CASE \E d, b : Reprint(d, b)
  BY <1>3 DEF Reprint, Answer
<1>. QED BY <1>1, <1>2, <1>3 DEF Read

LEMMA ConsoleStep == ConsoleIInv /\ [ConsoleNext]_desk_vars => ConsoleIInv'
<1>. SUFFICES ASSUME ConsoleIInv, [ConsoleNext]_desk_vars PROVE ConsoleIInv'
  OBVIOUS
<1>0. TableOK /\ CommandsOK /\ HistoryOK /\ PathOK /\ WritesOK
  BY DEF ConsoleIInv
<1>. DEFINE Commands == UNCHANGED <<cmds, cmd_sorted>>
            History == UNCHANGED <<hist, hist_head, hist_count, lines>>
            Table == UNCHANGED <<table, sorted>>
            Path == UNCHANGED <<got, ref, alive, gen, name_of>>
            Written == UNCHANGED <<desk, lockstep, table, bits, sealed, asked, row, alive, single, queue>>
<1>1. ASSUME NEW d \in Descs, Register(d) PROVE ConsoleIInv'
  <2>1. Commands /\ History /\ Path
    BY <1>1 DEF Register, console_vars, entity_vars, editor_vars
  <2>. QED BY <1>0, <1>1, <2>1, TableGrows, CommandsStay, HistoryStays, PathStays, RegisterWrites DEF ConsoleIInv
<1>2. ASSUME NEW name \in Names, ConsoleRegister(name) PROVE ConsoleIInv'
  <2>1. Table /\ History /\ Path /\ Written /\ desk # "typing"
    BY <1>2 DEF ConsoleRegister, cvar_vars, entity_vars, editor_vars, past_vars
  <2>. QED BY <1>0, <1>2, <2>1, TableStays, CommandsGrow, HistoryStays, PathStays, WritesStay DEF ConsoleIInv
<1>3. CASE Read
  <2>1. Table /\ Commands /\ History /\ Written /\ desk # "typing" /\ got'.op # "path"
    BY <1>3, ReadKeeps DEF Read, cvar_vars, console_vars, entity_vars, past_vars
  <2>. QED BY <1>0, <2>1, TableStays, CommandsStay, HistoryStays, NoPath, WritesStay DEF ConsoleIInv
<1>4. ASSUME NEW line \in Lines, Exec(line) PROVE ConsoleIInv'
  <2>1. Table /\ Commands /\ Path
    BY <1>4 DEF Exec, entity_vars, editor_vars
  <2>. QED BY <1>0, <1>4, <2>1, TableStays, CommandsStay, HistoryGrows, PathStays, ExecWrites DEF ConsoleIInv
<1>5. ASSUME NEW d \in Descs, NEW kind, SetTyped(d.key, kind, 1) PROVE ConsoleIInv'
  <2>1. Table /\ Commands /\ History /\ Path
    BY <1>5 DEF SetTyped, console_vars, entity_vars, editor_vars
  <2>. QED BY <1>0, <1>5, <2>1, TableStays, CommandsStay, HistoryStays, PathStays, SetTypedWrites DEF ConsoleIInv
<1>6. ASSUME NEW path \in Paths, Resolve(path) PROVE ConsoleIInv'
  <2>1. Table /\ Commands /\ History /\ Written /\ desk # "typing"
    BY <1>6 DEF Resolve, cvar_vars, console_vars, past_vars
  <2>. QED BY <1>0, <1>6, <2>1, TableStays, CommandsStay, HistoryStays, ResolvePath, WritesStay DEF ConsoleIInv
<1>7. ASSUME NEW r, NEW v, queue' = Seal(r, v), desk # "typing", ~lockstep, Table, Commands, History, Path,
             UNCHANGED <<desk, lockstep, bits, sealed, asked, row, alive, single>>
      PROVE  ConsoleIInv'
  <2>1. PICK c : c = [kind |-> "set_field", ref |-> r, v |-> v]
    OBVIOUS
  <2>2. c.kind # "set_cvar" /\ queue' = Append(queue, c)
    BY <1>7, <2>1 DEF Seal
  <2>. QED BY <1>0, <1>7, <2>2, TableStays, CommandsStay, HistoryStays, PathStays, EditKeeps DEF ConsoleIInv
<1>8. ASSUME Table, Commands, History, Path, Written, desk # "typing" PROVE ConsoleIInv'
  BY <1>0, <1>8, TableStays, CommandsStay, HistoryStays, PathStays, WritesStay DEF ConsoleIInv
<1>9. ASSUME NEW v, SetField(v) PROVE ConsoleIInv'
  <2>1. /\ Table /\ Commands /\ History /\ Path /\ desk # "typing"
        /\ UNCHANGED <<desk, lockstep, bits, sealed, asked, row, alive, single>>
        /\ queue' = queue \/ (~lockstep /\ queue' = Seal(ref, v))
    BY <1>9 DEF SetField, cvar_vars, console_vars, entity_vars, editor_vars, past_vars
  <2>. QED BY <1>7, <1>8, <2>1
<1>10. ASSUME NEW r, NEW v, Edit(r, v) PROVE ConsoleIInv'
  <2>1. /\ Table /\ Commands /\ History /\ Path /\ desk # "typing"
        /\ UNCHANGED <<desk, lockstep, bits, sealed, asked, row, alive, single>>
        /\ queue' = queue \/ (~lockstep /\ queue' = Seal(r, v))
    BY <1>10 DEF Edit, cvar_vars, console_vars, entity_vars, editor_vars, past_vars
  <2>. QED BY <1>7, <1>8, <2>1
<1>11. ASSUME NEW i, NEW g, Select(i, g) PROVE ConsoleIInv'
  <2>1. Table /\ Commands /\ History /\ Path /\ Written /\ desk # "typing"
    BY <1>11 DEF Select, cvar_vars, console_vars, entity_vars, past_vars
  <2>. QED BY <1>8, <2>1
<1>12. ASSUME NEW gone, NEW born, NEW name, Barrier(gone, born, name) PROVE ConsoleIInv'
  <2>1. Table /\ Commands /\ History /\ got'.op # "path"
    BY <1>12 DEF Barrier, console_vars, Answer
  <2>. QED BY <1>0, <1>12, <2>1, TableStays, CommandsStay, HistoryStays, NoPath, BarrierWrites DEF ConsoleIInv
<1>13. CASE UNCHANGED desk_vars
  <2>1. Table /\ Commands /\ History /\ Path /\ Written /\ UNCHANGED fatal
    BY <1>13 DEF desk_vars, cvar_vars, console_vars, entity_vars, editor_vars, past_vars
  <2>. QED BY <1>0, <2>1, TableStays, CommandsStay, HistoryStays, PathStays, WritesStay DEF ConsoleIInv
<1>14. CASE ConsoleNext
  BY <1>1, <1>2, <1>3, <1>4, <1>5, <1>6, <1>9, <1>10, <1>11, <1>12, <1>14 DEF ConsoleNext
<1>. QED BY <1>13, <1>14

LEMMA ConsoleFollows == ConsoleIInv => ConsoleInv
<1>. SUFFICES ASSUME ConsoleIInv PROVE ConsoleInv
  OBVIOUS
<1>0. TableOK /\ CommandsOK /\ HistoryOK /\ PathOK /\ WritesOK
  BY DEF ConsoleIInv
<1>1. InOrder
  <2>1. table \in Seq(Descs) /\ Distinct(table) /\ Orders(KeyOrder(table), Len(table), sorted)
    BY <1>0 DEF TableOK
  <2>2. \A i \in DOMAIN table : Find(table[i].key) = i
    BY <1>0, FindIs
  <2>3. Len(sorted) = Len(table)
    BY <2>1 DEF Orders
  <2>4. PICK fold : fold = SimFold(table, bits, sorted)
    OBVIOUS
  <2>5. FoldOK(table, bits, sorted, Len(table), fold)
    BY <2>1, <2>4, FoldTells
  <2>6. \A m, n \in DOMAIN fold : m < n => fold[m][1] < fold[n][1]
    BY <2>5 DEF FoldOK
  <2>7. Range(fold) = {<<table[i].key, bits[i]>> : i \in {i \in DOMAIN table : Sim(i)}}
    <3>1. /\ DOMAIN table = 1 .. Len(table)
          /\ \A p \in 1 .. Len(table) : sorted[p] \in 1 .. Len(table)
          /\ \A i \in 1 .. Len(table) : \E p \in 1 .. Len(table) : sorted[p] = i
      <4>1. Len(table) \in Nat /\ DOMAIN table = 1 .. Len(table)
        BY <2>1, KeysAreNumbers
      <4>2. Listed(KeyOrder(table), Len(table), sorted)
        BY <2>1, <4>1, OrdersAre
      <4>. QED BY <4>1, <4>2 DEF Listed
    <3>2. \A p : Folded(table, bits, sorted, p) = <<table[sorted[p]].key, bits[sorted[p]]>>
      BY DEF Folded
    <3>. DEFINE Shows == {<<table[i].key, bits[i]>> : i \in {i \in DOMAIN table : Sim(i)}}
    <3>3. ASSUME NEW x \in DOMAIN fold PROVE fold[x] \in Shows
      <4>1. PICK p \in 1 .. Len(table) :
                Flagged(table[sorted[p]], "sim") /\ fold[x] = Folded(table, bits, sorted, p)
        BY <2>5 DEF FoldOK
      <4>2. sorted[p] \in {i \in DOMAIN table : Sim(i)}
        BY <3>1, <4>1 DEF Sim
      <4>. QED BY <3>2, <4>1, <4>2
    <3>4. ASSUME NEW i \in DOMAIN table, Sim(i)
          PROVE  \E x \in DOMAIN fold : fold[x] = <<table[i].key, bits[i]>>
      <4>1. PICK p \in 1 .. Len(table) : sorted[p] = i
        BY <3>1
      <4>2. \E x \in DOMAIN fold : fold[x] = Folded(table, bits, sorted, p)
        BY <2>5, <3>4, <4>1 DEF FoldOK, Sim
      <4>. QED BY <3>2, <4>1, <4>2
    <3>5. \A e : e \in Range(fold) <=> \E x \in DOMAIN fold : fold[x] = e
      BY DEF Range
    <3>6. \A e : e \in Shows <=> \E i \in DOMAIN table : Sim(i) /\ e = <<table[i].key, bits[i]>>
      OBVIOUS
    <3>. HIDE DEF Shows
    <3>7. \A e : e \in Range(fold) <=> e \in Shows
      <4>1. \A e : e \in Range(fold) => e \in Shows
        BY <3>3, <3>5
      <4>2. \A e : e \in Shows => e \in Range(fold)
        BY <3>4, <3>5, <3>6
      <4>. QED BY <4>1, <4>2
    <3>8. Range(fold) = Shows
      BY <3>7
    <3>. QED BY <3>8 DEF Shows
  <2>. QED BY <2>2, <2>3, <2>4, <2>6, <2>7 DEF InOrder
<1>2. CommandsFound
  <2>1. \A name \in Names : name \in Seq(Nat)
    BY ConsoleAssumption DEF ConsoleAssumption
  <2>2. \A name \in Names : ConsoleFind(name) <=> name \in Range(cmds)
    BY <1>0, <2>1, ConsoleFindTells
  <2>3. ASSUME NEW prefix \in Names
        PROVE  /\ Len(Complete(prefix)) <= Shown
               /\ \A i \in DOMAIN Complete(prefix) :
                      Complete(prefix)[i] \in Range(cmds) /\ IsPrefix(prefix, Complete(prefix)[i])
               /\ \A i, j \in DOMAIN Complete(prefix) : i < j => LexLess(Complete(prefix)[i], Complete(prefix)[j])
               /\ \A name \in Range(cmds) \ Range(Complete(prefix)) : IsPrefix(prefix, name) =>
                      /\ Len(Complete(prefix)) = Shown
                      /\ \A i \in DOMAIN Complete(prefix) : LexLess(Complete(prefix)[i], name)
    BY <1>0, <2>1, CompleteTells
  <2>. QED BY <2>2, <2>3 DEF CommandsFound
<1>3. LastAcceptedWins
  <2>. SUFFICES ASSUME fatal = "none", NEW i \in DOMAIN table PROVE bits[i] = asked[i] \/ (Sim(i) /\ queue # <<>>)
    BY DEF LastAcceptedWins
  <2>1. DOMAIN queue = 1 .. Len(queue) /\ Won(asked, bits, Len(queue))
    BY <1>0 DEF WritesOK
  <2>2. CASE asked[i] = bits[i]
    BY <2>2
  <2>3. CASE \E m \in 1 .. Len(queue) : For(m, i)
    <3>1. PICK m \in DOMAIN queue : For(m, i)
      BY <2>1, <2>3
    <3>2. desk = "typing"
      BY <1>0, <3>1 DEF WritesOK, For
    <3>3. queue # <<>>
      BY <3>1, EmptyIs
    <3>. QED BY <1>0, <3>1, <3>2, <3>3, NoneFor
  <2>. QED BY <2>1, <2>2, <2>3 DEF Won
<1>4. HistoryKept
  <2>1. PICK l \in Nat : l = Len(lines)
    BY <1>0 DEF HistoryOK
  <2>2. PICK H \in Nat : H = HistoryCap
    BY ConsoleAssumption DEF ConsoleAssumption
  <2>3. hist_count = Min({Len(lines), HistoryCap})
    <3>1. PICK S : S = {l, H}
      OBVIOUS
    <3>2. S \subseteq Nat /\ S # {}
      BY <3>1
    <3>3. Min(S) \in S /\ \A m \in S : Min(S) <= m
      BY <3>2, LeastOf
    <3>4. hist_count = IF l < H THEN l ELSE H
      BY <1>0, <2>1, <2>2 DEF HistoryOK
    <3>5. Min(S) = IF l < H THEN l ELSE H
      BY <3>1, <3>3
    <3>. QED BY <2>1, <2>2, <3>1, <3>4, <3>5
  <2>. QED BY <1>0, <2>3 DEF HistoryOK, HistoryKept
<1>5. PathsAreExact
  <2>1. ref.kind = "row" => (GetRaw(ref).err = Ok <=> HasRow(ref))
    BY DEF GetRaw, Ok
  <2>. QED BY <1>0, <2>1 DEF PathOK, PathsAreExact
<1>. QED BY <1>0, <1>1, <1>2, <1>3, <1>4, <1>5 DEF WritesOK, ConsoleInv

\* The doors keep their word: what the simulation reads of the cvars changes only at
\* barriers and never in a lockstep session, both indexes are in order whatever the order
\* of registration, each accepted value is in force at the latest from the next barrier,
\* and nothing that is typed ends the process (cvar.cpp, console.cpp, dotpath.cpp).
THEOREM DoorsKeepTheirWord == ConsoleSpec => []ConsoleInv
<1>1. ConsoleInit => ConsoleIInv
  BY InitKeeps
<1>2. ConsoleIInv /\ [ConsoleNext]_desk_vars => ConsoleIInv'
  BY ConsoleStep
<1>3. ConsoleIInv => ConsoleInv
  BY ConsoleFollows
<1>. QED BY <1>1, <1>2, <1>3, PTL DEF ConsoleSpec
=============================================================================

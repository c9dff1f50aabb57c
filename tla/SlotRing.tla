------------------------------ MODULE SlotRing ------------------------------
(***************************************************************************)
(* One slot's ring of frames (net/net_internal.h): a frame is placed and   *)
(* found by its absolute tick, and the tick stored with it is what makes a *)
(* place hold that tick.  Frames come late, again and out of order.        *)
(***************************************************************************)
EXTENDS Integers, Sequences, SequencesExt, FiniteSetsExt, TLAPS

CONSTANTS
    RingTicks,  \* SLOT_RING_TICKS, not 0
    LastTick,   \* bound on the ticks
    Payloads,   \* what tells one frame from another
    MaxPuts     \* bound on the frames placed

RingTicksRange == 0 .. LastTick
Empty == [occupied |-> FALSE, tick |-> 0]

VARIABLES
    ring,   \* each place: whether it is occupied and the tick it holds
    frame,  \* the frame of each place; a clear leaves it as it is
    puts    \* history: the ticks and frames placed since the last clear

vars == <<ring, frame, puts>>

Init ==
    /\ ring = [i \in 0 .. RingTicks - 1 |-> Empty]
    /\ \E f \in Payloads : frame = [i \in 0 .. RingTicks - 1 |-> f]
    /\ puts = <<>>

Index(tick) == tick % RingTicks

Put(tick, f) ==
    /\ Len(puts) < MaxPuts
    /\ ring' = [ring EXCEPT ![Index(tick)] = [occupied |-> TRUE, tick |-> tick]]
    /\ frame' = [frame EXCEPT ![Index(tick)] = f]
    /\ puts' = Append(puts, [tick |-> tick, frame |-> f])

Clear ==
    /\ ring' = [i \in DOMAIN ring |-> Empty]
    /\ puts' = <<>>
    /\ UNCHANGED frame

Next == Clear \/ \E tick \in RingTicksRange, f \in Payloads : Put(tick, f)

Spec == Init /\ [][Next]_vars

\* Whether the place is occupied, by whatever tick.
Bug_Has(tick) == ring[Index(tick)].occupied

\* slot_ring_has, slot_ring_get
Has(tick) == ring[Index(tick)].occupied /\ ring[Index(tick)].tick = tick
Get(tick) == frame[Index(tick)]

\* A tick is held exactly when it was placed and no other tick that shares its place was placed
\* since, however late; what it gives is the last frame placed for it.  So a tick that wrapped
\* out reads as absent, and within any RingTicks consecutive ticks none displaces another
\* (net_internal.h:67-68).
HeldIsLastPlaced ==
    \A tick \in RingTicksRange :
        LET there == {k \in DOMAIN puts : Index(puts[k].tick) = Index(tick)}
            last == puts[Max(there)]
        IN /\ Has(tick) <=> (there # {} /\ last.tick = tick)
           /\ Has(tick) => Get(tick) = last.frame

-----------------------------------------------------------------------------
(* HeldIsLastPlaced is inductive beside the types: a place's tick and      *)
(* frame are of the last put there, whatever tick one asks it for.         *)

\* A ring has a place, and ticks are naturals.
Bounded == RingTicks \in Nat \ {0} /\ LastTick \in Nat

Places == 0 .. RingTicks - 1
PutsAt(i) == {k \in DOMAIN puts : Index(puts[k].tick) = i}

Shape ==
    /\ ring \in [Places -> [occupied : BOOLEAN, tick : RingTicksRange]]
    /\ frame \in [Places -> Payloads]
    /\ puts \in Seq([tick : RingTicksRange, frame : Payloads])

LastAt(i) ==
    /\ ring[i].occupied <=> PutsAt(i) # {}
    /\ PutsAt(i) # {} =>
          /\ \A k \in PutsAt(i) : k <= Max(PutsAt(i))
          /\ Max(PutsAt(i)) \in PutsAt(i)
          /\ ring[i].tick = puts[Max(PutsAt(i))].tick
          /\ frame[i] = puts[Max(PutsAt(i))].frame

IInv == Shape /\ \A i \in Places : LastAt(i)

LEMMA MaxIs ==
    ASSUME NEW S, S \subseteq Int, NEW m \in S, \A k \in S : k <= m
    PROVE  Max(S) = m
<1>1. Max(S) \in S /\ \A k \in S : Max(S) >= k
  BY DEF Max
<1>2. Max(S) \in Int /\ m \in Int /\ Max(S) <= m /\ Max(S) >= m
  BY <1>1
<1>. QED BY <1>2

LEMMA PlaceOf ==
    ASSUME Bounded, NEW tick \in RingTicksRange
    PROVE  Index(tick) \in Places
BY DEF Bounded, RingTicksRange, Index, Places

LEMMA PutKeeps ==
    ASSUME Bounded, IInv, NEW tick \in RingTicksRange, NEW f \in Payloads, Put(tick, f)
    PROVE  IInv'
<1>. DEFINE n == Len(puts) + 1
            p == [tick |-> tick, frame |-> f]
<1>1. /\ ring' = [ring EXCEPT ![Index(tick)] = [occupied |-> TRUE, tick |-> tick]]
      /\ frame' = [frame EXCEPT ![Index(tick)] = f]
      /\ puts' = Append(puts, p)
  BY DEF Put
<1>2. Index(tick) \in Places
  BY PlaceOf
<1>3. p \in [tick : RingTicksRange, frame : Payloads]
  OBVIOUS
<1>4. puts \in Seq([tick : RingTicksRange, frame : Payloads])
  BY DEF IInv, Shape
<1>. HIDE DEF p
<1>5. /\ puts' \in Seq([tick : RingTicksRange, frame : Payloads])
      /\ DOMAIN puts = 1 .. Len(puts) /\ DOMAIN puts' = 1 .. n /\ Len(puts) \in Nat
      /\ puts'[n] = p /\ \A k \in DOMAIN puts : puts'[k] = puts[k]
  BY <1>1, <1>3, <1>4
<1>6. Shape'
  BY <1>1, <1>2, <1>5 DEF IInv, Shape
<1>7. ASSUME NEW i \in Places
      PROVE  LastAt(i)'
  <2>1. LastAt(i)
    BY DEF IInv
  <2>2. CASE i = Index(tick)
    <3>1. n \in PutsAt(i)' /\ PutsAt(i)' \subseteq 1 .. n
      BY <1>5, <2>2 DEF PutsAt, p, Index
    <3>2. Max(PutsAt(i)') = n /\ \A k \in PutsAt(i)' : k <= n
      BY <1>5, <3>1, MaxIs
    <3>3. ring'[i].occupied /\ ring'[i].tick = tick /\ frame'[i] = f
      BY <1>1, <1>2, <2>2 DEF IInv, Shape
    <3>. QED BY <1>5, <3>1, <3>2, <3>3 DEF LastAt, p
  <2>3. CASE i # Index(tick)
    <3>1. PutsAt(i)' = PutsAt(i)
      BY <1>5, <2>3 DEF PutsAt, p, Index
    <3>2. ring'[i] = ring[i] /\ frame'[i] = frame[i]
      BY <1>1, <2>3 DEF IInv, Shape
    <3>3. \A k \in PutsAt(i) : puts'[k] = puts[k]
      BY <1>5 DEF PutsAt
    <3>. QED BY <2>1, <3>1, <3>2, <3>3 DEF LastAt
  <2>. QED BY <2>2, <2>3
<1>. QED BY <1>6, <1>7 DEF IInv

LEMMA NothingPlaced ==
    ASSUME Bounded, ring = [i \in Places |-> Empty], frame \in [Places -> Payloads], puts = <<>>
    PROVE  IInv
<1>1. \A i \in Places : PutsAt(i) = {} /\ ~ring[i].occupied
  BY DEF PutsAt, Empty
<1>2. Empty \in [occupied : BOOLEAN, tick : RingTicksRange]
  BY DEF Empty, RingTicksRange, Bounded
<1>3. Shape
  BY <1>2 DEF Shape
<1>. QED BY <1>1, <1>3 DEF IInv, LastAt

LEMMA ClearKeeps ==
    ASSUME Bounded, IInv, Clear
    PROVE  IInv'
<1>1. ring' = [i \in Places |-> Empty] /\ frame' \in [Places -> Payloads] /\ puts' = <<>>
  BY DEF Clear, IInv, Shape
<1>2. \A i \in Places : PutsAt(i)' = {} /\ ~ring'[i].occupied
  BY <1>1 DEF PutsAt, Empty
<1>3. Empty \in [occupied : BOOLEAN, tick : RingTicksRange]
  BY DEF Empty, RingTicksRange, Bounded
<1>4. Shape'
  BY <1>1, <1>3 DEF Shape
<1>. QED BY <1>2, <1>4 DEF IInv, LastAt

LEMMA LastIsHeld ==
    ASSUME Bounded, IInv
    PROVE  HeldIsLastPlaced
<1>1. SUFFICES ASSUME NEW tick \in RingTicksRange
               PROVE  LET there == PutsAt(Index(tick))
                          last == puts[Max(there)]
                      IN  /\ Has(tick) <=> (there # {} /\ last.tick = tick)
                          /\ Has(tick) => Get(tick) = last.frame
  BY DEF HeldIsLastPlaced, PutsAt
<1>2. LastAt(Index(tick))
  BY PlaceOf DEF IInv
<1>. QED BY <1>2 DEF LastAt, Has, Get

\* What net's replay reads from a slot's ring (net_internal.h) is the last frame
\* placed for that tick, or nothing, for any size of the ring and whatever came late,
\* again or from a whole turn before.
THEOREM HeldIsLastPlacedAlways ==
    ASSUME Bounded
    PROVE  Spec => []HeldIsLastPlaced
<1>1. Init => IInv
  BY NothingPlaced DEF Init, Places
<1>2. IInv /\ [Next]_vars => IInv'
  <2>1. SUFFICES ASSUME IInv, [Next]_vars
                 PROVE  IInv'
    OBVIOUS
  <2>2. CASE UNCHANGED vars
    BY <2>1, <2>2, ZenonT(60) DEF vars, IInv, Shape, LastAt, PutsAt
  <2>. QED BY <2>1, <2>2, PutKeeps, ClearKeeps DEF Next
<1>3. IInv => HeldIsLastPlaced
  BY LastIsHeld
<1>. QED BY <1>1, <1>2, <1>3, PTL DEF Spec
=============================================================================

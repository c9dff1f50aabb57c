----------------------- MODULE ArenaRegistry_proof -----------------------
(***************************************************************************)
(* Proofs about ArenaRegistry, for all arenas, granules, alignments and    *)
(* blob sizes: the pages of an arena are tracked and clean (ArenasInv),    *)
(* and the arenas are stacks of bytes (PureFunctionOfState).  Of the guard *)
(* over their extents: its verdict is right, for any arenas (GuardVerdict).*)
(* And about the tables beside them: the platform's handles and the        *)
(* foundation's containers and sort, of any size (ContainersInv).          *)
(*                                                                         *)
(* The order of the parts: rounding up; one arena under each operation;    *)
(* where the segments of a blob lie; the inductive invariant; the          *)
(* refinement of ByteStack; the guard.  Then, apart from all that, the     *)
(* tables of handles; and the containers: a map seen by where its keys     *)
(* lie, filled, rehashed and closed up behind a removal; the sorted map;   *)
(* the registry in both; the radix sort.                                   *)
(***************************************************************************)
EXTENDS ArenaRegistry, ArenaGuard, Containers, FiniteSetTheorems, FunctionTheorems, SequenceTheorems, TLAPS,
        WellFoundedInduction

-----------------------------------------------------------------------------
\* A nonempty set of naturals has a least element: the form induction takes here.
LEMMA Least ==
    ASSUME NEW T, T \subseteq Nat, T # {}
    PROVE  \E n \in T : \A m \in T : n <= m
<1>1. PICK x \in T : \A y \in T : ~(<<y, x>> \in OpToRel(<, Nat))
  BY NatLessThanWellFounded, WFMin
<1>2. \A y \in T : ~(y < x)
  BY <1>1 DEF OpToRel
<1>. QED BY <1>2

-----------------------------------------------------------------------------
\* Rounding up.

LEMMA AlignUpFacts ==
    ASSUME NEW v \in Nat, NEW g \in Nat \ {0}
    PROVE  /\ AlignUp(v, g) \in Nat
           /\ v <= AlignUp(v, g)
           /\ AlignUp(v, g) % g = 0
<1>. DEFINE q == (v + g - 1) \div g
<1>1. q \in Nat
  OBVIOUS
<1>2. v + g - 1 = g * q + ((v + g - 1) % g) /\ (v + g - 1) % g \in 0 .. g - 1
  OBVIOUS
<1>3. g * q = q * g /\ q * g \in Nat
  BY <1>1
<1>4. (q * g) % g = 0
  BY <1>1
<1>. HIDE DEF q
<1>5. AlignUp(v, g) = q * g
  BY DEF AlignUp, q
<1>6. v <= q * g
  BY <1>2, <1>3
<1>. QED BY <1>3, <1>4, <1>5, <1>6

\* Rounding up is the least multiple above.
LEMMA AlignUpLeast ==
    ASSUME NEW v \in Nat, NEW g \in Nat \ {0}, NEW m \in Nat, v <= m, m % g = 0
    PROVE  AlignUp(v, g) <= m
<1>. DEFINE q == (v + g - 1) \div g
            k == m \div g
<1>1. q \in Nat /\ k \in Nat
  OBVIOUS
<1>2. v + g - 1 = g * q + ((v + g - 1) % g) /\ (v + g - 1) % g \in 0 .. g - 1
  OBVIOUS
<1>3. m = g * k
  OBVIOUS
<1>. HIDE DEF q, k
<1>4. ASSUME q >= k + 1 PROVE FALSE
  <2>1. PICK r \in Nat : q = k + 1 + r
    <3>1. q - (k + 1) \in Nat /\ q = k + 1 + (q - (k + 1))
      BY <1>1, <1>4
    <3>. QED BY <3>1
  <2>2. g * q = g * k + g + g * r /\ g * r \in Nat
    BY <1>1, <2>1
  <2>3. g * q \in Nat /\ g * k \in Nat
    BY <1>1
  <2>. QED BY <1>2, <1>3, <2>2, <2>3
<1>5. PICK r \in Nat : k = q + r
  <2>1. k - q \in Nat /\ k = q + (k - q)
    BY <1>1, <1>4
  <2>. QED BY <2>1
<1>6. g * k = g * q + g * r /\ g * r \in Nat /\ g * q \in Nat /\ g * q = q * g
  BY <1>1, <1>5
<1>7. AlignUp(v, g) = q * g
  BY DEF AlignUp, q
<1>. QED BY <1>3, <1>6, <1>7

USE SizesAssumption

LEMMA ReservedFacts ==
    ASSUME NEW a \in Ids
    PROVE  Reserved[a] \in Nat /\ Reserved[a] % Granule = 0 /\ Reserved[a] > 0
<1>1. Ask[a] \in Nat /\ Ask[a] > 0 /\ Granule \in Nat \ {0}
  OBVIOUS
<1>. HIDE SizesAssumption
<1>2. Reserved[a] = AlignUp(Ask[a], Granule)
  BY DEF Reserved
<1>. QED BY <1>1, <1>2, AlignUpFacts

-----------------------------------------------------------------------------
\* One arena under each operation.

ArenaOK(a, v) ==
    /\ v \in [committed : Nat, used : Nat, high_water : Nat, bytes : [Offsets(a) -> 0 .. 1]]
    /\ v.used <= v.high_water /\ v.high_water <= v.committed
    /\ v.committed <= Reserved[a] /\ v.committed % Granule = 0
    /\ \A i \in Offsets(a) : i >= v.high_water => v.bytes[i] = 0

LEMMA EmptyArenaOK ==
    ASSUME NEW a \in Ids
    PROVE  ArenaOK(a, EmptyArena(a))
BY ReservedFacts DEF ArenaOK, EmptyArena

\* ensure_committed, when it does not overrun.
LEMMA CommittedFacts ==
    ASSUME NEW a \in Ids, NEW v, ArenaOK(a, v), NEW end \in Nat, ~Overruns(a, v, end)
    PROVE  /\ Committed(a, v, end) \in Nat
           /\ end <= Committed(a, v, end) /\ v.committed <= Committed(a, v, end)
           /\ Committed(a, v, end) <= Reserved[a] /\ Committed(a, v, end) % Granule = 0
           /\ end <= Reserved[a]
<1>1. /\ AlignUp(end, Granule) \in Nat /\ end <= AlignUp(end, Granule)
      /\ AlignUp(end, Granule) % Granule = 0
  BY AlignUpFacts
<1>. QED BY <1>1, ReservedFacts, SMTT(40) DEF Committed, Overruns, ArenaOK

\* A budget is blown exactly when the reserve is.
LEMMA OverrunsFacts ==
    ASSUME NEW a \in Ids, NEW v, ArenaOK(a, v), NEW end \in Nat
    PROVE  Overruns(a, v, end) <=> end > Reserved[a]
<1>1. AlignUp(end, Granule) \in Nat /\ end <= AlignUp(end, Granule)
  BY AlignUpFacts
<1>2. end <= Reserved[a] => AlignUp(end, Granule) <= Reserved[a]
  BY AlignUpLeast, ReservedFacts
<1>. QED BY <1>1, <1>2, ReservedFacts, SMTT(40) DEF Overruns, ArenaOK

LEMMA PushedOK ==
    ASSUME NEW a \in Ids, NEW v, ArenaOK(a, v), NEW n \in Nat, NEW g \in Nat \ {0},
           ~Overruns(a, v, Start(v, g) + n)
    PROVE  /\ ArenaOK(a, Pushed(a, v, n, g))
           /\ Pushed(a, v, n, g).used = AlignUp(v.used, g) + n
           /\ \A i \in Offsets(a) : i < v.used => Pushed(a, v, n, g).bytes[i] = v.bytes[i]
           /\ \A i \in Offsets(a) : v.used <= i /\ i < Pushed(a, v, n, g).used =>
                 Pushed(a, v, n, g).bytes[i] = 0
<1>. DEFINE end == Start(v, g) + n
            w == Pushed(a, v, n, g)
<1>1. v.used \in Nat /\ v.high_water \in Nat /\ v.committed \in Nat
  BY DEF ArenaOK
<1>2. Start(v, g) \in Nat /\ v.used <= Start(v, g) /\ Start(v, g) = AlignUp(v.used, g)
  BY <1>1, AlignUpFacts DEF Start
<1>3. end \in Nat /\ v.used <= end
  BY <1>1, <1>2, SMTT(40)
<1>. HIDE DEF end
<1>4. /\ Committed(a, v, end) \in Nat
      /\ end <= Committed(a, v, end) /\ v.committed <= Committed(a, v, end)
      /\ Committed(a, v, end) <= Reserved[a] /\ Committed(a, v, end) % Granule = 0
  BY <1>3, CommittedFacts DEF end
<1>5. w = [committed |-> Committed(a, v, end), used |-> end,
           high_water |-> Greater(v.high_water, end),
           bytes |-> [i \in Offsets(a) |-> IF i \in Zeroed(v, g, end) THEN 0 ELSE v.bytes[i]]]
  BY DEF Pushed, end
<1>. HIDE DEF w
<1>6. /\ w.committed = Committed(a, v, end) /\ w.used = end
      /\ w.high_water = Greater(v.high_water, end)
      /\ \A i \in Offsets(a) : w.bytes[i] = IF i \in Zeroed(v, g, end) THEN 0 ELSE v.bytes[i]
  BY <1>5
<1>7. w \in [committed : Nat, used : Nat, high_water : Nat, bytes : [Offsets(a) -> 0 .. 1]]
  <2>1. v.bytes \in [Offsets(a) -> 0 .. 1]
    BY DEF ArenaOK
  <2>. QED BY <1>1, <1>3, <1>4, <1>5, <2>1 DEF Greater
<1>8. Reserved[a] \in Nat
  BY ReservedFacts
<1>9. \A i \in Offsets(a) : i >= v.high_water => v.bytes[i] = 0
  BY DEF ArenaOK
<1>10. \A i \in Offsets(a) : i >= w.high_water => w.bytes[i] = 0
  <2>. SUFFICES ASSUME NEW i \in Offsets(a), i >= w.high_water PROVE w.bytes[i] = 0
    OBVIOUS
  <2>1. i \in Nat
    BY <1>8 DEF Offsets
  <2>2. i >= v.high_water
    BY <1>1, <1>3, <1>6, <2>1 DEF Greater
  <2>. QED BY <1>6, <1>9, <2>2
<1>11. \A i \in Offsets(a) : i < v.used => w.bytes[i] = v.bytes[i]
  BY <1>1, <1>3, <1>6, <1>8 DEF Offsets, Zeroed
<1>12. \A i \in Offsets(a) : v.used <= i /\ i < w.used => w.bytes[i] = 0
  <2>. SUFFICES ASSUME NEW i \in Offsets(a), i >= v.used, i < end PROVE w.bytes[i] = 0
    BY <1>6
  <2>1. i \in Nat
    BY <1>8 DEF Offsets
  <2>2. CASE i >= v.high_water
    BY <1>6, <1>9, <2>2
  <2>3. CASE i < v.high_water
    <3>1. i \in Zeroed(v, g, end)
      BY <1>1, <1>3, <2>1, <2>3 DEF Zeroed, Lesser
    <3>. QED BY <1>6, <3>1
  <2>. QED BY <1>1, <1>3, <2>1, <2>2, <2>3
<1>13. w.used <= w.high_water /\ w.high_water <= w.committed
  <2>1. v.high_water <= v.committed
    BY DEF ArenaOK
  <2>. QED BY <1>1, <1>3, <1>4, <1>6, <2>1 DEF Greater
<1>14. w.committed <= Reserved[a] /\ w.committed % Granule = 0
  BY <1>4, <1>6
<1>15. ArenaOK(a, w)
  BY <1>7, <1>10, <1>13, <1>14 DEF ArenaOK
<1>16. w.used = AlignUp(v.used, g) + n
  BY <1>2, <1>6 DEF end
<1>17. w = Pushed(a, v, n, g)
  BY DEF w
<1>. QED BY <1>11, <1>12, <1>15, <1>16, <1>17, Zenon

\* arena_reset_to.
LEMMA ResetOK ==
    ASSUME NEW a \in Ids, NEW v, ArenaOK(a, v), NEW mark \in Nat, mark <= v.used
    PROVE  ArenaOK(a, [v EXCEPT !.used = mark])
<1>. DEFINE w == [v EXCEPT !.used = mark]
<1>1. v \in [committed : Nat, used : Nat, high_water : Nat, bytes : [Offsets(a) -> 0 .. 1]]
  BY DEF ArenaOK
<1>2. /\ w \in [committed : Nat, used : Nat, high_water : Nat, bytes : [Offsets(a) -> 0 .. 1]]
      /\ w.committed = v.committed /\ w.used = mark /\ w.high_water = v.high_water
      /\ w.bytes = v.bytes
  BY <1>1
<1>. HIDE DEF w
<1>3. mark <= v.high_water
  BY <1>1 DEF ArenaOK
<1>4. ArenaOK(a, w)
  BY <1>2, <1>3 DEF ArenaOK
<1>. QED BY <1>4 DEF w

\* A store to a byte in use.
LEMMA WriteOK ==
    ASSUME NEW a \in Ids, NEW v, ArenaOK(a, v), NEW i \in Offsets(a), i < v.used
    PROVE  ArenaOK(a, [v EXCEPT !.bytes[i] = 1])
<1>. DEFINE w == [v EXCEPT !.bytes[i] = 1]
<1>1. v \in [committed : Nat, used : Nat, high_water : Nat, bytes : [Offsets(a) -> 0 .. 1]]
  BY DEF ArenaOK
<1>2. /\ w \in [committed : Nat, used : Nat, high_water : Nat, bytes : [Offsets(a) -> 0 .. 1]]
      /\ w.committed = v.committed /\ w.used = v.used /\ w.high_water = v.high_water
      /\ \A j \in Offsets(a) : w.bytes[j] = IF j = i THEN 1 ELSE v.bytes[j]
  <2>1. w = [v EXCEPT !.bytes = [v.bytes EXCEPT ![i] = 1]]
    BY <1>1
  <2>2. [v.bytes EXCEPT ![i] = 1] \in [Offsets(a) -> 0 .. 1]
    BY <1>1
  <2>. HIDE DEF w
  <2>. QED BY <1>1, <2>1, <2>2
<1>. HIDE DEF w
<1>3. i < v.high_water /\ i \in Int
  BY <1>1, ReservedFacts DEF ArenaOK, Offsets
<1>4. \A j \in Offsets(a) : j >= w.high_water => w.bytes[j] = 0
  <2>. SUFFICES ASSUME NEW j \in Offsets(a), j >= w.high_water PROVE w.bytes[j] = 0
    OBVIOUS
  <2>1. j # i
    BY <1>1, <1>2, <1>3
  <2>2. v.bytes[j] = 0
    BY <1>2 DEF ArenaOK
  <2>. QED BY <1>2, <2>1, <2>2
<1>5. ArenaOK(a, w)
  BY <1>2, <1>4 DEF ArenaOK
<1>. QED BY <1>5 DEF w

\* Whole granules go back; what is kept below the mark is untouched.
LEMMA DecommittedOK ==
    ASSUME NEW a \in Ids, NEW v, ArenaOK(a, v), NEW mark \in Nat
    PROVE  /\ ArenaOK(a, Decommitted(a, v, mark))
           /\ Decommitted(a, v, mark).used = Lesser(v.used, mark)
           /\ \A i \in Offsets(a) : i < mark => Decommitted(a, v, mark).bytes[i] = v.bytes[i]
<1>. DEFINE keep == AlignUp(mark, Granule)
            w == Decommitted(a, v, mark)
<1>1. keep \in Nat /\ mark <= keep /\ keep % Granule = 0
  BY AlignUpFacts
<1>. HIDE DEF keep
<1>2. v \in [committed : Nat, used : Nat, high_water : Nat, bytes : [Offsets(a) -> 0 .. 1]]
  BY DEF ArenaOK
<1>3. /\ v.used <= v.high_water /\ v.high_water <= v.committed
      /\ v.committed <= Reserved[a] /\ v.committed % Granule = 0
      /\ \A i \in Offsets(a) : i >= v.high_water => v.bytes[i] = 0
  BY DEF ArenaOK
<1>4. Reserved[a] \in Nat
  BY ReservedFacts
<1>5. Lesser(v.used, mark) \in Nat /\ Lesser(v.used, mark) <= v.used /\ Lesser(v.used, mark) <= mark
  BY <1>2 DEF Lesser
<1>6. CASE keep < v.committed
  <2>1. w = [committed |-> keep, used |-> Lesser(v.used, mark),
             high_water |-> Lesser(v.high_water, keep),
             bytes |-> [i \in Offsets(a) |-> IF i >= keep THEN 0 ELSE v.bytes[i]]]
    BY <1>6 DEF Decommitted, keep
  <2>. HIDE DEF w
  <2>2. /\ w.committed = keep /\ w.used = Lesser(v.used, mark)
        /\ w.high_water = Lesser(v.high_water, keep)
        /\ \A i \in Offsets(a) : w.bytes[i] = IF i >= keep THEN 0 ELSE v.bytes[i]
    BY <2>1
  <2>3. v.bytes \in [Offsets(a) -> 0 .. 1] /\ Lesser(v.high_water, keep) \in Nat
    BY <1>1, <1>2 DEF Lesser
  <2>4. w \in [committed : Nat, used : Nat, high_water : Nat, bytes : [Offsets(a) -> 0 .. 1]]
    BY <1>1, <1>5, <2>1, <2>3
  <2>5. \A i \in Offsets(a) : i >= w.high_water => w.bytes[i] = 0
    <3>. SUFFICES ASSUME NEW i \in Offsets(a), i >= w.high_water, ~(i >= keep)
                  PROVE  w.bytes[i] = 0
      BY <2>2
    <3>1. i \in Nat
      BY <1>4 DEF Offsets
    <3>2. i >= v.high_water
      BY <1>1, <1>2, <2>2, <3>1 DEF Lesser
    <3>. QED BY <1>3, <2>2, <3>2
  <2>6. \A i \in Offsets(a) : i < mark => w.bytes[i] = v.bytes[i]
    <3>. SUFFICES ASSUME NEW i \in Offsets(a), i < mark PROVE w.bytes[i] = v.bytes[i]
      OBVIOUS
    <3>1. i \in Int
      BY <1>4 DEF Offsets
    <3>2. ~(i >= keep)
      BY <1>1, <3>1
    <3>. QED BY <2>2, <3>2
  <2>7. w.used <= w.high_water /\ w.high_water <= w.committed /\ w.committed <= Reserved[a]
    BY <1>1, <1>2, <1>3, <1>4, <1>6, <2>2, SMTT(40) DEF Lesser
  <2>8. ArenaOK(a, w)
    BY <1>1, <2>2, <2>4, <2>5, <2>7 DEF ArenaOK
  <2>. QED BY <2>2, <2>6, <2>8 DEF w
<1>7. CASE ~(keep < v.committed)
  <2>1. w = [v EXCEPT !.used = Lesser(v.used, mark)]
    BY <1>7 DEF Decommitted, keep
  <2>2. ArenaOK(a, w)
    BY <1>5, <2>1, ResetOK
  <2>. HIDE DEF w
  <2>3. w.used = Lesser(v.used, mark) /\ w.bytes = v.bytes
    BY <1>2, <2>1
  <2>. QED BY <2>2, <2>3 DEF w
<1>. QED BY <1>6, <1>7

\* registry_restore of an arena whose segment is at hand.
LEMMA RestoredOK ==
    ASSUME NEW a \in Ids, ArenaOK(a, arena[a]),
           snapshot.used[a] \in Nat, snapshot.used[a] <= Reserved[a],
           \A i \in 0 .. snapshot.used[a] - 1 : Restored(a)[i] \in 0 .. 1
    PROVE  /\ ArenaOK(a, RestoredArena(a))
           /\ RestoredArena(a).used = snapshot.used[a]
           /\ \A i \in 0 .. snapshot.used[a] - 1 :
                 RestoredArena(a).bytes[i] = Restored(a)[i]
<1>. DEFINE v == arena[a]
            want == snapshot.used[a]
            w == RestoredArena(a)
<1>1. /\ v \in [committed : Nat, used : Nat, high_water : Nat, bytes : [Offsets(a) -> 0 .. 1]]
      /\ v.used <= v.high_water /\ v.high_water <= v.committed
      /\ \A i \in Offsets(a) : i >= v.high_water => v.bytes[i] = 0
  BY DEF ArenaOK
<1>2. want \in Nat /\ want <= Reserved[a] /\ Reserved[a] \in Nat
  BY ReservedFacts
<1>3. ~Overruns(a, v, want)
  BY <1>2, OverrunsFacts
<1>4. /\ Committed(a, v, want) \in Nat
      /\ want <= Committed(a, v, want) /\ v.committed <= Committed(a, v, want)
      /\ Committed(a, v, want) <= Reserved[a] /\ Committed(a, v, want) % Granule = 0
  BY <1>2, <1>3, CommittedFacts
<1>5. \A i \in Offsets(a) : i < want => Restored(a)[i] \in 0 .. 1
  BY <1>2 DEF Offsets
<1>6. w = [committed |-> Committed(a, v, want), used |-> want,
           high_water |-> Greater(v.high_water, want),
           bytes |-> [i \in Offsets(a) |-> IF i < want THEN Restored(a)[i] ELSE v.bytes[i]]]
  BY DEF RestoredArena
<1>. HIDE DEF v, want, w
<1>7. /\ w.committed = Committed(a, v, want) /\ w.used = want
      /\ w.high_water = Greater(v.high_water, want)
      /\ \A i \in Offsets(a) : w.bytes[i] = IF i < want THEN Restored(a)[i] ELSE v.bytes[i]
  BY <1>6
<1>8. v.bytes \in [Offsets(a) -> 0 .. 1] /\ Greater(v.high_water, want) \in Nat
  BY <1>1, <1>2 DEF Greater
<1>9. w \in [committed : Nat, used : Nat, high_water : Nat, bytes : [Offsets(a) -> 0 .. 1]]
  BY <1>2, <1>4, <1>5, <1>6, <1>8
<1>10. \A i \in Offsets(a) : i >= w.high_water => w.bytes[i] = 0
  <2>. SUFFICES ASSUME NEW i \in Offsets(a), i >= w.high_water PROVE w.bytes[i] = 0
    OBVIOUS
  <2>1. i \in Nat
    BY <1>2 DEF Offsets
  <2>2. i >= v.high_water /\ ~(i < want)
    BY <1>1, <1>2, <1>7, <2>1 DEF Greater
  <2>. QED BY <1>1, <1>7, <2>2
<1>11. w.used <= w.high_water /\ w.high_water <= w.committed
  BY <1>1, <1>2, <1>4, <1>7 DEF Greater
<1>12. ArenaOK(a, w)
  BY <1>4, <1>7, <1>9, <1>10, <1>11 DEF ArenaOK
<1>13. \A i \in 0 .. want - 1 : i \in Offsets(a) /\ i < want
  BY <1>2 DEF Offsets
<1>. QED BY <1>7, <1>12, <1>13 DEF w, want
-----------------------------------------------------------------------------
\* Where the segments of a blob lie.

\* How many arenas are registered, every one of Ids among them.
Count == Len(Registered)

LEMMA RegisteredFacts ==
    /\ Count \in Nat /\ DOMAIN Registered = 1 .. Count
    /\ \A n \in 1 .. Count : Registered[n] \in Ids
    /\ \A a \in Ids : \E n \in 1 .. Count : Registered[n] = a
BY DEF Count

LEMMA SizesFacts ==
    /\ Granule \in Nat \ {0} /\ SegAlign \in Nat \ {0} /\ BlobCap \in Nat
    /\ Snapshotted \subseteq SUBSET Ids
    /\ \A g \in Grows : g[1] \in Nat /\ g[2] \in Nat \ {0}
OBVIOUS

HIDE SizesAssumption

\* What an arena after the ends of those before it ends at.
EndAfter(used, end, n) ==
    IF Registered[n] \in snapshotted
    THEN AlignUp(end, SegAlign) + used[Registered[n]]
    ELSE end

IsEnds(used, g, n) ==
    /\ g \in [0 .. n -> Nat] /\ g[0] = 0
    /\ \A k \in 1 .. n : g[k] = EndAfter(used, g[k - 1], k)

LEMMA EndAfterFacts ==
    ASSUME NEW used \in [Ids -> Nat], NEW end \in Nat, NEW n \in 1 .. Count
    PROVE  EndAfter(used, end, n) \in Nat /\ end <= EndAfter(used, end, n)
<1>1. AlignUp(end, SegAlign) \in Nat /\ end <= AlignUp(end, SegAlign)
  BY AlignUpFacts, SizesFacts
<1>2. used[Registered[n]] \in Nat
  BY RegisteredFacts
<1>. QED BY <1>1, <1>2 DEF EndAfter

\* The recursion that defines Extents has a solution, and Extents is it.
LEMMA ExtentsFacts ==
    ASSUME NEW used \in [Ids -> Nat]
    PROVE  IsEnds(used, Extents(used), Count)
<1>. DEFINE T == {n \in 0 .. Count : ~\E g : IsEnds(used, g, n)}
<1>1. Count \in Nat
  BY RegisteredFacts
<1>2. T = {}
  <2>. SUFFICES ASSUME T # {} PROVE FALSE
    OBVIOUS
  <2>. T \subseteq Nat
    BY <1>1
  <2>1. PICK n \in T : \A m \in T : n <= m
    <3>. HIDE DEF T
    <3>. QED BY Least
  <2>2. n \in 0 .. Count /\ ~\E g : IsEnds(used, g, n)
    OBVIOUS
  <2>3. n # 0
    <3>1. IsEnds(used, [k \in 0 .. 0 |-> 0], 0)
      BY DEF IsEnds
    <3>. QED BY <2>2, <3>1
  <2>4. n - 1 \in 0 .. Count /\ n - 1 \notin T
    BY <1>1, <2>1, <2>2, <2>3
  <2>5. PICK g : IsEnds(used, g, n - 1)
    BY <2>4
  <2>. DEFINE h == [k \in 0 .. n |-> IF k = n THEN EndAfter(used, g[n - 1], n) ELSE g[k]]
  <2>6. EndAfter(used, g[n - 1], n) \in Nat
    BY <1>1, <2>2, <2>3, <2>5, EndAfterFacts, SMTT(40) DEF IsEnds
  <2>7. h \in [0 .. n -> Nat] /\ h[0] = 0
    BY <1>1, <2>2, <2>3, <2>5, <2>6 DEF IsEnds
  <2>8. \A k \in 1 .. n : h[k] = EndAfter(used, h[k - 1], k)
    <3>. SUFFICES ASSUME NEW k \in 1 .. n PROVE h[k] = EndAfter(used, h[k - 1], k)
      OBVIOUS
    <3>1. h[k - 1] = g[k - 1]
      BY <1>1, <2>2
    <3>2. CASE k = n
      BY <2>2, <3>1, <3>2
    <3>3. CASE k # n
      <4>1. k \in 1 .. n - 1 /\ k \in 0 .. n
        BY <1>1, <2>2, <3>3
      <4>2. h[k] = g[k] /\ g[k] = EndAfter(used, g[k - 1], k)
        BY <2>5, <3>3, <4>1 DEF IsEnds
      <4>. QED BY <3>1, <4>2
    <3>. QED BY <3>2, <3>3
  <2>9. IsEnds(used, h, n)
    BY <2>7, <2>8 DEF IsEnds
  <2>. QED BY <2>2, <2>9
<1>3. PICK g : IsEnds(used, g, Count)
  BY <1>1, <1>2
<1>. DEFINE Sol(e) == e = [n \in 0 .. Count |-> IF n = 0 THEN 0
                             ELSE IF Registered[n] \in snapshotted
                             THEN AlignUp(e[n - 1], SegAlign) + used[Registered[n]]
                             ELSE e[n - 1]]
<1>4. Sol(g)
  <2>1. \A n \in 0 .. Count : n = 0 \/ n \in 1 .. Count
    BY <1>1
  <2>2. \A n \in 0 .. Count : g[n] = IF n = 0 THEN 0 ELSE EndAfter(used, g[n - 1], n)
    BY <1>3, <2>1 DEF IsEnds
  <2>3. g = [n \in 0 .. Count |-> g[n]]
    BY <1>3 DEF IsEnds
  <2>. QED BY <2>2, <2>3 DEF EndAfter
<1>5. Extents(used) = CHOOSE e : Sol(e)
  BY DEF Extents, Count
<1>6. Sol(Extents(used))
  <2>. HIDE DEF Sol
  <2>. QED BY <1>4, <1>5
<1>. DEFINE e == Extents(used)
<1>7. \A n \in 0 .. Count : e[n] = IF n = 0 THEN 0 ELSE EndAfter(used, e[n - 1], n)
  BY <1>6 DEF EndAfter
<1>. HIDE DEF e
<1>8. \A n \in 0 .. Count : e[n] = g[n]
  <2>. DEFINE U == {n \in 0 .. Count : e[n] # g[n]}
  <2>. SUFFICES ASSUME U # {} PROVE FALSE
    OBVIOUS
  <2>. U \subseteq Nat
    BY <1>1
  <2>1. PICK n \in U : \A m \in U : n <= m
    <3>. HIDE DEF U
    <3>. QED BY Least
  <2>2. n # 0
    BY <1>1, <1>3, <1>7 DEF IsEnds
  <2>3. n \in 1 .. Count /\ n - 1 \in 0 .. Count /\ n - 1 \notin U
    BY <1>1, <2>1, <2>2
  <2>4. g[n] = EndAfter(used, g[n - 1], n)
    BY <1>3, <2>3 DEF IsEnds
  <2>. QED BY <1>7, <2>2, <2>3, <2>4
<1>9. e = [n \in 0 .. Count |-> e[n]]
  BY <1>6 DEF e
<1>10. g = [n \in 0 .. Count |-> g[n]]
  BY <1>3 DEF IsEnds
<1>11. e = g
  BY <1>8, <1>9, <1>10
<1>. QED BY <1>3, <1>11 DEF e

LEMMA ExtentsGrow ==
    ASSUME NEW used \in [Ids -> Nat],
           NEW m \in 0 .. Count, NEW n \in 0 .. Count, m <= n
    PROVE  Extents(used)[m] <= Extents(used)[n]
<1>. DEFINE e == Extents(used)
            T == {k \in m .. Count : e[m] > e[k]}
<1>1. IsEnds(used, e, Count)
  BY ExtentsFacts
<1>2. \A k \in 0 .. Count : e[k] \in Nat
  BY <1>1 DEF IsEnds
<1>. HIDE DEF e
<1>3. T = {}
  <2>. SUFFICES ASSUME T # {} PROVE FALSE
    OBVIOUS
  <2>1. T \subseteq Nat
    BY RegisteredFacts
  <2>2. PICK k \in T : \A j \in T : k <= j
    BY <2>1, Least
  <2>3. k # m
    BY <1>2
  <2>4. k \in 1 .. Count /\ k - 1 \in m .. Count /\ k - 1 \notin T
    BY <2>1, <2>2, <2>3, RegisteredFacts
  <2>5. e[m] <= e[k - 1] /\ e[k - 1] \in Nat
    BY <1>2, <2>4
  <2>6. e[k] = EndAfter(used, e[k - 1], k)
    BY <1>1, <2>4 DEF IsEnds
  <2>7. e[k - 1] <= e[k]
    BY <2>4, <2>5, <2>6, EndAfterFacts
  <2>. QED BY <1>2, <2>2, <2>4, <2>5, <2>7
<1>4. n \in m .. Count /\ n \notin T
  BY <1>3, RegisteredFacts
<1>5. e[m] <= e[n]
  BY <1>2, <1>4
<1>. QED BY <1>5 DEF e

\* An arena's place in the registry.
Place(a) == CHOOSE m \in DOMAIN Registered : Registered[m] = a

LEMMA PlaceFacts ==
    ASSUME NEW a \in Ids
    PROVE  Place(a) \in 1 .. Count /\ Registered[Place(a)] = a
BY RegisteredFacts DEF Place

\* A segment ends where its place says, and the next one begins no earlier.
LEMMA OffsetFacts ==
    ASSUME NEW used \in [Ids -> Nat], NEW a \in Ids, a \in snapshotted
    PROVE  /\ Offset(used, a) \in Nat
           /\ Extents(used)[Place(a) - 1] <= Offset(used, a)
           /\ Offset(used, a) + used[a] = Extents(used)[Place(a)]
           /\ Offset(used, a) + used[a] <= Need(used)
<1>. DEFINE e == Extents(used)
            p == Place(a)
<1>1. p \in 1 .. Count /\ Registered[p] = a
  BY PlaceFacts
<1>2. IsEnds(used, e, Count)
  BY ExtentsFacts
<1>3. p - 1 \in 0 .. Count /\ p \in 0 .. Count /\ Count \in Nat
  BY <1>1, RegisteredFacts
<1>4. e[p - 1] \in Nat /\ e[p] = AlignUp(e[p - 1], SegAlign) + used[a]
  BY <1>1, <1>2, <1>3 DEF IsEnds, EndAfter
<1>5. e[p] <= e[Count]
  <2>1. p <= Count /\ Count \in 0 .. Count
    BY <1>3
  <2>. QED BY <1>3, <2>1, ExtentsGrow
<1>6. Offset(used, a) = AlignUp(e[p - 1], SegAlign)
  BY DEF Offset, Place
<1>7. Need(used) = e[Count]
  BY DEF Need, Count
<1>. HIDE DEF e, p
<1>8. AlignUp(e[p - 1], SegAlign) \in Nat /\ e[p - 1] <= AlignUp(e[p - 1], SegAlign)
  BY <1>4, AlignUpFacts, SizesFacts
<1>. QED BY <1>4, <1>5, <1>6, <1>7, <1>8 DEF e, p

\* Two arenas share no byte of a blob.
LEMMA SegmentsApart ==
    ASSUME NEW used \in [Ids -> Nat],
           NEW a \in Ids, a \in snapshotted, NEW b \in Ids, b \in snapshotted, a # b
    PROVE  \/ Offset(used, a) + used[a] <= Offset(used, b)
           \/ Offset(used, b) + used[b] <= Offset(used, a)
<1>1. Place(a) \in 1 .. Count /\ Place(b) \in 1 .. Count /\ Place(a) # Place(b)
  BY PlaceFacts
<1>2. /\ \A k \in 0 .. Count : Extents(used)[k] \in Nat
      /\ Offset(used, a) \in Nat /\ Offset(used, b) \in Nat
  BY ExtentsFacts, OffsetFacts DEF IsEnds
<1>3. CASE Place(a) < Place(b)
  <2>1. Place(a) \in 0 .. Count /\ Place(b) - 1 \in 0 .. Count
        /\ Place(a) <= Place(b) - 1
    BY <1>1, <1>3, RegisteredFacts, SMTT(40)
  <2>2. Extents(used)[Place(a)] <= Extents(used)[Place(b) - 1]
    BY <2>1, ExtentsGrow
  <2>. QED BY <1>2, <2>1, <2>2, OffsetFacts
<1>4. CASE Place(b) < Place(a)
  <2>1. Place(b) \in 0 .. Count /\ Place(a) - 1 \in 0 .. Count
        /\ Place(b) <= Place(a) - 1
    BY <1>1, <1>4, RegisteredFacts, SMTT(40)
  <2>2. Extents(used)[Place(b)] <= Extents(used)[Place(a) - 1]
    BY <2>1, ExtentsGrow
  <2>. QED BY <1>2, <2>1, <2>2, OffsetFacts
<1>. QED BY <1>1, <1>3, <1>4, RegisteredFacts
-----------------------------------------------------------------------------
\* Packing.

LEMMA UsedOfFacts ==
    ASSUME \A a \in Ids : ArenaOK(a, arena[a])
    PROVE  /\ UsedOf \in [Ids -> Nat]
           /\ \A a \in Ids : UsedOf[a] = arena[a].used /\ UsedOf[a] <= Reserved[a]
<1>1. \A a \in Ids : arena[a].used \in Nat /\ arena[a].used <= Reserved[a]
  BY ReservedFacts DEF ArenaOK
<1>. QED BY <1>1 DEF UsedOf

\* Whatever the extents, a segment lies inside a blob that has room for all.
LEMMA SegmentInside ==
    ASSUME NEW u \in [Ids -> Nat], Need(u) <= BlobCap,
           NEW a \in Ids, a \in snapshotted, NEW i \in 0 .. u[a] - 1
    PROVE  Offset(u, a) + i \in 0 .. BlobCap - 1
<1>1. Need(u) \in Nat
  <2>1. Count \in 0 .. Count
    BY RegisteredFacts
  <2>. QED BY <2>1, ExtentsFacts DEF Need, Count, IsEnds
<1>2. u[a] \in Nat /\ BlobCap \in Nat
  BY SizesFacts
<1>. QED BY <1>1, <1>2, OffsetFacts

\* What is packed can be read back, arena by arena.
LEMMA PackedFacts ==
    ASSUME \A a \in Ids : ArenaOK(a, arena[a]), snapshotted \in SUBSET Ids,
           Need(UsedOf) <= BlobCap
    PROVE  /\ Packed \in [0 .. BlobCap - 1 -> 0 .. 1]
           /\ \A a \in snapshotted : \A i \in 0 .. arena[a].used - 1 :
                 Packed[Offset(UsedOf, a) + i] = arena[a].bytes[i]
<1>. DEFINE Owner(k) == CHOOSE a \in Ids : Covers(a, k)
<1>1. /\ UsedOf \in [Ids -> Nat]
      /\ \A a \in Ids : UsedOf[a] = arena[a].used /\ UsedOf[a] <= Reserved[a]
  BY UsedOfFacts
<1>2. \A a \in Ids : arena[a].bytes \in [Offsets(a) -> 0 .. 1] /\ Reserved[a] \in Nat
  BY ReservedFacts DEF ArenaOK
<1>3. \A a \in snapshotted : Offset(UsedOf, a) \in Nat
  BY <1>1, OffsetFacts
<1>4. \A a \in snapshotted : \A k : Covers(a, k) <=>
         k \in Offset(UsedOf, a) .. Offset(UsedOf, a) + UsedOf[a] - 1
  BY <1>1 DEF Covers
<1>5. \A a \in Ids, b \in Ids, k \in 0 .. BlobCap - 1 : Covers(a, k) /\ Covers(b, k) => a = b
  <2>. SUFFICES ASSUME NEW a \in Ids, NEW b \in Ids, NEW k \in 0 .. BlobCap - 1,
                       Covers(a, k), Covers(b, k), a # b
                PROVE  FALSE
    OBVIOUS
  <2>1. a \in snapshotted /\ b \in snapshotted
    BY DEF Covers
  <2>2. \/ Offset(UsedOf, a) + UsedOf[a] <= Offset(UsedOf, b)
        \/ Offset(UsedOf, b) + UsedOf[b] <= Offset(UsedOf, a)
    BY <1>1, <2>1, SegmentsApart
  <2>3. k \in Int /\ UsedOf[a] \in Nat /\ UsedOf[b] \in Nat
    BY <1>1, SizesFacts
  <2>4. /\ Offset(UsedOf, a) <= k /\ k < Offset(UsedOf, a) + UsedOf[a]
        /\ Offset(UsedOf, b) <= k /\ k < Offset(UsedOf, b) + UsedOf[b]
    BY <1>3, <1>4, <2>1, <2>3
  <2>. QED BY <1>3, <2>1, <2>2, <2>3, <2>4
<1>6. Packed = [k \in 0 .. BlobCap - 1 |->
                   IF \E a \in Ids : Covers(a, k)
                   THEN arena[Owner(k)].bytes[k - Offset(UsedOf, Owner(k))] ELSE 0]
  BY DEF Packed, NoBlob
<1>7. ASSUME NEW a \in Ids, NEW k \in 0 .. BlobCap - 1, Covers(a, k)
      PROVE  /\ Owner(k) = a
             /\ k - Offset(UsedOf, a) \in Offsets(a)
             /\ arena[a].bytes[k - Offset(UsedOf, a)] \in 0 .. 1
  <2>1. Owner(k) \in Ids /\ Covers(Owner(k), k)
    BY <1>7
  <2>2. Owner(k) = a
    <3>. HIDE DEF Owner
    <3>. QED BY <1>5, <1>7, <2>1
  <2>3. a \in snapshotted /\ k \in Int /\ UsedOf[a] \in Nat
    BY <1>1, <1>7, SizesFacts DEF Covers
  <2>4. Offset(UsedOf, a) <= k /\ k < Offset(UsedOf, a) + UsedOf[a]
    BY <1>3, <1>4, <1>7, <2>3
  <2>5. k - Offset(UsedOf, a) \in Offsets(a)
    BY <1>1, <1>2, <1>3, <2>3, <2>4 DEF Offsets
  <2>. QED BY <1>2, <2>2, <2>5
<1>8. Packed \in [0 .. BlobCap - 1 -> 0 .. 1]
  <2>. HIDE DEF Owner
  <2>1. \A k \in 0 .. BlobCap - 1 :
           (IF \E a \in Ids : Covers(a, k)
            THEN arena[Owner(k)].bytes[k - Offset(UsedOf, Owner(k))] ELSE 0) \in 0 .. 1
    BY <1>7
  <2>. QED BY <1>6, <2>1
<1>9. ASSUME NEW a \in snapshotted, NEW i \in 0 .. arena[a].used - 1
      PROVE  Packed[Offset(UsedOf, a) + i] = arena[a].bytes[i]
  <2>. DEFINE k == Offset(UsedOf, a) + i
  <2>1. a \in Ids /\ i \in Nat /\ i < UsedOf[a] /\ UsedOf[a] \in Nat
    BY <1>1
  <2>2. k \in 0 .. BlobCap - 1
    BY <1>1, <2>1, SegmentInside
  <2>3. Covers(a, k)
    BY <1>3, <1>4, <2>1
  <2>4. k - Offset(UsedOf, a) = i
    BY <1>3, <2>1
  <2>. HIDE DEF k, Owner
  <2>5. Packed[k] = arena[a].bytes[k - Offset(UsedOf, a)]
    BY <1>6, <1>7, <2>1, <2>2, <2>3
  <2>. QED BY <2>4, <2>5 DEF k
<1>. QED BY <1>8, <1>9

-----------------------------------------------------------------------------
\* The inductive invariant: a snapshot that would be restored fits its blob and
\* the arenas, wherever it was taken.
Filled == snapshot.count = Count /\ Count # 0

SnapshotOK ==
    /\ snapshot \in [fingerprint : {<<>>, Registered, Reverse(Registered)}, count : Nat,
                     used : [Ids -> Nat], blob : [0 .. BlobCap - 1 -> 0 .. 1]]
    /\ Filled => /\ snapshot.fingerprint # <<>>
                 /\ \A a \in Ids : snapshot.used[a] <= Reserved[a]
                 /\ Need(snapshot.used) <= BlobCap

IInv ==
    /\ snapshotted \in Snapshotted
    /\ arena = [a \in Ids |-> arena[a]]
    /\ \A a \in Ids : ArenaOK(a, arena[a])
    /\ SnapshotOK

LEMMA IInvImpliesArenasInv == IInv => ArenasInv
BY DEF IInv, ArenasInv, TypeOK, CleanAboveHighWater, ArenaOK

LEMMA InitIInv == Init => IInv
<1>. SUFFICES ASSUME Init PROVE IInv
  OBVIOUS
<1>1. \A a \in Ids : arena[a] = EmptyArena(a)
  BY DEF Init
<1>2. \A a \in Ids : ArenaOK(a, arena[a])
  BY <1>1, EmptyArenaOK
<1>3. arena = [a \in Ids |-> arena[a]]
  BY <1>1 DEF Init
<1>4. SnapshotOK
  <2>1. NoBlob \in [0 .. BlobCap - 1 -> 0 .. 1] /\ Count \in Nat
    BY RegisteredFacts DEF NoBlob
  <2>2. snapshot = [fingerprint |-> <<>>, count |-> 0, used |-> [a \in Ids |-> 0], blob |-> NoBlob]
    BY DEF Init, NoSnapshot
  <2>. QED BY <2>1, <2>2 DEF SnapshotOK, Filled
<1>. QED BY <1>2, <1>3, <1>4 DEF IInv, Init

\* The layout of a blob depends on the extents alone.
LEMMA NeedFrame ==
    ASSUME snapshotted' = snapshotted, NEW u, snapshot'.used = u
    PROVE  Need(snapshot.used)' = Need(u)
BY DEF Need, Extents

LEMMA SnapshotFrame ==
    ASSUME SnapshotOK, UNCHANGED <<snapshotted, snapshot>>
    PROVE  SnapshotOK'
<1>1. Need(snapshot.used)' = Need(snapshot.used)
  BY NeedFrame
<1>. QED BY <1>1 DEF SnapshotOK, Filled

\* A step that changes one arena.
LEMMA OneArena ==
    ASSUME IInv, NEW a \in Ids, NEW w, ArenaOK(a, w), arena' = [arena EXCEPT ![a] = w],
           UNCHANGED <<snapshotted, snapshot>>
    PROVE  IInv'
<1>1. \A b \in Ids : arena'[b] = IF b = a THEN w ELSE arena[b]
  BY DEF IInv
<1>2. \A b \in Ids : ArenaOK(b, arena'[b])
  BY <1>1 DEF IInv
<1>3. \A b \in Ids : ArenaOK(b, arena[b])'
  BY <1>2 DEF ArenaOK, Offsets
<1>4. arena' = [b \in Ids |-> arena'[b]]
  BY DEF IInv
<1>. QED BY <1>3, <1>4, SnapshotFrame DEF IInv
LEMMA PushIInv ==
    ASSUME IInv, NEW a \in Ids, NEW g \in Grows, Push(a, g[1], g[2])
    PROVE  IInv'
<1>. DEFINE v == arena[a]
            end == Start(v, g[2]) + g[1]
<1>1. g[1] \in Nat /\ g[2] \in Nat \ {0} /\ ArenaOK(a, v)
  BY SizesFacts DEF IInv
<1>2. UNCHANGED <<snapshotted, snapshot>> /\ stopped' = Overruns(a, v, end)
  BY DEF Push
<1>3. CASE Overruns(a, v, end)
  <2>1. arena' = arena
    BY <1>2, <1>3 DEF Push
  <2>2. \A b \in Ids : ArenaOK(b, arena[b])'
    BY <2>1 DEF IInv, ArenaOK, Offsets
  <2>. QED BY <1>2, <2>1, <2>2, SnapshotFrame DEF IInv
<1>4. CASE ~Overruns(a, v, end)
  <2>1. ArenaOK(a, Pushed(a, v, g[1], g[2]))
    BY <1>1, <1>4, PushedOK
  <2>2. arena' = [arena EXCEPT ![a] = Pushed(a, v, g[1], g[2])]
    BY <1>2, <1>4 DEF Push
  <2>. QED BY <1>2, <2>1, <2>2, OneArena
<1>. QED BY <1>3, <1>4

LEMMA WriteIInv ==
    ASSUME IInv, NEW a \in Ids, NEW i \in Offsets(a), Write(a, i)
    PROVE  IInv'
<1>1. ArenaOK(a, arena[a]) /\ i < arena[a].used
  BY DEF IInv, Write
<1>2. ArenaOK(a, [arena[a] EXCEPT !.bytes[i] = 1])
  BY <1>1, WriteOK
<1>3. arena' = [arena EXCEPT ![a] = [arena[a] EXCEPT !.bytes[i] = 1]]
  BY DEF IInv, Write
<1>4. UNCHANGED <<snapshotted, snapshot>>
  BY DEF Write
<1>. QED BY <1>2, <1>3, <1>4, OneArena

LEMMA ResetIInv ==
    ASSUME IInv, NEW a \in Ids, NEW mark \in Nat, ArenaResetTo(a, mark)
    PROVE  IInv'
<1>1. ArenaOK(a, [arena[a] EXCEPT !.used = mark])
  BY ResetOK DEF IInv, ArenaResetTo
<1>2. arena' = [arena EXCEPT ![a] = [arena[a] EXCEPT !.used = mark]]
  BY DEF IInv, ArenaResetTo
<1>3. UNCHANGED <<snapshotted, snapshot>>
  BY DEF ArenaResetTo
<1>. QED BY <1>1, <1>2, <1>3, OneArena

LEMMA DecommitIInv ==
    ASSUME IInv, NEW a \in Ids, NEW mark \in Nat, ArenaDecommitAbove(a, mark)
    PROVE  IInv'
<1>1. ArenaOK(a, Decommitted(a, arena[a], mark))
  BY DecommittedOK DEF IInv
<1>2. arena' = [arena EXCEPT ![a] = Decommitted(a, arena[a], mark)]
  BY DEF ArenaDecommitAbove
<1>3. UNCHANGED <<snapshotted, snapshot>>
  BY DEF ArenaDecommitAbove
<1>. QED BY <1>1, <1>2, <1>3, OneArena

LEMMA SnapshotIInv ==
    ASSUME IInv, RegistrySnapshot
    PROVE  IInv'
<1>1. UNCHANGED <<snapshotted, arena>>
  BY DEF RegistrySnapshot
<1>2. \A a \in Ids : ArenaOK(a, arena[a])
  BY DEF IInv
<1>3. /\ UsedOf \in [Ids -> Nat]
      /\ \A a \in Ids : UsedOf[a] = arena[a].used /\ UsedOf[a] <= Reserved[a]
  BY <1>2, UsedOfFacts
<1>4. SnapshotOK'
  <2>1. CASE Need(UsedOf) > BlobCap
    <3>1. NoBlob \in [0 .. BlobCap - 1 -> 0 .. 1] /\ Count \in Nat
      BY RegisteredFacts DEF NoBlob
    <3>2. snapshot' = [fingerprint |-> <<>>, count |-> 0, used |-> [a \in Ids |-> 0],
                       blob |-> NoBlob]
      BY <2>1 DEF RegistrySnapshot, NoSnapshot
    <3>. QED BY <3>1, <3>2 DEF SnapshotOK, Filled
  <2>2. CASE ~(Need(UsedOf) > BlobCap)
    <3>1. snapshot' = [fingerprint |-> Registered, count |-> Count, used |-> UsedOf,
                       blob |-> Packed]
      BY <2>2 DEF RegistrySnapshot, Count
    <3>2. Need(UsedOf) \in Nat
      <4>1. Count \in 0 .. Count
        BY RegisteredFacts
      <4>. QED BY <1>3, <4>1, ExtentsFacts DEF Need, Count, IsEnds
    <3>3. Need(UsedOf) <= BlobCap
      BY <2>2, <3>2, SizesFacts
    <3>4. Packed \in [0 .. BlobCap - 1 -> 0 .. 1]
      BY <1>2, <3>3, PackedFacts, SizesFacts DEF IInv
    <3>5. Need(snapshot.used)' = Need(UsedOf)
      BY <1>1, <3>1, NeedFrame
    <3>6. Count # 0 => Registered # <<>>
      BY DEF Count
    <3>7. Count \in Nat
      BY RegisteredFacts
    <3>. QED BY <1>3, <3>1, <3>3, <3>4, <3>5, <3>6, <3>7 DEF SnapshotOK, Filled
  <2>. QED BY <2>1, <2>2
<1>5. \A b \in Ids : ArenaOK(b, arena[b])'
  BY <1>1, <1>2 DEF ArenaOK, Offsets
<1>. QED BY <1>1, <1>4, <1>5 DEF IInv

\* A snapshot that matches, of any arena at all, is a filled one.
LEMMA MatchesFacts ==
    ASSUME Matches, NEW a \in Ids
    PROVE  Filled
<1>1. Count # 0
  BY RegisteredFacts
<1>. QED BY <1>1 DEF Matches, Filled, Count

LEMMA RestoredFacts ==
    ASSUME IInv, Matches, NEW a \in Ids, a \in snapshotted
    PROVE  /\ ArenaOK(a, RestoredArena(a))
           /\ RestoredArena(a).used = snapshot.used[a]
           /\ snapshot.used[a] \in Nat /\ snapshot.used[a] <= Reserved[a]
           /\ \A i \in 0 .. snapshot.used[a] - 1 :
                 RestoredArena(a).bytes[i] = Restored(a)[i]
<1>1. Filled
  BY MatchesFacts
<1>2. /\ snapshot.used \in [Ids -> Nat] /\ snapshot.blob \in [0 .. BlobCap - 1 -> 0 .. 1]
      /\ \A b \in Ids : snapshot.used[b] <= Reserved[b]
      /\ Need(snapshot.used) <= BlobCap
  BY <1>1 DEF IInv, SnapshotOK
<1>3. \A i \in 0 .. snapshot.used[a] - 1 : Restored(a)[i] \in 0 .. 1
  <2>. SUFFICES ASSUME NEW i \in 0 .. snapshot.used[a] - 1 PROVE Restored(a)[i] \in 0 .. 1
    OBVIOUS
  <2>1. Offset(snapshot.used, a) + i \in 0 .. BlobCap - 1
    BY <1>2, SegmentInside
  <2>2. Restored(a)[i] = snapshot.blob[Offset(snapshot.used, a) + i]
    BY DEF Restored, Segment
  <2>. QED BY <1>2, <2>1, <2>2
<1>4. ArenaOK(a, arena[a]) /\ snapshot.used[a] \in Nat /\ snapshot.used[a] <= Reserved[a]
  BY <1>2 DEF IInv
<1>. QED BY <1>3, <1>4, RestoredOK

LEMMA RestoreIInv ==
    ASSUME IInv, RegistryRestore
    PROVE  IInv'
<1>1. UNCHANGED <<snapshotted, snapshot>> /\ Matches
  BY DEF RegistryRestore
<1>2. arena' = [a \in Ids |-> IF a \in snapshotted THEN RestoredArena(a) ELSE arena[a]]
  BY DEF RegistryRestore
<1>3. \A a \in Ids : ArenaOK(a, arena'[a])
  <2>. SUFFICES ASSUME NEW a \in Ids PROVE ArenaOK(a, arena'[a])
    OBVIOUS
  <2>1. CASE a \in snapshotted
    BY <1>1, <1>2, <2>1, RestoredFacts
  <2>2. CASE a \notin snapshotted
    BY <1>2, <2>2 DEF IInv
  <2>. QED BY <2>1, <2>2
<1>4. \A a \in Ids : ArenaOK(a, arena[a])'
  BY <1>3 DEF ArenaOK, Offsets
<1>5. arena' = [a \in Ids |-> arena'[a]]
  BY <1>2
<1>. QED BY <1>1, <1>4, <1>5, SnapshotFrame DEF IInv

LEMMA RejoinIInv ==
    ASSUME IInv, Rejoin
    PROVE  IInv'
<1>1. snapshotted' = snapshotted /\ arena' = [a \in Ids |-> EmptyArena(a)]
  BY DEF Rejoin
<1>2. PICK fingerprint \in {snapshot.fingerprint, Reverse(Registered)} :
          snapshot' = [snapshot EXCEPT !.fingerprint = fingerprint]
  BY DEF Rejoin
<1>3. \A a \in Ids : ArenaOK(a, arena[a])'
  <2>1. \A a \in Ids : ArenaOK(a, arena'[a])
    BY <1>1, EmptyArenaOK
  <2>. QED BY <2>1 DEF ArenaOK, Offsets
<1>4. snapshot \in [fingerprint : {<<>>, Registered, Reverse(Registered)}, count : Nat,
                    used : [Ids -> Nat], blob : [0 .. BlobCap - 1 -> 0 .. 1]]
  BY DEF IInv, SnapshotOK
<1>5. /\ snapshot'.fingerprint = fingerprint /\ snapshot'.count = snapshot.count
      /\ snapshot'.used = snapshot.used
      /\ snapshot' \in [fingerprint : {<<>>, Registered, Reverse(Registered)}, count : Nat,
                        used : [Ids -> Nat], blob : [0 .. BlobCap - 1 -> 0 .. 1]]
  BY <1>2, <1>4
<1>6. Count # 0 => Reverse(Registered) # <<>>
  BY RegisteredFacts DEF Reverse, Count
<1>7. Need(snapshot.used)' = Need(snapshot.used)
  BY <1>1, <1>5, NeedFrame
<1>8. SnapshotOK'
  BY <1>2, <1>5, <1>6, <1>7 DEF IInv, SnapshotOK, Filled
<1>9. arena' = [a \in Ids |-> arena'[a]]
  BY <1>1
<1>. QED BY <1>1, <1>3, <1>8, <1>9 DEF IInv

LEMMA OffsetIsNat == ASSUME NEW a \in Ids PROVE Offsets(a) \subseteq Nat
BY ReservedFacts DEF Offsets

LEMMA NextIInv == IInv /\ [Next]_vars => IInv'
<1>. SUFFICES ASSUME IInv, [Next]_vars PROVE IInv'
  OBVIOUS
<1>1. ASSUME NEW a \in Ids, NEW g \in Grows, Push(a, g[1], g[2]) PROVE IInv'
  BY <1>1, PushIInv
<1>2. ASSUME NEW a \in Ids, NEW i \in Offsets(a),
             Write(a, i) \/ ArenaResetTo(a, i) \/ ArenaDecommitAbove(a, i)
      PROVE  IInv'
  <2>1. i \in Nat
    BY OffsetIsNat
  <2>. QED BY <1>2, <2>1, WriteIInv, ResetIInv, DecommitIInv
<1>3. CASE RegistrySnapshot
  BY <1>3, SnapshotIInv
<1>4. CASE RegistryRestore
  BY <1>4, RestoreIInv
<1>5. CASE Rejoin
  BY <1>5, RejoinIInv
<1>6. CASE UNCHANGED vars
  <2>1. \A b \in Ids : ArenaOK(b, arena[b])'
    BY <1>6 DEF vars, IInv, ArenaOK, Offsets
  <2>. QED BY <1>6, <2>1, SnapshotFrame DEF vars, IInv
<1>. QED BY <1>1, <1>2, <1>3, <1>4, <1>5, <1>6 DEF Next

\* Between any two calls an arena's marks are ordered, its pages counted in whole
\* granules, and what lies above its high-water mark reads zero (vmem_arena.cpp),
\* also after a restore from another process (arena_registry.cpp).
THEOREM ArenasCorrect == Spec => []ArenasInv
<1>1. Spec => []IInv
  BY InitIInv, NextIInv, PTL DEF Spec
<1>. QED BY <1>1, IInvImpliesArenasInv, PTL
-----------------------------------------------------------------------------
\* The arenas are stacks of bytes: every step is a step of ByteStack.
Contents == [a \in Ids |-> AsSeq(arena[a].bytes, arena[a].used)]

LEMMA AsSeqFacts ==
    ASSUME NEW f, NEW n \in Nat
    PROVE  /\ Len(AsSeq(f, n)) = n
           /\ \A i \in 1 .. n : AsSeq(f, n)[i] = f[i - 1]
           /\ AsSeq(f, n) = [i \in 1 .. n |-> f[i - 1]]
BY DEF AsSeq

LEMMA AsSeqEqual ==
    ASSUME NEW f, NEW g, NEW n \in Nat, \A i \in 0 .. n - 1 : f[i] = g[i]
    PROVE  AsSeq(f, n) = AsSeq(g, n)
<1>1. \A i \in 1 .. n : i - 1 \in 0 .. n - 1
  OBVIOUS
<1>. QED BY <1>1 DEF AsSeq

LEMMA ContentsType ==
    ASSUME NEW a \in Ids, NEW v, ArenaOK(a, v)
    PROVE  /\ v.used \in Nat
           /\ AsSeq(v.bytes, v.used) \in Seq(0 .. 1) /\ Len(AsSeq(v.bytes, v.used)) = v.used
           /\ AsSeq(v.bytes, v.used) = [i \in 1 .. v.used |-> v.bytes[i - 1]]
<1>1. /\ v.used \in Nat /\ v.used <= Reserved[a] /\ Reserved[a] \in Nat
      /\ v.bytes \in [Offsets(a) -> 0 .. 1]
  BY ReservedFacts DEF ArenaOK
<1>2. \A i \in 1 .. v.used : i - 1 \in Offsets(a)
  BY <1>1 DEF Offsets
<1>. QED BY <1>1, <1>2 DEF AsSeq

LEMMA ConcatFacts ==
    ASSUME NEW S, NEW s \in Seq(S), NEW z \in Seq(S)
    PROVE  /\ Len(s \o z) = Len(s) + Len(z)
           /\ s \o z = [i \in 1 .. Len(s) + Len(z) |->
                           IF i <= Len(s) THEN s[i] ELSE z[i - Len(s)]]
<1>1. Len(s \o z) = Len(s) + Len(z) /\ s \o z \in Seq(S)
  OBVIOUS
<1>2. \A i \in 1 .. Len(s) + Len(z) :
         (s \o z)[i] = IF i <= Len(s) THEN s[i] ELSE z[i - Len(s)]
  OBVIOUS
<1>. DEFINE t == s \o z
<1>3. t = [i \in 1 .. Len(t) |-> t[i]]
  <2>1. t \in Seq(S)
    BY <1>1
  <2>. HIDE DEF t
  <2>. QED BY <2>1
<1>. QED BY <1>1, <1>2, <1>3

\* What is pushed reads zero, and what was there stays.
LEMMA PushedContents ==
    ASSUME NEW a \in Ids, NEW v, ArenaOK(a, v), NEW n \in Nat, NEW g \in Nat \ {0},
           ~Overruns(a, v, Start(v, g) + n)
    PROVE  AsSeq(Pushed(a, v, n, g).bytes, Pushed(a, v, n, g).used)
               = Stack!Grown(AsSeq(v.bytes, v.used), n, g)
<1>. DEFINE w == Pushed(a, v, n, g)
<1>. HIDE DEF w
<1>1. /\ ArenaOK(a, w) /\ w.used = AlignUp(v.used, g) + n
      /\ \A i \in Offsets(a) : i < v.used => w.bytes[i] = v.bytes[i]
      /\ \A i \in Offsets(a) : v.used <= i /\ i < w.used => w.bytes[i] = 0
  <2>1. w = Pushed(a, v, n, g)
    BY DEF w
  <2>2. /\ ArenaOK(a, Pushed(a, v, n, g))
        /\ Pushed(a, v, n, g).used = AlignUp(v.used, g) + n
    BY PushedOK
  <2>3. \A i \in Offsets(a) : i < v.used => Pushed(a, v, n, g).bytes[i] = v.bytes[i]
    BY PushedOK
  <2>4. \A i \in Offsets(a) : v.used <= i /\ i < Pushed(a, v, n, g).used =>
           Pushed(a, v, n, g).bytes[i] = 0
    BY PushedOK
  <2>. QED BY <2>1, <2>2, <2>3, <2>4
<1>. DEFINE s == AsSeq(v.bytes, v.used)
            k == AlignUp(v.used, g) + n - v.used
            z == [i \in 1 .. k |-> 0]
<1>2. v.used \in Nat /\ AlignUp(v.used, g) \in Nat /\ v.used <= AlignUp(v.used, g)
  BY AlignUpFacts DEF ArenaOK
<1>3. w.used \in Nat /\ w.used <= Reserved[a] /\ Reserved[a] \in Nat
  BY <1>1, ReservedFacts DEF ArenaOK
<1>4. k \in Nat /\ v.used + k = w.used
  BY <1>1, <1>2
<1>5. Stack!Grown(s, n, g) = s \o z
  BY <1>2, AsSeqFacts DEF Stack!Grown, Stack!Zeros, Stack!AlignUp, AlignUp
<1>. HIDE DEF k
<1>6. s = [i \in 1 .. v.used |-> v.bytes[i - 1]] /\ Len(s) = v.used
  BY ContentsType
<1>7. s \in Seq(0 .. 1)
  BY ContentsType
<1>8. z \in Seq(0 .. 1) /\ Len(z) = k /\ \A i \in 1 .. k : z[i] = 0
  BY <1>4
<1>. HIDE DEF s, z
<1>9. s \o z = [i \in 1 .. w.used |-> IF i <= v.used THEN s[i] ELSE 0]
  <2>. DEFINE t == s \o z
  <2>3. s \in Seq(0 .. 1) /\ z \in Seq(0 .. 1)
    BY <1>7, <1>8
  <2>0. t = [i \in 1 .. Len(s) + Len(z) |-> IF i <= Len(s) THEN s[i] ELSE z[i - Len(s)]]
    BY <2>3, ConcatFacts, Zenon
  <2>. HIDE DEF t
  <2>1. t = [i \in 1 .. v.used + k |-> IF i <= v.used THEN s[i] ELSE z[i - v.used]]
    BY <1>6, <1>8, <2>0
  <2>2. \A i \in 1 .. v.used + k : ~(i <= v.used) => i - v.used \in 1 .. k
    BY <1>2, <1>4
  <2>. QED BY <1>4, <1>8, <2>1, <2>2 DEF t
<1>10. \A i \in 1 .. w.used : w.bytes[i - 1] = IF i <= v.used THEN s[i] ELSE 0
  <2>. SUFFICES ASSUME NEW i \in 1 .. w.used
                PROVE  w.bytes[i - 1] = IF i <= v.used THEN s[i] ELSE 0
    OBVIOUS
  <2>1. i - 1 \in Offsets(a) /\ i - 1 < w.used
    BY <1>3 DEF Offsets
  <2>2. CASE i <= v.used
    <3>1. i \in 1 .. v.used /\ i - 1 < v.used
      BY <1>2, <1>3, <2>2
    <3>. QED BY <1>1, <1>6, <2>1, <2>2, <3>1
  <2>3. CASE ~(i <= v.used)
    <3>1. v.used <= i - 1
      BY <1>2, <1>3, <2>3
    <3>. QED BY <1>1, <2>1, <2>3, <3>1
  <2>. QED BY <2>2, <2>3
<1>11. AsSeq(w.bytes, w.used) = [i \in 1 .. w.used |-> w.bytes[i - 1]]
  BY DEF AsSeq
<1>. QED BY <1>5, <1>9, <1>10, <1>11 DEF w, s

LEMMA CutContents ==
    ASSUME NEW f, NEW n \in Nat, NEW m \in Nat, m <= n,
           \A i \in 0 .. n - 1 : f[i] \in 0 .. 1
    PROVE  SubSeq(AsSeq(f, n), 1, m) = AsSeq(f, m)
<1>1. \A i \in 1 .. n : i - 1 \in 0 .. n - 1
  OBVIOUS
<1>2. AsSeq(f, n) \in Seq(0 .. 1) /\ Len(AsSeq(f, n)) = n
  BY <1>1 DEF AsSeq
<1>3. SubSeq(AsSeq(f, n), 1, m) = [i \in 1 .. m |-> AsSeq(f, n)[i]]
  BY <1>2
<1>4. \A i \in 1 .. m : AsSeq(f, n)[i] = f[i - 1]
  BY DEF AsSeq
<1>. QED BY <1>3, <1>4 DEF AsSeq

\* The image a snapshot holds depends on the snapshot alone.
LEMMA ImageFrame ==
    ASSUME snapshotted' = snapshotted
    PROVE  SavedImage' =
              IF snapshot'.count = Len(Registered) /\ snapshot'.fingerprint = Registered
              THEN [a \in snapshotted |->
                       AsSeq(Segment(snapshot'.blob, snapshot'.used, a), snapshot'.used[a])]
              ELSE <<>>
BY DEF SavedImage, Matches, Segment, Offset, Extents, AsSeq

LEMMA SameImage ==
    ASSUME UNCHANGED <<snapshotted, snapshot>>
    PROVE  SavedImage' = SavedImage
BY ImageFrame DEF SavedImage, Matches

LEMMA SameImageOfParts ==
    ASSUME snapshotted' = snapshotted, snapshot'.count = snapshot.count,
           snapshot'.used = snapshot.used, snapshot'.blob = snapshot.blob,
           snapshot'.fingerprint = snapshot.fingerprint
    PROVE  SavedImage' = SavedImage
BY ImageFrame DEF SavedImage, Matches

\* A step that changes one arena changes one stack.
LEMMA OneContents ==
    ASSUME IInv, NEW a \in Ids, NEW w, arena' = [arena EXCEPT ![a] = w]
    PROVE  Contents' = [Contents EXCEPT ![a] = AsSeq(w.bytes, w.used)]
<1>1. \A b \in Ids : arena'[b] = IF b = a THEN w ELSE arena[b]
  BY DEF IInv
<1>2. Contents' = [b \in Ids |-> AsSeq(arena'[b].bytes, arena'[b].used)]
  BY DEF Contents, AsSeq
<1>3. \A b \in Ids : AsSeq(arena'[b].bytes, arena'[b].used) =
         IF b = a THEN AsSeq(w.bytes, w.used) ELSE Contents[b]
  BY <1>1 DEF Contents
<1>. QED BY <1>2, <1>3 DEF Contents
LEMMA NoImageFacts ==
    ASSUME snapshotted \in SUBSET Ids, Count = 0
    PROVE  SavedImage = <<>>
<1>1. Ids = {}
  BY RegisteredFacts
<1>2. snapshotted = {}
  BY <1>1
<1>. QED BY <1>2 DEF SavedImage

LEMMA InitRefines == Init => Stack!Init
<1>. SUFFICES ASSUME Init PROVE Stack!Init
  OBVIOUS
<1>1. Contents = [a \in Ids |-> <<>>]
  <2>1. \A a \in Ids : AsSeq(arena[a].bytes, arena[a].used) = <<>>
    BY DEF Init, EmptyArena, AsSeq
  <2>. QED BY <2>1 DEF Contents
<1>2. SavedImage = <<>>
  <2>1. CASE Count = 0
    BY <2>1, NoImageFacts, SizesFacts DEF Init
  <2>2. CASE Count # 0
    BY <2>2 DEF SavedImage, Matches, Init, NoSnapshot, Count
  <2>. QED BY <2>1, <2>2
<1>. QED BY <1>1, <1>2 DEF Stack!Init, Stack!NoImage, Init, Contents

LEMMA PushRefines ==
    ASSUME IInv, NEW a \in Ids, NEW n \in Nat, NEW g \in Nat \ {0}, Push(a, n, g)
    PROVE  Stack!Push(a, n, g)
<1>. DEFINE v == arena[a]
            end == Start(v, g) + n
            grown == Stack!Grown(Contents[a], n, g)
<1>1. ArenaOK(a, v)
  BY DEF IInv
<1>2. UNCHANGED <<snapshotted, snapshot>> /\ stopped' = Overruns(a, v, end)
  BY DEF Push
<1>3. SavedImage' = SavedImage
  BY <1>2, SameImage
<1>4. v.used \in Nat /\ end \in Nat /\ v.used <= end /\ end = AlignUp(v.used, g) + n
  <2>1. v.used \in Nat
    BY <1>1 DEF ArenaOK
  <2>. HIDE DEF v
  <2>2. AlignUp(v.used, g) \in Nat /\ v.used <= AlignUp(v.used, g)
    BY <2>1, AlignUpFacts
  <2>3. end = AlignUp(v.used, g) + n
    BY DEF Start
  <2>. HIDE DEF end
  <2>. QED BY <2>1, <2>2, <2>3
<1>5. Contents[a] = AsSeq(v.bytes, v.used)
  BY DEF Contents
<1>6. Len(grown) = end
  <2>1. Len(Contents[a]) = v.used
    BY <1>4, <1>5, AsSeqFacts
  <2>. DEFINE k == AlignUp(v.used, g) + n - v.used
              z == [i \in 1 .. k |-> 0]
  <2>2. k \in Nat /\ v.used + k = end
    <3>1. AlignUp(v.used, g) \in Nat /\ v.used <= AlignUp(v.used, g)
      BY <1>4, AlignUpFacts
    <3>. HIDE DEF v, end
    <3>. QED BY <1>4, <3>1
  <2>3. grown = Contents[a] \o z
    BY <2>1 DEF Stack!Grown, Stack!Zeros, Stack!AlignUp, AlignUp
  <2>. HIDE DEF k, grown
  <2>4. Len(z) = k /\ z \in Seq(0 .. 1)
    BY <2>2
  <2>5. Contents[a] \in Seq(0 .. 1)
    BY <1>1, <1>5, ContentsType
  <2>. HIDE DEF z
  <2>6. Len(Contents[a] \o z) = Len(Contents[a]) + Len(z)
    BY <2>4, <2>5, ConcatFacts, Zenon
  <2>. QED BY <2>1, <2>2, <2>3, <2>4, <2>6
<1>7. stopped' = (Len(grown) > Reserved[a])
  <2>1. Overruns(a, v, end) <=> end > Reserved[a]
    BY <1>1, <1>4, OverrunsFacts
  <2>. HIDE DEF end, grown, v
  <2>2. Overruns(a, v, end) = (end > Reserved[a])
    BY <2>1 DEF Overruns
  <2>. QED BY <1>2, <1>6, <2>2
<1>8. Contents' = IF stopped' THEN Contents ELSE [Contents EXCEPT ![a] = grown]
  <2>1. CASE stopped'
    <3>1. arena' = arena
      BY <2>1 DEF Push
    <3>. QED BY <2>1, <3>1 DEF Contents, AsSeq
  <2>2. CASE ~stopped'
    <3>1. arena' = [arena EXCEPT ![a] = Pushed(a, v, n, g)]
      BY <2>2 DEF Push
    <3>2. ~Overruns(a, v, end)
      BY <1>2, <2>2
    <3>3. AsSeq(Pushed(a, v, n, g).bytes, Pushed(a, v, n, g).used) = grown
      <4>1. ~Overruns(a, v, Start(v, g) + n)
        BY <3>2
      <4>2. grown = Stack!Grown(AsSeq(v.bytes, v.used), n, g)
        BY <1>5
      <4>. HIDE DEF v, end, grown
      <4>3. AsSeq(Pushed(a, v, n, g).bytes, Pushed(a, v, n, g).used)
               = Stack!Grown(AsSeq(v.bytes, v.used), n, g)
        BY <1>1, <4>1, PushedContents
      <4>. QED BY <4>2, <4>3
    <3>. HIDE DEF grown, v
    <3>4. Contents' = [Contents EXCEPT ![a] =
             AsSeq(Pushed(a, v, n, g).bytes, Pushed(a, v, n, g).used)]
      BY <3>1, OneContents
    <3>. QED BY <2>2, <3>3, <3>4
  <2>. QED BY <2>1, <2>2
<1>. QED BY <1>3, <1>7, <1>8 DEF Stack!Push, Contents

LEMMA WriteRefines ==
    ASSUME IInv, NEW a \in Ids, NEW i \in Offsets(a), Write(a, i)
    PROVE  \E j \in DOMAIN Contents[a] : Stack!Write(a, j)
<1>. DEFINE v == arena[a]
            w == [v EXCEPT !.bytes[i] = 1]
<1>1. /\ v \in [committed : Nat, used : Nat, high_water : Nat, bytes : [Offsets(a) -> 0 .. 1]]
      /\ v.used <= Reserved[a] /\ Reserved[a] \in Nat
  BY ReservedFacts DEF IInv, ArenaOK
<1>2. i \in Nat /\ i < v.used
  BY OffsetIsNat DEF Write
<1>3. arena' = [arena EXCEPT ![a] = w] /\ UNCHANGED <<snapshotted, snapshot, stopped>>
  BY DEF Write, IInv
<1>4. w.used = v.used /\ w.bytes = [v.bytes EXCEPT ![i] = 1]
  BY <1>1
<1>. HIDE DEF w
<1>5. Contents' = [Contents EXCEPT ![a] = AsSeq(w.bytes, w.used)]
  BY <1>3, OneContents
<1>6. Contents[a] = AsSeq(v.bytes, v.used) /\ DOMAIN Contents[a] = 1 .. v.used
  BY DEF Contents, AsSeq
<1>7. AsSeq(w.bytes, w.used) = [Contents[a] EXCEPT ![i + 1] = 1]
  <2>1. \A j \in 1 .. v.used : j - 1 \in Offsets(a) /\ (j - 1 = i <=> j = i + 1)
    BY <1>1, <1>2 DEF Offsets
  <2>2. \A j \in 1 .. v.used : w.bytes[j - 1] = IF j = i + 1 THEN 1 ELSE v.bytes[j - 1]
    BY <1>1, <1>4, <2>1
  <2>. QED BY <1>4, <1>6, <2>2 DEF AsSeq
<1>8. i + 1 \in DOMAIN Contents[a]
  BY <1>1, <1>2, <1>6
<1>9. SavedImage' = SavedImage
  BY <1>3, SameImage
<1>10. Contents' = [Contents EXCEPT ![a][i + 1] = 1]
  BY <1>5, <1>7 DEF Contents
<1>11. Stack!Write(a, i + 1)
  BY <1>3, <1>9, <1>10 DEF Stack!Write, Contents
<1>. QED BY <1>8, <1>11

LEMMA CutRefines ==
    ASSUME IInv, NEW a \in Ids, NEW w, NEW mark \in 0 .. arena[a].used,
           arena' = [arena EXCEPT ![a] = w], w.used = mark,
           \A i \in 0 .. mark - 1 : w.bytes[i] = arena[a].bytes[i],
           UNCHANGED <<snapshotted, snapshot, stopped>>
    PROVE  mark \in 0 .. Len(Contents[a]) /\ Stack!Cut(a, mark)
<1>. DEFINE v == arena[a]
<1>1. v.used \in Nat /\ v.used <= Reserved[a] /\ v.bytes \in [Offsets(a) -> 0 .. 1]
      /\ Reserved[a] \in Nat
  BY ReservedFacts DEF IInv, ArenaOK
<1>2. Contents[a] = AsSeq(v.bytes, v.used)
  BY DEF Contents
<1>3. mark \in Nat /\ mark <= v.used
  BY <1>1
<1>4. \A i \in 0 .. v.used - 1 : v.bytes[i] \in 0 .. 1
  <2>. HIDE DEF v
  <2>. SUFFICES ASSUME NEW i \in 0 .. v.used - 1 PROVE v.bytes[i] \in 0 .. 1
    OBVIOUS
  <2>1. i \in Offsets(a)
    BY <1>1 DEF Offsets
  <2>. QED BY <1>1, <2>1
<1>5. SubSeq(Contents[a], 1, mark) = AsSeq(v.bytes, mark)
  <2>1. v.used \in Nat /\ mark \in Nat /\ mark <= v.used
    BY <1>1, <1>3
  <2>. HIDE DEF v
  <2>2. SubSeq(AsSeq(v.bytes, v.used), 1, mark) = AsSeq(v.bytes, mark)
    BY <1>4, <2>1, CutContents
  <2>. QED BY <1>2, <2>2
<1>6. AsSeq(w.bytes, w.used) = AsSeq(v.bytes, mark)
  BY <1>3, AsSeqEqual
<1>7. Contents' = [Contents EXCEPT ![a] = SubSeq(Contents[a], 1, mark)]
  <2>1. Contents' = [Contents EXCEPT ![a] = AsSeq(w.bytes, w.used)]
    BY OneContents
  <2>. QED BY <1>5, <1>6, <2>1
<1>8. Len(Contents[a]) = v.used
  BY <1>1, <1>2, AsSeqFacts
<1>9. SavedImage' = SavedImage
  BY SameImage
<1>10. Stack!Cut(a, mark)
  BY <1>7, <1>9 DEF Stack!Cut, Contents
<1>. QED BY <1>1, <1>3, <1>8, <1>10

LEMMA ResetRefines ==
    ASSUME IInv, NEW a \in Ids, NEW mark \in Nat, ArenaResetTo(a, mark)
    PROVE  \E m \in 0 .. Len(Contents[a]) : Stack!Cut(a, m)
<1>. DEFINE w == [arena[a] EXCEPT !.used = mark]
<1>1. arena[a] \in [committed : Nat, used : Nat, high_water : Nat,
                    bytes : [Offsets(a) -> 0 .. 1]]
  BY DEF IInv, ArenaOK
<1>2. w.used = mark /\ w.bytes = arena[a].bytes
  BY <1>1
<1>3. arena' = [arena EXCEPT ![a] = w] /\ UNCHANGED <<snapshotted, snapshot, stopped>>
  BY DEF IInv, ArenaResetTo
<1>4. mark \in 0 .. arena[a].used
  BY <1>1 DEF ArenaResetTo
<1>. HIDE DEF w
<1>. QED BY <1>2, <1>3, <1>4, CutRefines

LEMMA DecommitRefines ==
    ASSUME IInv, NEW a \in Ids, NEW mark \in Offsets(a), ArenaDecommitAbove(a, mark)
    PROVE  \E m \in 0 .. Len(Contents[a]) : Stack!Cut(a, m)
<1>. DEFINE w == Decommitted(a, arena[a], mark)
            m == Lesser(arena[a].used, mark)
<1>1. arena[a].used \in Nat /\ arena[a].used <= Reserved[a] /\ Reserved[a] \in Nat
      /\ ArenaOK(a, arena[a]) /\ mark \in Nat
  BY ReservedFacts, OffsetIsNat DEF IInv, ArenaOK
<1>2. w.used = m /\ \A i \in Offsets(a) : i < mark => w.bytes[i] = arena[a].bytes[i]
  <2>1. Decommitted(a, arena[a], mark).used = Lesser(arena[a].used, mark)
    BY <1>1, DecommittedOK
  <2>2. \A i \in Offsets(a) : i < mark =>
           Decommitted(a, arena[a], mark).bytes[i] = arena[a].bytes[i]
    BY <1>1, DecommittedOK
  <2>. QED BY <2>1, <2>2
<1>3. m \in 0 .. arena[a].used /\ m <= mark
  BY <1>1 DEF Lesser
<1>4. arena' = [arena EXCEPT ![a] = w] /\ UNCHANGED <<snapshotted, snapshot, stopped>>
  BY DEF ArenaDecommitAbove
<1>. HIDE DEF w, m
<1>5. \A i \in 0 .. m - 1 : w.bytes[i] = arena[a].bytes[i]
  <2>1. \A i \in 0 .. m - 1 : i \in Offsets(a) /\ i < mark
    BY <1>1, <1>3 DEF Offsets
  <2>. QED BY <1>2, <2>1
<1>. QED BY <1>2, <1>3, <1>4, <1>5, CutRefines

LEMMA SnapshotRefines ==
    ASSUME IInv, RegistrySnapshot
    PROVE  Stack!Save(snapshotted)
<1>1. UNCHANGED <<snapshotted, arena, stopped>>
  BY DEF RegistrySnapshot
<1>2. Contents' = Contents
  BY <1>1 DEF Contents, AsSeq
<1>3. snapshotted \in SUBSET Ids
  BY SizesFacts DEF IInv
<1>4. SavedImage' \in {<<>>, [a \in snapshotted |-> Contents[a]]}
  <2>1. CASE Need(UsedOf) > BlobCap
    <3>1. snapshot' = NoSnapshot
      BY <2>1 DEF RegistrySnapshot
    <3>2. CASE Count = 0
      <4>1. snapshotted = {}
        BY <1>3, <3>2, RegisteredFacts
      <4>. QED BY <1>1, <4>1, ImageFrame
    <3>3. CASE Count # 0
      BY <1>1, <3>1, <3>3, ImageFrame DEF NoSnapshot, Count
    <3>. QED BY <3>2, <3>3
  <2>2. CASE ~(Need(UsedOf) > BlobCap)
    <3>1. snapshot' = [fingerprint |-> Registered, count |-> Len(Registered), used |-> UsedOf,
                       blob |-> Packed]
      BY <2>2 DEF RegistrySnapshot
    <3>2. \A a \in Ids : ArenaOK(a, arena[a])
      BY DEF IInv
    <3>3. UsedOf \in [Ids -> Nat] /\ \A a \in Ids : UsedOf[a] = arena[a].used
      BY <3>2, UsedOfFacts
    <3>4. Need(UsedOf) <= BlobCap
      <4>1. Count \in 0 .. Count
        BY RegisteredFacts
      <4>2. Need(UsedOf) \in Nat
        BY <3>3, <4>1, ExtentsFacts DEF Need, Count, IsEnds
      <4>. QED BY <2>2, <4>2, SizesFacts
    <3>5. SavedImage' = [a \in snapshotted |-> AsSeq(Segment(Packed, UsedOf, a), UsedOf[a])]
      BY <1>1, <3>1, ImageFrame
    <3>6. ASSUME NEW a \in snapshotted
          PROVE  AsSeq(Segment(Packed, UsedOf, a), UsedOf[a]) = Contents[a]
      <4>1. a \in Ids /\ UsedOf[a] = arena[a].used /\ UsedOf[a] \in Nat
        BY <1>3, <3>3
      <4>2. \A i \in 0 .. UsedOf[a] - 1 :
               Segment(Packed, UsedOf, a)[i] = arena[a].bytes[i]
        <5>1. \A i \in 0 .. arena[a].used - 1 :
                 Packed[Offset(UsedOf, a) + i] = arena[a].bytes[i]
          BY <1>3, <3>2, <3>4, PackedFacts
        <5>. QED BY <4>1, <5>1 DEF Segment
      <4>3. AsSeq(Segment(Packed, UsedOf, a), UsedOf[a]) = AsSeq(arena[a].bytes, UsedOf[a])
        BY <4>1, <4>2, AsSeqEqual
      <4>. QED BY <4>1, <4>3 DEF Contents
    <3>. QED BY <3>5, <3>6
  <2>. QED BY <2>1, <2>2
<1>. QED BY <1>1, <1>2, <1>3, <1>4 DEF Stack!Save, Stack!NoImage, Contents
LEMMA RestoreRefines ==
    ASSUME IInv, RegistryRestore
    PROVE  Stack!Restore \/ UNCHANGED <<Contents, SavedImage, stopped>>
<1>1. UNCHANGED <<snapshotted, snapshot, stopped>> /\ Matches
  BY DEF RegistryRestore
<1>2. arena' = [a \in Ids |-> IF a \in snapshotted THEN RestoredArena(a) ELSE arena[a]]
  BY DEF RegistryRestore
<1>3. snapshotted \in SUBSET Ids
  BY SizesFacts DEF IInv
<1>4. SavedImage' = SavedImage
  BY <1>1, SameImage
<1>5. SavedImage = [a \in snapshotted |-> AsSeq(Restored(a), snapshot.used[a])]
  BY <1>1 DEF SavedImage, Restored
<1>6. Contents' = [a \in Ids |-> IF a \in snapshotted THEN SavedImage[a] ELSE Contents[a]]
  <2>1. Contents' = [a \in Ids |-> AsSeq(arena'[a].bytes, arena'[a].used)]
    BY DEF Contents, AsSeq
  <2>2. ASSUME NEW a \in Ids
        PROVE  AsSeq(arena'[a].bytes, arena'[a].used) =
                  IF a \in snapshotted THEN SavedImage[a] ELSE Contents[a]
    <3>1. CASE a \in snapshotted
      <4>1. arena'[a] = RestoredArena(a)
        BY <1>2, <3>1
      <4>2. /\ RestoredArena(a).used = snapshot.used[a] /\ snapshot.used[a] \in Nat
            /\ \A i \in 0 .. snapshot.used[a] - 1 :
                  RestoredArena(a).bytes[i] = Restored(a)[i]
        BY <1>1, <3>1, RestoredFacts
      <4>3. AsSeq(RestoredArena(a).bytes, snapshot.used[a]) =
               AsSeq(Restored(a), snapshot.used[a])
        BY <4>2, AsSeqEqual
      <4>. QED BY <1>5, <3>1, <4>1, <4>2, <4>3
    <3>2. CASE a \notin snapshotted
      BY <1>2, <3>2 DEF Contents
    <3>. QED BY <3>1, <3>2
  <2>. QED BY <2>1, <2>2
<1>7. CASE snapshotted = {}
  <2>1. arena' = arena
    BY <1>2, <1>7 DEF IInv
  <2>2. Contents' = Contents
    BY <2>1 DEF Contents, AsSeq
  <2>. QED BY <1>1, <1>4, <2>2
<1>8. CASE snapshotted # {}
  <2>1. DOMAIN SavedImage = snapshotted
    BY <1>5
  <2>2. SavedImage # <<>>
    BY <1>8, <2>1
  <2>3. Contents' = [a \in Ids |->
                        IF a \in DOMAIN SavedImage THEN SavedImage[a] ELSE Contents[a]]
    BY <1>6, <2>1
  <2>. QED BY <1>1, <1>4, <2>2, <2>3 DEF Stack!Restore, Stack!NoImage, Contents
<1>. QED BY <1>7, <1>8

LEMMA RejoinRefines ==
    ASSUME IInv, Rejoin
    PROVE  Stack!Fresh
<1>1. UNCHANGED <<snapshotted, stopped>> /\ arena' = [a \in Ids |-> EmptyArena(a)]
  BY DEF Rejoin
<1>2. PICK fingerprint \in {snapshot.fingerprint, Reverse(Registered)} :
          snapshot' = [snapshot EXCEPT !.fingerprint = fingerprint]
  BY DEF Rejoin
<1>3. snapshot \in [fingerprint : {<<>>, Registered, Reverse(Registered)}, count : Nat,
                    used : [Ids -> Nat], blob : [0 .. BlobCap - 1 -> 0 .. 1]]
  BY DEF IInv, SnapshotOK
<1>4. /\ snapshot'.fingerprint = fingerprint /\ snapshot'.count = snapshot.count
      /\ snapshot'.used = snapshot.used /\ snapshot'.blob = snapshot.blob
  BY <1>2, <1>3
<1>5. Contents' = [a \in Ids |-> <<>>]
  <2>1. Contents' = [a \in Ids |-> AsSeq(arena'[a].bytes, arena'[a].used)]
    BY DEF Contents, AsSeq
  <2>2. \A a \in Ids : AsSeq(arena'[a].bytes, arena'[a].used) = <<>>
    BY <1>1 DEF EmptyArena, AsSeq
  <2>. QED BY <2>1, <2>2
<1>6. SavedImage' \in {SavedImage, <<>>}
  <2>1. CASE fingerprint = snapshot.fingerprint
    BY <1>1, <1>4, <2>1, SameImageOfParts
  <2>2. CASE Count = 0
    <3>1. snapshotted \in SUBSET Ids /\ Ids = {}
      BY <2>2, RegisteredFacts, SizesFacts DEF IInv
    <3>2. snapshotted = {}
      BY <3>1
    <3>. QED BY <1>1, <3>2, ImageFrame
  <2>3. CASE Count # 0 /\ ~(snapshot.count = Count /\ fingerprint = Registered)
    BY <1>1, <1>4, <2>3, ImageFrame DEF Count
  <2>4. CASE /\ Count # 0 /\ snapshot.count = Count /\ fingerprint = Registered
             /\ fingerprint # snapshot.fingerprint
    <3>1. Filled /\ Reverse(Registered) = Registered
      BY <1>2, <2>4 DEF Filled
    <3>2. snapshot.fingerprint # <<>>
      BY <3>1 DEF IInv, SnapshotOK
    <3>3. snapshot.fingerprint = Registered
      BY <1>3, <3>1, <3>2
    <3>. QED BY <2>4, <3>3
  <2>. QED BY <2>1, <2>2, <2>3, <2>4
<1>. QED BY <1>1, <1>5, <1>6 DEF Stack!Fresh, Stack!NoImage, Contents

LEMMA NextRefines ==
    IInv /\ [Next]_vars => [Stack!Next]_<<Contents, SavedImage, stopped>>
<1>. SUFFICES ASSUME IInv, [Next]_vars
              PROVE  Stack!Next \/ UNCHANGED <<Contents, SavedImage, stopped>>
  OBVIOUS
<1>1. CASE UNCHANGED vars
  <2>1. Contents' = Contents
    BY <1>1 DEF vars, Contents, AsSeq
  <2>. QED BY <1>1, <2>1, SameImage DEF vars
<1>2. CASE Next
  <2>0. ~stopped
    BY <1>2 DEF Next
  <2>1. ASSUME NEW a \in Ids, NEW g \in Grows, Push(a, g[1], g[2])
        PROVE  Stack!Next
    <3>1. g[1] \in Nat /\ g[2] \in Nat \ {0}
      BY SizesFacts
    <3>2. Stack!Push(a, g[1], g[2])
      BY <2>1, <3>1, PushRefines
    <3>. QED BY <2>0, <3>2 DEF Stack!Next
  <2>2. ASSUME NEW a \in Ids, NEW i \in Offsets(a), Write(a, i)
        PROVE  Stack!Next
    <3>1. \E j \in DOMAIN Contents[a] : Stack!Write(a, j)
      BY <2>2, WriteRefines
    <3>. QED BY <2>0, <3>1 DEF Stack!Next, Contents
  <2>3. ASSUME NEW a \in Ids, NEW i \in Offsets(a),
               ArenaResetTo(a, i) \/ ArenaDecommitAbove(a, i)
        PROVE  Stack!Next
    <3>1. \E m \in 0 .. Len(Contents[a]) : Stack!Cut(a, m)
      BY <2>3, ResetRefines, DecommitRefines, OffsetIsNat
    <3>. QED BY <2>0, <3>1 DEF Stack!Next, Contents
  <2>4. CASE RegistrySnapshot
    <3>1. Stack!Save(snapshotted) /\ snapshotted \in SUBSET Ids
      BY <2>4, SnapshotRefines, SizesFacts DEF IInv
    <3>. QED BY <2>0, <3>1 DEF Stack!Next
  <2>5. CASE RegistryRestore
    BY <2>0, <2>5, RestoreRefines DEF Stack!Next
  <2>6. CASE Rejoin
    BY <2>0, <2>6, RejoinRefines DEF Stack!Next
  <2>. QED BY <1>2, <2>1, <2>2, <2>3, <2>4, <2>5, <2>6 DEF Next
<1>. QED BY <1>1, <1>2

\* "Hashed bytes are a pure function of state, never of allocation history"
\* (foundation/vmem_arena.h): whatever was pushed, cut off, given back to the
\* system, snapshot and restored before, the arenas behave as stacks of bytes
\* that begin as zeros (vmem_arena.cpp, arena_registry.cpp).
THEOREM PureFunctionOfStateAlways == Spec => PureFunctionOfState
<1>1. Spec => []IInv
  BY InitIInv, NextIInv, PTL DEF Spec
<1>. QED BY <1>1, InitRefines, NextRefines, PTL
         DEF Spec, PureFunctionOfState, Stack!Spec, Contents

-----------------------------------------------------------------------------
\* The guard.

\* What the baseline is: where the arena stood as the tick began, and what the windows
\* that were closed have added to it.  In an open window, and so far as the guard has
\* stopped nothing, an arena that may grow there stands where the windows put it.
Baseline ==
    /\ \A a \in Arenas \ GrowsAtBarrier : used_at_start[a] = start[a] /\ sanctioned[a] = 0
    /\ \A a \in GrowsAtBarrier :
          IF in_barrier THEN extent[a] = start[a] + sanctioned[a]
          ELSE used_at_start[a] = start[a] + sanctioned[a]

GuardInv ==
    /\ extent \in [Arenas -> Int] /\ used_at_start \in [Arenas -> Int]
    /\ start \in [Arenas -> Int] /\ sanctioned \in [Arenas -> Int]
    /\ in_barrier \in BOOLEAN /\ in_tick \in BOOLEAN /\ guard_fatal \in BOOLEAN
    /\ Baseline

LEMMA GuardInit == GInit => GuardInv
<1>. SUFFICES ASSUME GInit
              PROVE  GuardInv
  OBVIOUS
<1>1. extent \in [Arenas -> Int]
  BY GuardAssumption DEF GInit, GuardExtents
<1>2. /\ used_at_start = extent /\ start = extent /\ sanctioned = [a \in Arenas |-> 0]
      /\ in_barrier = FALSE /\ in_tick = FALSE /\ guard_fatal = FALSE
  BY DEF GInit
<1>3. Baseline
  BY <1>1, <1>2, GuardAssumption DEF Baseline
<1>4. sanctioned \in [Arenas -> Int]
  BY <1>2
<1>5. in_barrier \in BOOLEAN /\ in_tick \in BOOLEAN /\ guard_fatal \in BOOLEAN
  BY <1>2
<1>. QED BY <1>1, <1>2, <1>3, <1>4, <1>5 DEF GuardInv

LEMMA MovesKeeps ==
    ASSUME GuardInv, NEW a \in Arenas, NEW n \in 0 .. MaxUsed, Moves(a, n)
    PROVE  GuardInv'
<1>. DEFINE more == in_barrier /\ a \in GrowsAtBarrier
<1>1. n \in Int
  BY GuardAssumption
<1>2. extent' = [extent EXCEPT ![a] = n] /\ extent' \in [Arenas -> Int]
  BY <1>1 DEF Moves, GuardInv
<1>3. /\ sanctioned' = IF more THEN [sanctioned EXCEPT ![a] = sanctioned[a] + n - extent[a]]
                               ELSE sanctioned
      /\ sanctioned' \in [Arenas -> Int]
  BY <1>1 DEF Moves, GuardInv
<1>4. UNCHANGED <<used_at_start, in_barrier, in_tick, guard_fatal, start>>
  BY DEF Moves
<1>5. \A b \in Arenas \ GrowsAtBarrier : sanctioned'[b] = sanctioned[b]
  BY <1>3 DEF GuardInv
<1>6. ASSUME NEW b \in GrowsAtBarrier
      PROVE  IF in_barrier THEN extent'[b] = start[b] + sanctioned'[b]
             ELSE used_at_start[b] = start[b] + sanctioned'[b]
  <2>1. b \in Arenas
    BY GuardAssumption
  <2>2. extent[a] \in Int /\ sanctioned[a] \in Int /\ start[a] \in Int
    BY DEF GuardInv
  <2>3. CASE in_barrier /\ b = a
    <3>1. extent'[a] = n /\ sanctioned'[a] = sanctioned[a] + n - extent[a]
      BY <1>2, <1>3, <1>6, <2>3 DEF GuardInv
    <3>2. extent[a] = start[a] + sanctioned[a]
      BY <1>6, <2>3 DEF GuardInv, Baseline
    <3>. QED BY <1>1, <2>2, <2>3, <3>1, <3>2
  <2>4. CASE ~(in_barrier /\ b = a)
    <3>1. sanctioned'[b] = sanctioned[b] /\ (in_barrier => extent'[b] = extent[b])
      BY <1>2, <1>3, <2>1, <2>4 DEF GuardInv
    <3>. QED BY <1>6, <3>1 DEF GuardInv, Baseline
  <2>. QED BY <2>3, <2>4
<1>. QED BY <1>2, <1>3, <1>4, <1>5, <1>6 DEF GuardInv, Baseline

LEMMA GuardNext == GuardInv /\ [GNext]_guard_vars => GuardInv'
<1>. SUFFICES ASSUME GuardInv, [GNext]_guard_vars
              PROVE  GuardInv'
  OBVIOUS
<1>1. CASE GuardTickBegin
  <2>1. /\ used_at_start' = extent /\ start' = extent /\ sanctioned' = [a \in Arenas |-> 0]
        /\ in_barrier' = FALSE /\ in_tick' = TRUE /\ UNCHANGED <<extent, guard_fatal>>
    BY <1>1 DEF GuardTickBegin
  <2>2. Baseline'
    BY <2>1, GuardAssumption DEF GuardInv, Baseline
  <2>3. sanctioned' \in [Arenas -> Int]
    BY <2>1
  <2>4. in_barrier' \in BOOLEAN /\ in_tick' \in BOOLEAN
    BY <2>1
  <2>. QED BY <2>1, <2>2, <2>3, <2>4 DEF GuardInv
<1>2. CASE GuardBarrierBegin
  <2>1. /\ UNCHANGED <<extent, used_at_start, in_tick, start, sanctioned>>
        /\ in_barrier' = ~guard_fatal' /\ guard_fatal' = (MovedBefore # {}) /\ ~in_barrier
    BY <1>2 DEF GuardBarrierBegin
  <2>2. in_barrier' => \A a \in GrowsAtBarrier : extent[a] = used_at_start[a]
    BY <2>1 DEF MovedBefore
  <2>3. in_barrier' \in BOOLEAN /\ guard_fatal' \in BOOLEAN
    BY <2>1
  <2>4. Baseline'
    BY <2>1, <2>2 DEF GuardInv, Baseline
  <2>. QED BY <2>1, <2>3, <2>4 DEF GuardInv
<1>3. CASE GuardBarrierEnd
  BY <1>3, GuardAssumption DEF GuardBarrierEnd, GuardInv, Baseline
<1>4. CASE GuardTickEnd
  BY <1>4 DEF GuardTickEnd, GuardInv, Baseline
<1>5. CASE UNCHANGED guard_vars
  BY <1>5 DEF guard_vars, GuardInv, Baseline
<1>. QED BY <1>1, <1>2, <1>3, <1>4, <1>5, MovesKeeps DEF GNext

LEMMA GuardStep ==
    ASSUME GuardInv, GNext
    PROVE  /\ guard_fatal' => Stray
           /\ in_tick /\ ~in_tick' /\ ~guard_fatal' => ~Stray
<1>0. ~guard_fatal
  BY DEF GNext
<1>1. CASE GuardTickBegin \/ GuardBarrierEnd \/ \E a \in Arenas, n \in 0 .. MaxUsed : Moves(a, n)
  BY <1>0, <1>1 DEF GuardTickBegin, GuardBarrierEnd, Moves
<1>2. CASE GuardBarrierBegin
  <2>1. guard_fatal' => \E a \in GrowsAtBarrier : extent[a] # used_at_start[a]
    BY <1>2 DEF GuardBarrierBegin, MovedBefore
  <2>2. ~in_barrier /\ in_tick' = in_tick
    BY <1>2 DEF GuardBarrierBegin
  <2>. QED BY <2>1, <2>2, GuardAssumption DEF GuardInv, Baseline, Stray
<1>3. CASE GuardTickEnd
  <2>1. guard_fatal' = (\E a \in Arenas : extent[a] # used_at_start[a]) /\ ~in_barrier
    BY <1>3 DEF GuardTickEnd
  <2>2. \A a \in Arenas : used_at_start[a] = start[a] + sanctioned[a]
    BY <2>1, GuardAssumption DEF GuardInv, Baseline
  <2>. QED BY <2>1, <2>2 DEF Stray
<1>. QED BY <1>1, <1>2, <1>3 DEF GNext

\* docs/MEMORY.md section 2: the guard (arena_guard.cpp) stops a tick just when some
\* arena moved outside of the windows, or in one without being allowed to, for any
\* arenas, windows and movements.
THEOREM GuardVerdictIsRight == GSpec => GuardVerdict
<1>1. GuardInv /\ [GNext]_guard_vars =>
        [/\ guard_fatal' => Stray
         /\ in_tick /\ ~in_tick' /\ ~guard_fatal' => ~Stray]_guard_vars
  BY GuardStep
<1>. QED BY <1>1, GuardInit, GuardNext, PTL DEF GSpec, GuardVerdict

-----------------------------------------------------------------------------
(* The platform's tables of handles (HandleTables): a slot's records say   *)
(* how many primitives it has held, and a handle which of them it is.      *)

USE TablesAssumption

\* What a slot's records say, in terms of how many primitives it has held.
GenOf(n) == ((n - 1) % GenMax) + 1
SlotTold(k, i) ==
    /\ lives[k][i] = 0 => gen[k][i] = 0 /\ ~alive[k][i]
    /\ alive[k][i] => gen[k][i] = GenOf(lives[k][i])
    /\ lives[k][i] > 0 /\ ~alive[k][i] => gen[k][i] = GenOf(lives[k][i] + 1)
    /\ os[k][i] = lives[k][i]
GivenTold(r) ==
    LET k == r.handle.table
        i == r.handle.slot
    IN r.life \in 1 .. lives[k][i] /\ r.handle.gen = GenOf(r.life)
HandlesIInv ==
    /\ HandleTypes /\ RefusesWhenFull
    /\ \A k \in Tables, i \in Indices : SlotTold(k, i)
    /\ \A r \in given : GivenTold(r)
    /\ OpenAreAlive

LEMMA GenOfNext ==
    ASSUME NEW n \in Nat \ {0}
    PROVE  GenOf(n) \in 1 .. GenMax /\ GenNext(GenOf(n)) = GenOf(n + 1)
<1>1. PICK q \in Int, m \in 0 .. GenMax - 1 : n - 1 = GenMax * q + m
  <2>1. n - 1 = (GenMax * ((n - 1) \div GenMax)) + ((n - 1) % GenMax)
    OBVIOUS
  <2>2. (n - 1) \div GenMax \in Int /\ (n - 1) % GenMax \in 0 .. GenMax - 1
    OBVIOUS
  <2>. QED BY <2>1, <2>2
<1>2. (n - 1) % GenMax = m
  BY <1>1
<1>3. CASE m = GenMax - 1
  <2>1. n = GenMax * (q + 1)
    BY <1>1, <1>3
  <2>2. n % GenMax = 0
    BY <2>1
  <2>. QED BY <1>2, <1>3, <2>2 DEF GenOf, GenNext
<1>4. CASE m < GenMax - 1
  <2>1. n = GenMax * q + (m + 1) /\ m + 1 \in 0 .. GenMax - 1
    BY <1>1, <1>4
  <2>2. n % GenMax = m + 1
    BY <2>1
  <2>. QED BY <1>2, <1>4, <2>2 DEF GenOf, GenNext
<1>. QED BY <1>3, <1>4

\* Equal generations are lives a whole number of rounds apart.
LEMMA SameGen ==
    ASSUME NEW n \in Nat \ {0}, NEW m \in Nat \ {0}, GenOf(n) = GenOf(m)
    PROVE  (n - m) % GenMax = 0
<1>1. PICK q \in Int, k \in 0 .. GenMax - 1 : n - 1 = GenMax * q + k /\ k = (n - 1) % GenMax
  <2>1. n - 1 = (GenMax * ((n - 1) \div GenMax)) + ((n - 1) % GenMax)
    OBVIOUS
  <2>2. (n - 1) \div GenMax \in Int /\ (n - 1) % GenMax \in 0 .. GenMax - 1
    OBVIOUS
  <2>. QED BY <2>1, <2>2
<1>2. PICK p \in Int, j \in 0 .. GenMax - 1 : m - 1 = GenMax * p + j /\ j = (m - 1) % GenMax
  <2>1. m - 1 = (GenMax * ((m - 1) \div GenMax)) + ((m - 1) % GenMax)
    OBVIOUS
  <2>2. (m - 1) \div GenMax \in Int /\ (m - 1) % GenMax \in 0 .. GenMax - 1
    OBVIOUS
  <2>. QED BY <2>1, <2>2
<1>3. k = j
  BY <1>1, <1>2 DEF GenOf
<1>4. n - m = GenMax * (q - p)
  BY <1>1, <1>2, <1>3
<1>. QED BY <1>4

LEMMA HInitHolds == HInit => HandlesIInv
<1>. SUFFICES ASSUME HInit PROVE HandlesIInv
  OBVIOUS
<1>1. HandleTypes
  <2>1. 0 \in 0 .. GenMax /\ 0 \in 0 .. ArenaRoom /\ 0 \in Nat
    OBVIOUS
  <2>2. /\ alive \in [Tables -> [Indices -> BOOLEAN]]
        /\ gen \in [Tables -> [Indices -> 0 .. GenMax]]
        /\ os \in [Tables -> [Indices -> Nat]] /\ lives \in [Tables -> [Indices -> Nat]]
    BY <2>1, Zenon DEF HInit
  <2>. QED BY <2>1, <2>2 DEF HInit, HandleTypes, Answers
<1>2. \A k \in Tables, i \in Indices : SlotTold(k, i)
  BY DEF HInit, SlotTold
<1>3. given = {} /\ OpenAreAlive
  BY DEF HInit, OpenAreAlive
<1>. QED BY <1>1, <1>2, <1>3 DEF HInit, HandlesIInv, RefusesWhenFull

\* The slot that a create takes is free.
LEMMA FirstIsFree ==
    ASSUME NEW k \in Tables, HandleTypes, Free(k) # {} PROVE First(k) \in Indices /\ ~alive[k][First(k)]
<1>. DEFINE S == Free(k)
<1>1. S \subseteq Nat /\ S # {}
  BY DEF Free, Indices
<1>2. PICK i \in S : \A j \in S : i <= j
  <2>. HIDE DEF S
  <2>. QED BY <1>1, Least
<1>3. First(k) \in Free(k)
  BY <1>2 DEF First
<1>. QED BY <1>3 DEF Free

LEMMA CreateKeeps ==
    ASSUME HandlesIInv, NEW k \in Tables, Create(k) PROVE HandlesIInv'
<1>1. PICK i \in Indices : i = First(k) /\ ~alive[k][i]
  BY FirstIsFree DEF HandlesIInv, Create
<1>2. PICK n \in Nat \ {0} : n = lives[k][i] + 1
  BY <1>1 DEF HandlesIInv, HandleTypes
<1>3. PICK g : g = IF gen[k][i] = 0 THEN 1 ELSE gen[k][i]
  OBVIOUS
<1>4. g = GenOf(n) /\ g \in 1 .. GenMax /\ g % (GenMax + 1) = g
  <2>1. SlotTold(k, i) /\ gen[k][i] \in 0 .. GenMax /\ lives[k][i] \in Nat
    BY <1>1 DEF HandlesIInv, HandleTypes
  <2>2. GenOf(1) = 1
    BY DEF GenOf
  <2>3. GenOf(n) \in 1 .. GenMax
    BY GenOfNext
  <2>4. CASE lives[k][i] = 0
    BY <1>2, <1>3, <2>1, <2>2, <2>4 DEF SlotTold
  <2>5. CASE lives[k][i] > 0
    <3>1. gen[k][i] = GenOf(n)
      BY <1>1, <1>2, <2>1, <2>5 DEF SlotTold
    <3>. QED BY <1>3, <2>3, <3>1
  <2>. QED BY <2>1, <2>4, <2>5
<1>5. /\ gen' = Put(gen, k, i, g) /\ alive' = Put(alive, k, i, TRUE)
      /\ os' = Put(os, k, i, n) /\ lives' = Put(lives, k, i, n)
      /\ open' = open \cup {<<k, i, n>>}
      /\ given' = given \cup {[handle |-> [table |-> k, slot |-> i, gen |-> g], life |-> n]}
      /\ result' = "ok" /\ pushed' = pushed + 1 /\ pushed < ArenaRoom
      /\ UNCHANGED <<returned, fatal>>
  BY <1>1, <1>2, <1>3, <1>4 DEF Create, Made, Handle
<1>6. \A l \in Tables, j \in Indices : <<l, j>> # <<k, i>> =>
         /\ gen'[l][j] = gen[l][j] /\ alive'[l][j] = alive[l][j]
         /\ os'[l][j] = os[l][j] /\ lives'[l][j] = lives[l][j]
  BY <1>5 DEF Put, HandlesIInv, HandleTypes
<1>7. gen'[k][i] = g /\ alive'[k][i] = TRUE /\ os'[k][i] = n /\ lives'[k][i] = n
  BY <1>1, <1>5 DEF Put, HandlesIInv, HandleTypes
<1>8. HandleTypes'
  BY <1>1, <1>2, <1>4, <1>5 DEF HandlesIInv, HandleTypes, Put, Answers
<1>9. \A l \in Tables, j \in Indices : SlotTold(l, j)'
  <2>. SUFFICES ASSUME NEW l \in Tables, NEW j \in Indices PROVE SlotTold(l, j)'
    OBVIOUS
  <2>1. CASE <<l, j>> = <<k, i>>
    BY <1>4, <1>7, <2>1 DEF SlotTold
  <2>2. CASE <<l, j>> # <<k, i>>
    BY <1>6, <2>2 DEF SlotTold, HandlesIInv
  <2>. QED BY <2>1, <2>2
<1>10. \A r \in given' : GivenTold(r)'
  <2>. SUFFICES ASSUME NEW r \in given' PROVE GivenTold(r)'
    OBVIOUS
  <2>1. CASE r \in given
    <3>1. GivenTold(r) /\ r.handle.table \in Tables /\ r.handle.slot \in Indices
      BY <2>1 DEF HandlesIInv, HandleTypes
    <3>2. lives[k][i] \in Nat
      BY DEF HandlesIInv, HandleTypes
    <3>. QED BY <1>2, <1>6, <1>7, <3>1, <3>2 DEF GivenTold
  <2>2. CASE r = [handle |-> [table |-> k, slot |-> i, gen |-> g], life |-> n]
    BY <1>4, <1>7, <2>2 DEF GivenTold
  <2>. QED BY <1>5, <2>1, <2>2
<1>11. OpenAreAlive'
  <2>1. ASSUME NEW l \in Tables, NEW j \in Indices, alive'[l][j] PROVE <<l, j, os'[l][j]>> \in open'
    <3>1. CASE <<l, j>> = <<k, i>>
      BY <1>5, <1>7, <3>1
    <3>2. CASE <<l, j>> # <<k, i>>
      <4>1. alive[l][j] /\ os'[l][j] = os[l][j]
        BY <1>6, <2>1, <3>2
      <4>. QED BY <1>5, <4>1 DEF HandlesIInv, OpenAreAlive
    <3>. QED BY <3>1, <3>2
  <2>2. ASSUME NEW p \in open' PROVE alive'[p[1]][p[2]] /\ p[3] = os'[p[1]][p[2]]
    <3>1. CASE p \in open
      <4>1. p[1] \in Tables /\ p[2] \in Indices /\ alive[p[1]][p[2]] /\ p[3] = os[p[1]][p[2]]
        BY <3>1 DEF HandlesIInv, HandleTypes, OpenAreAlive
      <4>2. <<p[1], p[2]>> # <<k, i>>
        BY <1>1, <4>1
      <4>. QED BY <1>6, <4>1, <4>2
    <3>2. CASE p = <<k, i, n>>
      BY <1>7, <3>2
    <3>. QED BY <1>5, <3>1, <3>2
  <2>. QED BY <1>5, <2>1, <2>2 DEF HandlesIInv, OpenAreAlive
<1>. QED BY <1>5, <1>8, <1>9, <1>10, <1>11 DEF HandlesIInv, RefusesWhenFull

\* What the steps that leave every record alone keep.
LEMMA RestKeeps ==
    ASSUME HandlesIInv, UNCHANGED <<alive, gen, os, lives, open, given>>, HandleTypes', RefusesWhenFull',
           returned' \subseteq open
    PROVE  HandlesIInv'
<1>1. \A k \in Tables, i \in Indices : SlotTold(k, i)'
  BY DEF HandlesIInv, SlotTold
<1>2. \A r \in given' : GivenTold(r)'
  BY DEF HandlesIInv, GivenTold
<1>3. OpenAreAlive'
  BY DEF HandlesIInv, OpenAreAlive
<1>. QED BY <1>1, <1>2, <1>3 DEF HandlesIInv

LEMMA CreatingKeeps ==
    ASSUME HandlesIInv, NEW k \in Tables, Creating(k) PROVE HandlesIInv'
<1>1. CASE Limit(k)
  <2>1. HandleTypes' /\ returned' \subseteq open
    BY <1>1 DEF Limit, table_vars, HandlesIInv, HandleTypes, Answers, OpenAreAlive
  <2>2. \A i \in Indices : \E p \in open : p[1] = k /\ p[2] = i
    <3>. SUFFICES ASSUME NEW i \in Indices PROVE \E p \in open : p[1] = k /\ p[2] = i
      OBVIOUS
    <3>1. alive[k][i]
      BY <1>1 DEF Limit, Free
    <3>2. <<k, i, os[k][i]>> \in open
      BY <3>1 DEF HandlesIInv, OpenAreAlive
    <3>. QED BY <3>2
  <2>3. RefusesWhenFull'
    BY <1>1, <2>2 DEF RefusesWhenFull, Limit, table_vars
  <2>. QED BY <1>1, <2>1, <2>3, RestKeeps DEF Limit, table_vars
<1>2. CASE Create(k)
  BY <1>2, CreateKeeps
<1>3. CASE SystemRefuses(k)
  <2>1. HandleTypes' /\ returned' \subseteq open
    BY <1>3 DEF SystemRefuses, HandlesIInv, HandleTypes, Answers, OpenAreAlive
  <2>. QED BY <1>3, <2>1, RestKeeps DEF SystemRefuses, RefusesWhenFull
<1>4. CASE ArenaFull(k)
  <2>1. HandleTypes' /\ returned' \subseteq open
    BY <1>4 DEF ArenaFull, table_vars, HandlesIInv, HandleTypes, Answers, OpenAreAlive
  <2>. QED BY <1>4, <2>1, RestKeeps DEF ArenaFull, table_vars, RefusesWhenFull
<1>. QED BY <1>1, <1>2, <1>3, <1>4 DEF Creating

LEMMA ReturnsKeeps ==
    ASSUME HandlesIInv, NEW p \in open, Returns(p) PROVE HandlesIInv'
<1>1. HandleTypes' /\ returned' \subseteq open /\ RefusesWhenFull'
  BY DEF Returns, HandlesIInv, HandleTypes, OpenAreAlive, RefusesWhenFull
<1>. QED BY <1>1, RestKeeps DEF Returns

\* A handle a caller holds names a table and a slot of it.
LEMMA HeldNames ==
    ASSUME HandlesIInv, NEW k \in Tables, NEW h \in Held(k)
    PROVE  h.table = k /\ h.slot \in Indices
<1>1. CASE h = Null(k)
  BY <1>1, TablesAssumption DEF Null, Handle, Indices
<1>2. CASE h \in {r.handle : r \in {g \in given : g.handle.table = k}}
  <2>1. PICK r \in given : r.handle.table = k /\ h = r.handle
    BY <1>2
  <2>. QED BY <2>1 DEF HandlesIInv, HandleTypes
<1>. QED BY <1>1, <1>2 DEF Held

LEMMA ToleratedKeeps ==
    ASSUME HandlesIInv, NEW h, Tolerated(h) PROVE HandlesIInv'
<1>1. HandleTypes' /\ returned' \subseteq open /\ RefusesWhenFull'
  BY DEF Tolerated, table_vars, HandlesIInv, HandleTypes, OpenAreAlive, RefusesWhenFull, Answers
<1>. QED BY <1>1, RestKeeps DEF Tolerated, table_vars

LEMMA UsedKeeps ==
    ASSUME HandlesIInv, NEW h, Used(h), UNCHANGED table_vars PROVE HandlesIInv'
<1>1. HandleTypes' /\ returned' \subseteq open /\ RefusesWhenFull'
  BY DEF Used, table_vars, HandlesIInv, HandleTypes, OpenAreAlive, RefusesWhenFull, Answers
<1>. QED BY <1>1, RestKeeps DEF table_vars

LEMMA DestroyedKeeps ==
    ASSUME HandlesIInv, NEW h, h.table \in Tables, h.slot \in Indices, Reaches(h), Destroyed(h)
    PROVE  HandlesIInv'
<1>1. PICK k \in Tables, i \in Indices : k = h.table /\ i = h.slot /\ alive[k][i]
  BY DEF Reaches
<1>2. PICK n \in Nat : n = lives[k][i]
  BY <1>1 DEF HandlesIInv, HandleTypes
<1>3. /\ n > 0 /\ os[k][i] = n /\ gen[k][i] = GenOf(n)
      /\ GenNext(gen[k][i]) = GenOf(n + 1) /\ GenOf(n + 1) \in 1 .. GenMax
  <2>1. SlotTold(k, i)
    BY DEF HandlesIInv
  <2>2. n > 0 /\ os[k][i] = n /\ gen[k][i] = GenOf(n)
    BY <1>1, <1>2, <2>1 DEF SlotTold
  <2>3. n \in Nat \ {0} /\ n + 1 \in Nat \ {0}
    BY <2>2
  <2>4. GenNext(GenOf(n)) = GenOf(n + 1) /\ GenOf(n + 1) \in 1 .. GenMax
    BY <2>3, GenOfNext
  <2>. QED BY <2>2, <2>4
<1>4. PICK g : g = GenOf(n + 1)
  OBVIOUS
<1>5. /\ open' = open \ {<<k, i, n>>} /\ returned' = returned \ {<<k, i, n>>}
      /\ alive' = Put(alive, k, i, FALSE) /\ gen' = Put(gen, k, i, g)
      /\ result' = "ok" /\ UNCHANGED <<os, lives, given, pushed, fatal>>
  BY <1>1, <1>2, <1>3, <1>4 DEF Destroyed
<1>6. \A l \in Tables, j \in Indices : <<l, j>> # <<k, i>> =>
         gen'[l][j] = gen[l][j] /\ alive'[l][j] = alive[l][j]
  BY <1>5 DEF Put, HandlesIInv, HandleTypes
<1>7. gen'[k][i] = g /\ alive'[k][i] = FALSE
  BY <1>1, <1>5 DEF Put, HandlesIInv, HandleTypes
<1>8. HandleTypes'
  BY <1>1, <1>3, <1>4, <1>5 DEF HandlesIInv, HandleTypes, Put, Answers
<1>9. \A l \in Tables, j \in Indices : SlotTold(l, j)'
  <2>. SUFFICES ASSUME NEW l \in Tables, NEW j \in Indices PROVE SlotTold(l, j)'
    OBVIOUS
  <2>1. CASE <<l, j>> = <<k, i>>
    <3>1. /\ lives'[l][j] = n /\ os'[l][j] = n /\ gen'[l][j] = GenOf(n + 1) /\ alive'[l][j] = FALSE
      BY <1>2, <1>3, <1>4, <1>5, <1>7, <2>1
    <3>. QED BY <1>3, <3>1 DEF SlotTold
  <2>2. CASE <<l, j>> # <<k, i>>
    <3>1. /\ lives'[l][j] = lives[l][j] /\ os'[l][j] = os[l][j]
          /\ gen'[l][j] = gen[l][j] /\ alive'[l][j] = alive[l][j]
      BY <1>5, <1>6, <2>2
    <3>2. SlotTold(l, j)
      BY DEF HandlesIInv
    <3>. QED BY <3>1, <3>2 DEF SlotTold
  <2>. QED BY <2>1, <2>2
<1>10. \A r \in given' : GivenTold(r)'
  BY <1>5 DEF HandlesIInv, GivenTold
<1>11. OpenAreAlive'
  <2>1. ASSUME NEW l \in Tables, NEW j \in Indices, alive'[l][j] PROVE <<l, j, os'[l][j]>> \in open'
    <3>1. <<l, j>> # <<k, i>>
      BY <1>7, <2>1
    <3>2. alive[l][j] /\ os'[l][j] = os[l][j]
      BY <1>5, <1>6, <2>1, <3>1
    <3>3. <<l, j, os[l][j]>> \in open
      BY <3>2 DEF HandlesIInv, OpenAreAlive
    <3>. QED BY <1>5, <3>1, <3>2, <3>3
  <2>2. ASSUME NEW p \in open' PROVE alive'[p[1]][p[2]] /\ p[3] = os'[p[1]][p[2]]
    <3>1. p \in open /\ p # <<k, i, n>> /\ p \in Tables \X Indices \X Nat
      BY <1>5, <2>2 DEF HandlesIInv, HandleTypes
    <3>2. p[1] \in Tables /\ p[2] \in Indices /\ alive[p[1]][p[2]] /\ p[3] = os[p[1]][p[2]]
      BY <3>1 DEF HandlesIInv, OpenAreAlive
    <3>3. p = <<p[1], p[2], p[3]>>
      BY <3>1
    <3>4. <<p[1], p[2]>> # <<k, i>>
      BY <1>3, <3>1, <3>2, <3>3
    <3>. QED BY <1>5, <1>6, <3>2, <3>4
  <2>3. returned' \subseteq open'
    BY <1>5 DEF HandlesIInv, OpenAreAlive
  <2>. QED BY <2>1, <2>2, <2>3 DEF OpenAreAlive
<1>. QED BY <1>5, <1>8, <1>9, <1>10, <1>11 DEF HandlesIInv, RefusesWhenFull

LEMMA HNextKeeps ==
    ASSUME HandlesIInv, HNext PROVE HandlesIInv'
<1>1. ASSUME NEW k \in Tables, Creating(k) PROVE HandlesIInv'
  BY <1>1, CreatingKeeps
<1>2. ASSUME NEW p \in open, Returns(p) PROVE HandlesIInv'
  BY <1>2, ReturnsKeeps
<1>3. ASSUME NEW k \in Tables, NEW h \in Held(k), Tolerated(h) PROVE HandlesIInv'
  BY <1>3, ToleratedKeeps
<1>4. ASSUME NEW k \in Tables, NEW h \in Held(k), Reaches(h), Destroyed(h) PROVE HandlesIInv'
  <2>1. h.table \in Tables /\ h.slot \in Indices
    BY HeldNames
  <2>. QED BY <1>4, <2>1, DestroyedKeeps
<1>5. ASSUME NEW k \in Tables, NEW h \in Held(k), Used(h), UNCHANGED table_vars PROVE HandlesIInv'
  BY <1>5, UsedKeeps
<1>6. "thread" \in Tables /\ "sem" \in Tables /\ "mutex" \in Tables
  BY DEF Tables
<1>. QED BY <1>1, <1>2, <1>3, <1>4, <1>5, <1>6
     DEF HNext, ThreadCreate, SemCreate, MutexCreate, Join, SemVerb, SemDestroy, MutexVerb, MutexDestroy

LEMMA HandlesInvHolds == HandlesIInv => HandlesInv
<1>. SUFFICES ASSUME HandlesIInv PROVE HandlesInv
  OBVIOUS
<1>1. HandlesTell
  <2>. SUFFICES ASSUME NEW r \in given,
                       NEW k, k = r.handle.table, NEW i, i = r.handle.slot
                PROVE  /\ <<k, i, r.life>> \in open => Reaches(r.handle)
                       /\ Reaches(r.handle) => r.life <= os[k][i] /\ (os[k][i] - r.life) % GenMax = 0
    BY DEF HandlesTell
  <2>1. /\ k \in Tables /\ i \in Indices /\ r.handle.gen \in 1 .. GenMax /\ r.life \in Nat
        /\ lives[k][i] \in Nat
    BY DEF HandlesIInv, HandleTypes
  <2>2. GivenTold(r) /\ SlotTold(k, i)
    BY <2>1 DEF HandlesIInv
  <2>3. r.life \in 1 .. lives[k][i] /\ r.handle.gen = GenOf(r.life) /\ os[k][i] = lives[k][i]
    BY <2>2 DEF GivenTold, SlotTold
  <2>4. r.handle # Null(r.handle.table)
    <3>1. Null(r.handle.table).gen = 0
      BY DEF Null, Handle
    <3>. QED BY <2>1, <3>1
  <2>5. ASSUME <<k, i, r.life>> \in open PROVE Reaches(r.handle)
    <3>1. alive[k][i] /\ r.life = os[k][i]
      BY <2>5 DEF HandlesIInv, OpenAreAlive
    <3>2. gen[k][i] = GenOf(lives[k][i])
      BY <2>2, <3>1 DEF SlotTold
    <3>. QED BY <2>3, <2>4, <3>1, <3>2 DEF Reaches
  <2>6. ASSUME Reaches(r.handle) PROVE r.life <= os[k][i] /\ (os[k][i] - r.life) % GenMax = 0
    <3>1. alive[k][i] /\ r.handle.gen = gen[k][i]
      BY <2>6 DEF Reaches
    <3>2. gen[k][i] = GenOf(lives[k][i])
      BY <2>2, <3>1 DEF SlotTold
    <3>3. GenOf(lives[k][i]) = GenOf(r.life)
      BY <2>3, <3>1, <3>2
    <3>4. lives[k][i] \in Nat \ {0} /\ r.life \in Nat \ {0}
      BY <2>1, <2>3
    <3>5. (lives[k][i] - r.life) % GenMax = 0
      BY <3>3, <3>4, SameGen
    <3>. QED BY <2>1, <2>3, <3>5
  <2>. QED BY <2>5, <2>6
<1>. QED BY <1>1 DEF HandlesIInv, HandlesInv

\* Of the tables of any number of slots, generations and creates: a primitive that exists is found
\* by the handle it was given under and by no handle of another life but one of the same
\* generation, it exists exactly as long as its slot is in use, and a create is refused only
\* where every slot holds a primitive.
THEOREM HandlesTellTheirPrimitive == HSpec => []HandlesInv
<1>1. HInit => HandlesIInv
  BY HInitHolds
<1>2. HandlesIInv /\ [HNext]_hvars => HandlesIInv'
  <2>1. CASE HNext
    BY <2>1, HNextKeeps
  <2>2. CASE UNCHANGED hvars
    BY <2>2 DEF hvars, table_vars, HandlesIInv, HandleTypes, RefusesWhenFull, SlotTold, GivenTold,
       OpenAreAlive
  <2>. QED BY <2>1, <2>2
<1>3. HandlesIInv => HandlesInv
  BY HandlesInvHolds
<1>. QED BY <1>1, <1>2, <1>3, PTL DEF HSpec

-----------------------------------------------------------------------------
(* The containers.                                                         *)

LEMMA LeastOf == ASSUME NEW S, S \subseteq Nat, S # {} PROVE Min(S) \in S /\ \A m \in S : Min(S) <= m
<1>1. PICK x \in S : \A y \in S : x <= y
  BY Least
<1>. QED BY <1>1 DEF Min

\* A sequence with one more element in it.
Inserts(s, at, e, r) ==
    /\ Len(r) = Len(s) + 1 /\ DOMAIN r = 1 .. Len(s) + 1
    /\ \A i \in 1 .. at - 1 : r[i] = s[i]
    /\ r[at] = e
    /\ \A i \in at + 1 .. Len(s) + 1 : r[i] = s[i - 1]

LEMMA InsertAtIs ==
    ASSUME NEW S, NEW s \in Seq(S), NEW e \in S, NEW at \in 1 .. Len(s) + 1
    PROVE  InsertAt(s, at, e) \in Seq(S) /\ Inserts(s, at, e, InsertAt(s, at, e))
<1>. DEFINE a == SubSeq(s, 1, at - 1)
            b == SubSeq(s, at, Len(s))
            r == a \o <<e>> \o b
<1>1. Len(s) \in Nat /\ at \in Nat /\ DOMAIN s = 1 .. Len(s)
  OBVIOUS
<1>2. a \in Seq(S) /\ Len(a) = at - 1 /\ \A i \in 1 .. at - 1 : a[i] = s[i]
  BY <1>1
<1>3. b \in Seq(S) /\ Len(b) = Len(s) + 1 - at /\ \A i \in 1 .. Len(s) + 1 - at : b[i] = s[at + i - 1]
  BY <1>1
<1>. HIDE DEF a, b
<1>4. r \in Seq(S) /\ Len(r) = Len(s) + 1
  <2>1. PICK c : c = a \o <<e>>
    OBVIOUS
  <2>2. c \in Seq(S) /\ Len(c) = at
    BY <1>1, <1>2, <2>1
  <2>3. c \o b \in Seq(S) /\ Len(c \o b) = Len(c) + Len(b)
    BY <1>3, <2>2, ConcatProperties
  <2>4. r = c \o b
    BY <2>1
  <2>5. Len(c) + Len(b) = Len(s) + 1
    BY <1>1, <1>3, <2>2
  <2>. HIDE DEF r
  <2>. QED BY <2>3, <2>4, <2>5
<1>5. \A i \in 1 .. at - 1 : r[i] = s[i]
  BY <1>1, <1>2, <1>3
<1>6. r[at] = e
  BY <1>1, <1>2, <1>3
<1>7. \A i \in at + 1 .. Len(s) + 1 : r[i] = s[i - 1]
  <2>. SUFFICES ASSUME NEW i \in at + 1 .. Len(s) + 1 PROVE r[i] = s[i - 1]
    OBVIOUS
  <2>1. r[i] = b[i - at]
    BY <1>1, <1>2, <1>3
  <2>2. i - at \in 1 .. Len(s) + 1 - at
    BY <1>1
  <2>3. b[i - at] = s[at + (i - at) - 1] /\ at + (i - at) - 1 = i - 1
    BY <1>1, <1>3, <2>2
  <2>. QED BY <2>1, <2>3
<1>8. DOMAIN r = 1 .. Len(s) + 1
  BY <1>4
<1>9. InsertAt(s, at, e) = r
  BY DEF InsertAt, a, b
<1>. HIDE DEF r
<1>. QED BY <1>4, <1>5, <1>6, <1>7, <1>8, <1>9 DEF Inserts

\* f's values, each made by G of the one before.
Iterates(G, a, n, f) ==
    /\ DOMAIN f = 0 .. n
    /\ f[0] = a
    /\ \A i \in 1 .. n : f[i] = G[<<f[i - 1], i>>]

LEMMA IterationExists ==
    ASSUME NEW S, NEW a \in S, NEW n \in Nat, NEW G \in [S \X (1 .. n) -> S]
    PROVE  \E f \in [0 .. n -> S] : Iterates(G, a, n, f)
<1>. DEFINE Good(m) == \E f \in [0 .. m -> S] : Iterates(G, a, m, f)
            T == {m \in 0 .. n : ~Good(m)}
<1>1. ASSUME T # {} PROVE FALSE
  <2>1. PICK m \in T : \A k \in T : m <= k
    <3>1. T \subseteq Nat
      OBVIOUS
    <3>. HIDE DEF T
    <3>. QED BY <1>1, <3>1, Least
  <2>2. m \in 0 .. n /\ ~Good(m)
    OBVIOUS
  <2>3. m # 0
    <3>. SUFFICES ASSUME m = 0 PROVE FALSE
      OBVIOUS
    <3>. DEFINE f == [i \in 0 .. 0 |-> a]
    <3>1. f \in [0 .. 0 -> S] /\ Iterates(G, a, 0, f)
      BY DEF Iterates
    <3>. QED BY <2>2, <3>1
  <2>4. m - 1 \in 0 .. n /\ m - 1 \notin T
    BY <2>1, <2>2, <2>3
  <2>5. Good(m - 1)
    BY <2>4
  <2>6. PICK g \in [0 .. m - 1 -> S] : Iterates(G, a, m - 1, g)
    BY <2>5
  <2>7. PICK x \in S : x = G[<<g[m - 1], m>>]
    <3>1. g[m - 1] \in S /\ m \in 1 .. n
      BY <2>2, <2>3, <2>4
    <3>. QED BY <3>1
  <2>. DEFINE f == [i \in 0 .. m |-> IF i = m THEN x ELSE g[i]]
  <2>8. /\ f \in [0 .. m -> S] /\ f[m] = x /\ f[0] = g[0]
        /\ \A i \in 0 .. m - 1 : f[i] = g[i]
    BY <2>2, <2>3
  <2>. HIDE DEF f
  <2>9. \A i \in 1 .. m : f[i] = G[<<f[i - 1], i>>]
    <3>. SUFFICES ASSUME NEW i \in 1 .. m PROVE f[i] = G[<<f[i - 1], i>>]
      OBVIOUS
    <3>1. CASE i = m
      <4>1. m - 1 \in 0 .. m - 1
        BY <2>2, <2>3
      <4>. QED BY <2>7, <2>8, <3>1, <4>1
    <3>2. CASE i # m
      <4>1. i \in 1 .. m - 1 /\ i \in 0 .. m - 1 /\ i - 1 \in 0 .. m - 1
        BY <2>2, <3>2
      <4>. QED BY <2>6, <2>8, <4>1 DEF Iterates
    <3>. QED BY <3>1, <3>2
  <2>10. Iterates(G, a, m, f)
    BY <2>6, <2>8, <2>9 DEF Iterates
  <2>. QED BY <2>2, <2>8, <2>10
<1>2. n \in 0 .. n
  OBVIOUS
<1>3. Good(n)
  BY <1>1, <1>2
<1>. QED BY <1>3

-----------------------------------------------------------------------------
(* Powers and filters.                                                     *)

PowerStep(b, f, e) == IF e = 0 THEN 1 ELSE b * f[e - 1]
ArePowers(b, n, f) == f = [e \in 0 .. n |-> PowerStep(b, f, e)]

LEMMA PowersFacts ==
    ASSUME NEW b \in Nat, NEW n \in Nat
    PROVE  /\ Powers(b, n) \in [0 .. n -> Nat] /\ Powers(b, n)[0] = 1
           /\ \A e \in 1 .. n : Powers(b, n)[e] = b * Powers(b, n)[e - 1]
<1>1. PICK one \in Nat : one = 1
  OBVIOUS
<1>. DEFINE G == [p \in Nat \X (1 .. n) |-> b * p[1]]
<1>2. G \in [Nat \X (1 .. n) -> Nat]
  OBVIOUS
<1>3. \A x \in Nat : \A i \in 1 .. n : G[<<x, i>>] = b * x
  OBVIOUS
<1>. HIDE DEF G
<1>4. PICK g \in [0 .. n -> Nat] : Iterates(G, one, n, g)
  BY <1>2, IterationExists
<1>5. ArePowers(b, n, g)
  <2>1. ASSUME NEW e \in 0 .. n PROVE g[e] = PowerStep(b, g, e)
    <3>1. CASE e = 0
      BY <1>1, <1>4, <3>1 DEF Iterates, PowerStep
    <3>2. CASE e # 0
      <4>1. e \in 1 .. n /\ e - 1 \in 0 .. n
        BY <3>2
      <4>. QED BY <1>3, <1>4, <3>2, <4>1 DEF Iterates, PowerStep
    <3>. QED BY <3>1, <3>2
  <2>2. g = [e \in 0 .. n |-> g[e]]
    OBVIOUS
  <2>. QED BY <2>1, <2>2 DEF ArePowers
<1>6. PICK f : f = CHOOSE h : ArePowers(b, n, h)
  OBVIOUS
<1>7. Powers(b, n) = f
  BY <1>6 DEF Powers, ArePowers, PowerStep
<1>8. ArePowers(b, n, f)
  BY <1>5, <1>6
<1>9. \A e \in 0 .. n : f[e] = PowerStep(b, f, e)
  BY <1>8 DEF ArePowers
<1>10. \A e \in 0 .. n : f[e] = g[e]
  <2>. DEFINE T == {e \in 0 .. n : f[e] # g[e]}
  <2>1. ASSUME T # {} PROVE FALSE
    <3>1. PICK e \in T : \A k \in T : e <= k
      <4>1. T \subseteq Nat
        OBVIOUS
      <4>. HIDE DEF T
      <4>. QED BY <2>1, <4>1, Least
    <3>2. e \in 0 .. n /\ f[e] # g[e]
      OBVIOUS
    <3>3. \A k \in 0 .. n : g[k] = PowerStep(b, g, k)
      BY <1>5 DEF ArePowers
    <3>4. e # 0
      BY <1>9, <3>2, <3>3 DEF PowerStep
    <3>5. e - 1 \in 0 .. n /\ e - 1 \notin T
      BY <3>1, <3>2, <3>4
    <3>6. f[e - 1] = g[e - 1]
      BY <3>5
    <3>. QED BY <1>9, <3>2, <3>3, <3>4, <3>6 DEF PowerStep
  <2>. QED BY <2>1
<1>11. DOMAIN f = 0 .. n
  BY <1>8 DEF ArePowers
<1>12. f = g
  <2>1. f = [e \in 0 .. n |-> f[e]]
    BY <1>8 DEF ArePowers
  <2>. QED BY <1>10, <2>1
<1>13. \A e \in 1 .. n : f[e] = b * f[e - 1]
  <2>. SUFFICES ASSUME NEW e \in 1 .. n PROVE f[e] = b * f[e - 1]
    OBVIOUS
  <2>1. e \in 0 .. n /\ e # 0
    OBVIOUS
  <2>. QED BY <1>9, <2>1 DEF PowerStep
<1>14. f[0] = 1
  <2>1. 0 \in 0 .. n
    OBVIOUS
  <2>. QED BY <1>9, <2>1 DEF PowerStep
<1>. QED BY <1>7, <1>12, <1>13, <1>14

KeptStep(s, K, f, n) ==
    IF n = 0 THEN <<>> ELSE IF s[n] \in K THEN Append(f[n - 1], s[n]) ELSE f[n - 1]
AreKept(s, K, f) == f = [n \in 0 .. Len(s) |-> KeptStep(s, K, f, n)]

\* e tells of each place of o the place of s it comes from, among the first n.
Picks(s, K, n, o, e) ==
    /\ e \in [1 .. Len(o) -> 1 .. n]
    /\ \A i \in 1 .. Len(o) : o[i] = s[e[i]] /\ s[e[i]] \in K
    /\ \A i, j \in 1 .. Len(o) : i < j => e[i] < e[j]
    /\ \A p \in 1 .. n : s[p] \in K => \E i \in 1 .. Len(o) : e[i] = p

LEMMA OnePicked ==
    ASSUME NEW S, NEW s \in Seq(S), NEW K, NEW n \in 1 .. Len(s), NEW o \in Seq(S), NEW e,
           Picks(s, K, n - 1, o, e), NEW r, r = IF s[n] \in K THEN Append(o, s[n]) ELSE o
    PROVE  r \in Seq(S) /\ \E g : Picks(s, K, n, r, g)
<1>0. Len(o) \in Nat /\ n \in Nat \ {0} /\ s[n] \in S
  OBVIOUS
<1>1. CASE s[n] \notin K
  <2>1. r = o
    BY <1>1
  <2>2. \A p \in 1 .. n : s[p] \in K => p \in 1 .. n - 1
    BY <1>0, <1>1
  <2>3. Picks(s, K, n, o, e)
    BY <1>0, <2>2 DEF Picks
  <2>. QED BY <2>1, <2>3
<1>2. CASE s[n] \in K
  <2>. DEFINE g == [i \in 1 .. Len(o) + 1 |-> IF i = Len(o) + 1 THEN n ELSE e[i]]
  <2>1. r = Append(o, s[n])
    BY <1>2
  <2>2. r \in Seq(S) /\ Len(r) = Len(o) + 1 /\ r[Len(o) + 1] = s[n] /\ \A i \in 1 .. Len(o) : r[i] = o[i]
    BY <1>0, <2>1
  <2>3. /\ g[Len(o) + 1] = n
        /\ \A i \in 1 .. Len(o) : g[i] = e[i] /\ g[i] \in 1 .. n - 1
        /\ DOMAIN g = 1 .. Len(r)
    BY <1>0, <2>2 DEF Picks
  <2>0. g = [i \in 1 .. Len(r) |-> g[i]]
    BY <1>0, <2>2
  <2>. HIDE DEF g
  <2>6. \A i \in 1 .. Len(r) : i = Len(o) + 1 \/ i \in 1 .. Len(o)
    BY <1>0, <2>2
  <2>4. \A i \in 1 .. Len(r) : g[i] \in 1 .. n
    <3>1. n \in 1 .. n /\ 1 .. n - 1 \subseteq 1 .. n
      BY <1>0
    <3>. QED BY <2>3, <2>6, <3>1
  <2>5. g \in [1 .. Len(r) -> 1 .. n]
    BY <2>0, <2>4
  <2>7. \A i \in 1 .. Len(r) : r[i] = s[g[i]] /\ s[g[i]] \in K
    BY <1>2, <2>2, <2>3, <2>6 DEF Picks
  <2>8. \A i, j \in 1 .. Len(r) : i < j => g[i] < g[j]
    <3>. SUFFICES ASSUME NEW i \in 1 .. Len(r), NEW j \in 1 .. Len(r), i < j PROVE g[i] < g[j]
      OBVIOUS
    <3>1. i \in 1 .. Len(o)
      BY <1>0, <2>2
    <3>2. CASE j = Len(o) + 1
      BY <1>0, <2>3, <3>1, <3>2
    <3>3. CASE j \in 1 .. Len(o)
      BY <2>3, <3>1, <3>3 DEF Picks
    <3>. QED BY <2>6, <3>2, <3>3
  <2>9. \A p \in 1 .. n : s[p] \in K => \E i \in 1 .. Len(r) : g[i] = p
    <3>. SUFFICES ASSUME NEW p \in 1 .. n, s[p] \in K PROVE \E i \in 1 .. Len(r) : g[i] = p
      OBVIOUS
    <3>1. CASE p = n
      <4>1. Len(o) + 1 \in 1 .. Len(r)
        BY <1>0, <2>2
      <4>. QED BY <2>3, <3>1, <4>1
    <3>2. CASE p # n
      <4>1. p \in 1 .. n - 1
        BY <1>0, <3>2
      <4>2. PICK i \in 1 .. Len(o) : e[i] = p
        BY <4>1 DEF Picks
      <4>3. i \in 1 .. Len(r)
        BY <1>0, <2>2
      <4>. QED BY <2>3, <4>2, <4>3
    <3>. QED BY <3>1, <3>2
  <2>10. Picks(s, K, n, r, g)
    BY <2>5, <2>7, <2>8, <2>9 DEF Picks
  <2>. QED BY <2>2, <2>10
<1>. QED BY <1>1, <1>2

LEMMA OnlyFacts ==
    ASSUME NEW S, NEW s \in Seq(S), NEW K
    PROVE  Only(s, K) \in Seq(S) /\ \E e : Picks(s, K, Len(s), Only(s, K), e)
<1>0. PICK len \in Nat : len = Len(s)
  OBVIOUS
<1>1. PICK Z : Z = Seq(S)
  OBVIOUS
<1>2. PICK none \in Z : none = <<>>
  <2>1. <<>> \in Seq(S)
    OBVIOUS
  <2>. QED BY <1>1, <2>1
<1>. DEFINE G == [p \in Z \X (1 .. len) |-> IF s[p[2]] \in K THEN Append(p[1], s[p[2]]) ELSE p[1]]
<1>3. \A o \in Z : \A i \in 1 .. len : G[<<o, i>>] = IF s[i] \in K THEN Append(o, s[i]) ELSE o
  OBVIOUS
<1>4. G \in [Z \X (1 .. len) -> Z]
  <2>1. ASSUME NEW o \in Z, NEW i \in 1 .. len
        PROVE (IF s[i] \in K THEN Append(o, s[i]) ELSE o) \in Z
    <3>1. s[i] \in S
      BY <1>0
    <3>. QED BY <1>1, <3>1
  <2>. QED BY <2>1
<1>. HIDE DEF G
<1>5. PICK g \in [0 .. len -> Z] : Iterates(G, none, len, g)
  BY <1>4, IterationExists
<1>6. AreKept(s, K, g)
  <2>1. ASSUME NEW n \in 0 .. len PROVE g[n] = KeptStep(s, K, g, n)
    <3>1. CASE n = 0
      BY <1>2, <1>5, <3>1 DEF Iterates, KeptStep
    <3>2. CASE n # 0
      <4>1. n \in 1 .. len /\ n - 1 \in 0 .. len
        BY <3>2
      <4>. QED BY <1>3, <1>5, <3>2, <4>1 DEF Iterates, KeptStep
    <3>. QED BY <3>1, <3>2
  <2>2. g = [n \in 0 .. len |-> g[n]]
    OBVIOUS
  <2>. QED BY <1>0, <2>1, <2>2 DEF AreKept
<1>7. PICK f : f = CHOOSE h : AreKept(s, K, h)
  OBVIOUS
<1>8. Only(s, K) = f[len]
  BY <1>0, <1>7 DEF Only, AreKept, KeptStep
<1>9. AreKept(s, K, f)
  BY <1>6, <1>7
<1>10. \A n \in 0 .. len : f[n] = KeptStep(s, K, f, n)
  BY <1>0, <1>9 DEF AreKept
<1>. DEFINE Good(n) == f[n] \in Z /\ \E e : Picks(s, K, n, f[n], e)
            T == {n \in 0 .. len : ~Good(n)}
<1>11. ASSUME T # {} PROVE FALSE
  <2>1. PICK n \in T : \A k \in T : n <= k
    <3>1. T \subseteq Nat
      OBVIOUS
    <3>. HIDE DEF T
    <3>. QED BY <1>11, <3>1, Least
  <2>2. n \in 0 .. len /\ ~Good(n)
    OBVIOUS
  <2>3. n # 0
    <3>. SUFFICES ASSUME n = 0 PROVE FALSE
      OBVIOUS
    <3>1. f[0] = <<>>
      BY <1>10 DEF KeptStep
    <3>2. Picks(s, K, 0, <<>>, [i \in 1 .. 0 |-> 0])
      BY DEF Picks
    <3>. QED BY <1>2, <2>2, <3>1, <3>2
  <2>4. n - 1 \in 0 .. len /\ n - 1 \notin T
    BY <2>1, <2>2, <2>3
  <2>5. Good(n - 1)
    BY <2>4
  <2>6. PICK e : Picks(s, K, n - 1, f[n - 1], e)
    BY <2>5
  <2>7. f[n] = IF s[n] \in K THEN Append(f[n - 1], s[n]) ELSE f[n - 1]
    BY <1>10, <2>2, <2>3 DEF KeptStep
  <2>8. n \in 1 .. Len(s) /\ f[n - 1] \in Seq(S)
    BY <1>0, <1>1, <2>2, <2>3, <2>5
  <2>9. f[n] \in Seq(S) /\ \E h : Picks(s, K, n, f[n], h)
    BY <2>6, <2>7, <2>8, OnePicked
  <2>. QED BY <1>1, <2>2, <2>9
<1>12. len \in 0 .. len
  OBVIOUS
<1>13. Good(len)
  BY <1>11, <1>12
<1>. QED BY <1>0, <1>1, <1>8, <1>13

-----------------------------------------------------------------------------
(* The table of a map, seen by where each key lies.                        *)

Spots(C) == 0 .. C - 1
\* How far it is from a to b, round the table.
Way(C, a, b) == IF b >= a THEN b - a ELSE b - a + C
Home(h, C, k) == h[k] % C

Stored == {0} \cup UNION {Vals[k] : k \in Keys}
SlotSet == [full : BOOLEAN, key : Keys \cup {0}, val : Stored]
MapSet(C) == [slot : [Spots(C) -> SlotSet], cap : {C}, count : Nat]
Entry(k, v) == [full |-> TRUE, key |-> k, val |-> v]

IsHash(h, C) == h \in [Keys -> Nat] /\ C \in Nat /\ C >= 2

LEMMA Remains ==
    ASSUME NEW C \in Nat \ {0}, NEW x \in 0 .. 2 * C - 1
    PROVE  x % C = IF x < C THEN x ELSE x - C
OBVIOUS

LEMMA RemainsBelow ==
    ASSUME NEW C \in Nat \ {0}, NEW x \in 1 - C .. C - 1
    PROVE  x % C = IF x >= 0 THEN x ELSE x + C
OBVIOUS

LEMMA HomeIn ==
    ASSUME NEW h, NEW C, IsHash(h, C), NEW k \in Keys
    PROVE  Home(h, C, k) \in Spots(C)
<1>1. h[k] \in Nat /\ C \in Nat \ {0}
  BY DEF IsHash
<1>. QED BY <1>1 DEF Home, Spots

\* Ahead by d, and how far that is.
LEMMA Ahead ==
    ASSUME NEW C \in Nat \ {0}, NEW a \in Spots(C), NEW d \in Spots(C)
    PROVE  /\ (a + d) % C \in Spots(C) /\ Way(C, a, (a + d) % C) = d
           /\ (a + d) % C = IF a + d < C THEN a + d ELSE a + d - C
<1>1. a \in Nat /\ a < C /\ d \in Nat /\ d < C /\ C \in Nat
  BY DEF Spots
<1>2. a + d \in 0 .. 2 * C - 1
  BY <1>1
<1>3. (a + d) % C = IF a + d < C THEN a + d ELSE a + d - C
  <2>1. PICK x \in 0 .. 2 * C - 1 : x = a + d
    BY <1>2
  <2>2. x % C = IF x < C THEN x ELSE x - C
    BY Remains
  <2>. QED BY <1>1, <2>1, <2>2
<1>. QED BY <1>1, <1>3 DEF Spots, Way

LEMMA WayIs ==
    ASSUME NEW C \in Nat \ {0}, NEW a \in Spots(C), NEW b \in Spots(C)
    PROVE  /\ Way(C, a, b) \in Spots(C) /\ (b - a) % C = Way(C, a, b)
           /\ (a + Way(C, a, b)) % C = b
<1>1. a \in Nat /\ a < C /\ b \in Nat /\ b < C /\ C \in Nat
  BY DEF Spots
<1>2. b - a \in 1 - C .. C - 1
  BY <1>1
<1>3. (b - a) % C = Way(C, a, b)
  <2>1. PICK x \in 1 - C .. C - 1 : x = b - a
    BY <1>2
  <2>2. x % C = IF x >= 0 THEN x ELSE x + C
    BY RemainsBelow
  <2>3. x >= 0 <=> b >= a
    BY <1>1, <2>1
  <2>. QED BY <1>1, <2>1, <2>2, <2>3 DEF Way
<1>4. Way(C, a, b) \in Spots(C)
  BY <1>1 DEF Way, Spots
<1>5. (a + Way(C, a, b)) % C = b
  <2>1. PICK d \in Spots(C) : d = Way(C, a, b)
    BY <1>4
  <2>2. (a + d) % C = IF a + d < C THEN a + d ELSE a + d - C
    BY Ahead
  <2>. QED BY <1>1, <2>1, <2>2 DEF Way
<1>. QED BY <1>3, <1>4, <1>5

\* A place is left where there are fewer keys than places.
LEMMA PlaceLeft ==
    ASSUME NEW C \in Nat, NEW n \in Nat, n < C, NEW w \in [1 .. n -> Spots(C)]
    PROVE  \E s \in Spots(C) : \A i \in 1 .. n : w[i] # s
<1>. SUFFICES ASSUME \A s \in Spots(C) : \E i \in 1 .. n : w[i] = s PROVE FALSE
  OBVIOUS
<1>1. w \in Surjection(1 .. n, Spots(C))
  BY DEF Surjection
<1>2. IsFiniteSet(1 .. n) /\ Cardinality(1 .. n) = n /\ Cardinality(Spots(C)) = C
  BY FS_Interval DEF Spots
<1>. QED BY <1>1, <1>2, FS_Surjection

LEMMA ProbeIs ==
    ASSUME NEW h, NEW C, IsHash(h, C), NEW m \in MapSet(C), NEW k \in Keys,
           NEW z \in Spots(C), ~m.slot[z].full
    PROVE  LET i == Probe(m, h, k)
               a == Home(h, C, k)
           IN  /\ i \in Spots(C)
               /\ m.slot[i].full => m.slot[i].key = k
               /\ \A s \in Spots(C) : Way(C, a, s) < Way(C, a, i) => m.slot[s].full /\ m.slot[s].key # k
<1>. DEFINE a == Home(h, C, k)
            at(d) == (a + d) % C
            ends(d) == ~m.slot[at(d)].full \/ m.slot[at(d)].key = k
            D == {d \in 0 .. C - 1 : ends(d)}
<1>0. C \in Nat \ {0} /\ m.cap = C /\ a \in Spots(C)
  BY HomeIn DEF IsHash, MapSet
<1>. HIDE DEF a
<1>1. Way(C, a, z) \in D
  <2>1. Way(C, a, z) \in 0 .. C - 1 /\ at(Way(C, a, z)) = z
    BY <1>0, WayIs DEF Spots
  <2>. QED BY <2>1
<1>2. D \subseteq Nat
  BY <1>0
<1>3. PICK d \in D : d = Min(D) /\ \A e \in D : d <= e
  <2>. HIDE DEF D
  <2>. QED BY <1>1, <1>2, LeastOf
<1>4. d \in Spots(C) /\ at(d) \in Spots(C) /\ Way(C, a, at(d)) = d /\ ends(d)
  <2>1. d \in Spots(C) /\ ends(d)
    BY DEF Spots
  <2>. QED BY <1>0, <2>1, Ahead
<1>5. Probe(m, h, k) = at(d)
  <2>1. Ideal(m, h, k) = a
    BY <1>0 DEF Ideal, Wrapped, Home, a
  <2>2. Probe(m, h, k) = at(Min(D))
    BY <1>0, <2>1 DEF Probe, Wrapped
  <2>. QED BY <1>3, <2>2
<1>6. \A s \in Spots(C) : Way(C, a, s) < d => m.slot[s].full /\ m.slot[s].key # k
  <2>. SUFFICES ASSUME NEW s \in Spots(C), Way(C, a, s) < d PROVE m.slot[s].full /\ m.slot[s].key # k
    OBVIOUS
  <2>1. PICK e \in Spots(C) : e = Way(C, a, s) /\ at(e) = s
    BY <1>0, WayIs
  <2>2. e \notin D
    <3>1. e < d /\ d \in Nat /\ e \in Nat
      BY <1>0, <1>2, <2>1 DEF Spots
    <3>. HIDE DEF D
    <3>. QED BY <1>3, <3>1
  <2>3. ~ends(e)
    BY <2>1, <2>2 DEF Spots
  <2>. QED BY <2>1, <2>3
<1>. QED BY <1>4, <1>5, <1>6 DEF a

\* The table with the keys q[n], n in I, at the places w[n]: each key beyond earlier ones only.
Lies(m, h, C, q, I, c, w) ==
    /\ m \in MapSet(C)
    /\ w \in [1 .. Len(q) -> Spots(C)]
    /\ \A n, p \in I : w[n] = w[p] => n = p
    /\ \A n \in I : m.slot[w[n]] = Entry(q[n], c[q[n]])
    /\ \A s \in Spots(C) : (\A n \in I : w[n] # s) => m.slot[s] = EmptySlot
    /\ \A n \in I : \A s \in Spots(C) :
          Way(C, Home(h, C, q[n]), s) < Way(C, Home(h, C, q[n]), w[n]) =>
              \E p \in I : p < n /\ w[p] = s
Within(I, q) == I \subseteq 1 .. Len(q)
Beyond(x, q, I) == \A p \in I : p < x /\ q[p] # q[x]
With(I, x) == I \cup {x}
NoneTwice(q, I) == \A i, j \in I : q[i] = q[j] => i = j
Values(q, c) == \A n \in 1 .. Len(q) : c[q[n]] \in Stored

LEMMA Fullness ==
    ASSUME NEW h, NEW C, NEW q, NEW I, NEW c, NEW w, NEW m, Lies(m, h, C, q, I, c, w), NEW s \in Spots(C)
    PROVE  /\ \A n \in I : w[n] = s => m.slot[s].full
           /\ (\A n \in I : w[n] # s) => ~m.slot[s].full
<1>1. ASSUME NEW n \in I, w[n] = s PROVE m.slot[s].full
  <2>1. m.slot[s] = Entry(q[n], c[q[n]])
    BY <1>1 DEF Lies
  <2>. QED BY <2>1 DEF Entry
<1>2. ASSUME \A n \in I : w[n] # s PROVE ~m.slot[s].full
  <2>1. m.slot[s] = EmptySlot
    BY <1>2 DEF Lies
  <2>. QED BY <2>1 DEF EmptySlot
<1>. QED BY <1>1, <1>2

\* A key that is in the table is found where it lies; another key where a place is left, which
\* is the first on its way.
LEMMA ProbeTells ==
    ASSUME NEW h, NEW C, IsHash(h, C), NEW q \in Seq(Keys), NEW I, Within(I, q), NEW c, NEW w, NEW m,
           Lies(m, h, C, q, I, c, w), NoneTwice(q, I), Len(q) < C, NEW k \in Keys
    PROVE  /\ Probe(m, h, k) \in Spots(C)
           /\ \A n \in I : q[n] = k => Probe(m, h, k) = w[n]
           /\ (\A n \in I : q[n] # k) =>
                 /\ \A n \in I : w[n] # Probe(m, h, k)
                 /\ \A s \in Spots(C) : Way(C, Home(h, C, k), s) < Way(C, Home(h, C, k), Probe(m, h, k)) =>
                        \E n \in I : w[n] = s
<1>0. C \in Nat \ {0} /\ Len(q) \in Nat /\ m \in MapSet(C) /\ w \in [1 .. Len(q) -> Spots(C)]
  BY DEF IsHash, Lies
<1>1. PICK z \in Spots(C) : \A n \in 1 .. Len(q) : w[n] # z
  BY <1>0, PlaceLeft
<1>2. ~m.slot[z].full
  <2>1. \A n \in I : w[n] # z
    BY <1>1 DEF Within
  <2>. QED BY <2>1, Fullness
<1>3. PICK a \in Spots(C) : a = Home(h, C, k)
  BY HomeIn
<1>4. PICK i : i = Probe(m, h, k)
  OBVIOUS
<1>5. /\ i \in Spots(C)
      /\ m.slot[i].full => m.slot[i].key = k
      /\ \A s \in Spots(C) : Way(C, a, s) < Way(C, a, i) => m.slot[s].full /\ m.slot[s].key # k
  BY <1>0, <1>2, <1>3, <1>4, ProbeIs
<1>6. ASSUME NEW n \in I PROVE m.slot[w[n]].full /\ m.slot[w[n]].key = q[n] /\ w[n] \in Spots(C)
  <2>1. m.slot[w[n]] = Entry(q[n], c[q[n]])
    BY DEF Lies
  <2>2. w[n] \in Spots(C)
    BY <1>0 DEF Within
  <2>. QED BY <2>1, <2>2 DEF Entry
<1>7. ASSUME NEW n \in I, q[n] = k PROVE i = w[n]
  <2>. SUFFICES ASSUME i # w[n] PROVE FALSE
    OBVIOUS
  <2>0. PICK b \in Spots(C) : b = w[n]
    BY <1>6
  <2>1. Way(C, a, b) \in Nat /\ Way(C, a, i) \in Nat
    <3>1. Way(C, a, b) \in Spots(C) /\ Way(C, a, i) \in Spots(C)
      BY <1>0, <1>5, WayIs
    <3>. QED BY <1>0, <3>1 DEF Spots
  <2>2. Way(C, a, b) # Way(C, a, i)
    <3>1. (a + Way(C, a, b)) % C = b /\ (a + Way(C, a, i)) % C = i
      BY <1>0, <1>5, WayIs
    <3>. QED BY <2>0, <3>1
  <2>3. ~(Way(C, a, b) < Way(C, a, i))
    BY <1>5, <1>6, <1>7, <2>0
  <2>4. Way(C, a, i) < Way(C, a, b)
    BY <2>1, <2>2, <2>3
  <2>5. PICK p \in I : p < n /\ w[p] = i
    BY <1>3, <1>5, <1>7, <2>0, <2>4 DEF Lies
  <2>6. m.slot[i].full /\ m.slot[i].key = q[p]
    BY <1>6, <2>5
  <2>7. q[p] = q[n]
    BY <1>5, <1>7, <2>6
  <2>. QED BY <2>0, <2>5, <2>7 DEF NoneTwice
<1>8. ASSUME \A n \in I : q[n] # k
      PROVE  /\ \A n \in I : w[n] # i
             /\ \A s \in Spots(C) : Way(C, a, s) < Way(C, a, i) => \E n \in I : w[n] = s
  <2>1. \A n \in I : w[n] # i
    BY <1>5, <1>6, <1>8
  <2>2. \A s \in Spots(C) : m.slot[s].full => \E n \in I : w[n] = s
    BY Fullness
  <2>. QED BY <1>5, <2>1, <2>2
<1>. QED BY <1>3, <1>4, <1>5, <1>7, <1>8

LEMMA LiesSame ==
    ASSUME NEW h, NEW C, NEW q, NEW I, NEW c, NEW w, NEW m, Lies(m, h, C, q, I, c, w),
           NEW r, NEW d, NEW v \in [1 .. Len(r) -> Spots(C)],
           \A n \in I : r[n] = q[n] /\ d[q[n]] = c[q[n]] /\ v[n] = w[n]
    PROVE  Lies(m, h, C, r, I, d, v)
BY DEF Lies

\* What map_put writes, for a key that is not there.
LEMMA PlacedNew ==
    ASSUME NEW h, NEW C, IsHash(h, C), NEW q \in Seq(Keys), NEW I, Within(I, q), NEW c, NEW w, NEW m,
           Lies(m, h, C, q, I, c, w), NoneTwice(q, I), Len(q) < C,
           NEW x \in 1 .. Len(q), Beyond(x, q, I), c[q[x]] \in Stored,
           NEW K, K = With(I, x)
    PROVE  /\ \E v : Lies(Placed(m, h, q[x], c[q[x]]), h, C, q, K, c, v)
           /\ Placed(m, h, q[x], c[q[x]]).count = m.count + 1
<1>0. /\ C \in Nat \ {0} /\ Len(q) \in Nat /\ m \in MapSet(C) /\ w \in [1 .. Len(q) -> Spots(C)]
      /\ q[x] \in Keys /\ x \in Nat
  BY DEF IsHash, Lies
<1>1. PICK k \in Keys : k = q[x]
  BY <1>0
<1>2. PICK i : i = Probe(m, h, k)
  OBVIOUS
<1>3. PICK a : a = Home(h, C, k)
  OBVIOUS
<1>4. /\ i \in Spots(C) /\ \A n \in I : w[n] # i
      /\ \A s \in Spots(C) : Way(C, a, s) < Way(C, a, i) => \E n \in I : w[n] = s
  <2>1. \A n \in I : q[n] # k
    BY <1>1 DEF Beyond
  <2>2. /\ Probe(m, h, k) \in Spots(C) /\ \A n \in I : w[n] # Probe(m, h, k)
        /\ \A s \in Spots(C) : Way(C, Home(h, C, k), s) < Way(C, Home(h, C, k), Probe(m, h, k)) =>
                        \E n \in I : w[n] = s
    BY <2>1, ProbeTells
  <2>. QED BY <1>2, <1>3, <2>2
<1>5. ~m.slot[i].full
  BY <1>4, Fullness
<1>6. PICK r : r = Placed(m, h, k, c[k])
  OBVIOUS
<1>7. r = [m EXCEPT !.slot[i] = Entry(k, c[k]), !.count = @ + 1]
  BY <1>2, <1>5, <1>6 DEF Placed, Entry
<1>8. /\ r \in MapSet(C) /\ r.count = m.count + 1 /\ r.slot[i] = Entry(k, c[k])
      /\ \A s \in Spots(C) : s # i => r.slot[s] = m.slot[s]
  <2>1. PICK e \in SlotSet : e = Entry(k, c[k])
    BY <1>1 DEF SlotSet, Entry
  <2>2. m.slot \in [Spots(C) -> SlotSet] /\ m.count \in Nat
    BY <1>0 DEF MapSet
  <2>3. r = [m EXCEPT !.slot = [m.slot EXCEPT ![i] = e], !.count = m.count + 1]
    BY <1>7, <2>1
  <2>4. PICK f \in [Spots(C) -> SlotSet] : f = [m.slot EXCEPT ![i] = e]
    BY <1>4, <2>2
  <2>5. f[i] = e /\ \A s \in Spots(C) : s # i => f[s] = m.slot[s]
    BY <1>4, <2>2, <2>4
  <2>6. r = [m EXCEPT !.slot = f, !.count = m.count + 1]
    BY <2>3, <2>4
  <2>7. PICK N \in Nat : N = m.count + 1
    BY <2>2
  <2>8. r = [m EXCEPT !.slot = f, !.count = N]
    BY <2>6, <2>7
  <2>9. r \in MapSet(C) /\ r.slot = f /\ r.count = N
    BY <1>0, <2>8 DEF MapSet
  <2>. QED BY <2>1, <2>5, <2>7, <2>9
<1>. DEFINE v == [n \in 1 .. Len(q) |-> IF n = x THEN i ELSE w[n]]
<1>9. v \in [1 .. Len(q) -> Spots(C)] /\ v[x] = i /\ \A n \in I : v[n] = w[n] /\ v[n] # i /\ v[n] \in Spots(C)
  <2>1. \A n \in I : n # x /\ n \in 1 .. Len(q)
    BY <1>0 DEF Within, Beyond
  <2>. QED BY <1>0, <1>4, <2>1
<1>. HIDE DEF v
<1>10. \A n, p \in I \cup {x} : v[n] = v[p] => n = p
  BY <1>9 DEF Lies
<1>11. \A n \in I \cup {x} : r.slot[v[n]] = Entry(q[n], c[q[n]])
  <2>1. \A n \in I : r.slot[v[n]] = Entry(q[n], c[q[n]])
    BY <1>8, <1>9 DEF Lies
  <2>. QED BY <1>1, <1>8, <1>9, <2>1
<1>12. \A s \in Spots(C) : (\A n \in I \cup {x} : v[n] # s) => r.slot[s] = EmptySlot
  BY <1>8, <1>9 DEF Lies
<1>13. ASSUME NEW n \in I \cup {x}, NEW s \in Spots(C),
              Way(C, Home(h, C, q[n]), s) < Way(C, Home(h, C, q[n]), v[n])
       PROVE  \E p \in I \cup {x} : p < n /\ v[p] = s
  <2>1. CASE n = x
    <3>1. Way(C, a, s) < Way(C, a, i)
      BY <1>1, <1>3, <1>9, <1>13, <2>1
    <3>2. PICK p \in I : w[p] = s
      BY <1>4, <3>1
    <3>3. p < n /\ v[p] = s
      BY <1>9, <2>1, <3>2 DEF Beyond
    <3>. QED BY <3>2, <3>3
  <2>2. CASE n \in I
    <3>1. Way(C, Home(h, C, q[n]), s) < Way(C, Home(h, C, q[n]), w[n])
      BY <1>9, <1>13, <2>2
    <3>2. PICK p \in I : p < n /\ w[p] = s
      BY <2>2, <3>1 DEF Lies
    <3>. QED BY <1>9, <3>2
  <2>. QED BY <2>1, <2>2
<1>14. Lies(r, h, C, q, K, c, v)
  BY <1>8, <1>9, <1>10, <1>11, <1>12, <1>13 DEF Lies, With
<1>. QED BY <1>1, <1>6, <1>8, <1>14

\* What it writes for a key that is.
LEMMA PlacedOld ==
    ASSUME NEW h, NEW C, IsHash(h, C), NEW q \in Seq(Keys), NEW I, Within(I, q), NEW c, NEW w, NEW m,
           Lies(m, h, C, q, I, c, w), NoneTwice(q, I), Len(q) < C,
           NEW x \in I, NEW d, d[q[x]] \in Stored, \A n \in I : n # x => d[q[n]] = c[q[n]]
    PROVE  /\ Lies(Placed(m, h, q[x], d[q[x]]), h, C, q, I, d, w)
           /\ Placed(m, h, q[x], d[q[x]]).count = m.count
<1>0. /\ C \in Nat \ {0} /\ Len(q) \in Nat /\ m \in MapSet(C) /\ w \in [1 .. Len(q) -> Spots(C)]
      /\ q[x] \in Keys /\ x \in 1 .. Len(q)
  BY DEF IsHash, Lies, Within
<1>1. PICK k \in Keys : k = q[x]
  BY <1>0
<1>2. PICK i \in Spots(C) : i = Probe(m, h, k) /\ i = w[x]
  <2>1. Probe(m, h, k) \in Spots(C) /\ \A n \in I : q[n] = k => Probe(m, h, k) = w[n]
    BY ProbeTells
  <2>. QED BY <1>1, <2>1
<1>3. m.slot[i].full
  BY <1>2, Fullness
<1>4. PICK r : r = Placed(m, h, k, d[k])
  OBVIOUS
<1>5. r = [m EXCEPT !.slot[i] = Entry(k, d[k])]
  <2>1. r = [m EXCEPT !.slot[i] = Entry(k, d[k]), !.count = @]
    BY <1>2, <1>3, <1>4 DEF Placed, Entry
  <2>. QED BY <1>0, <2>1 DEF MapSet
<1>6. /\ r \in MapSet(C) /\ r.count = m.count /\ r.slot[i] = Entry(k, d[k])
      /\ \A s \in Spots(C) : s # i => r.slot[s] = m.slot[s]
  BY <1>0, <1>1, <1>2, <1>5 DEF MapSet, SlotSet, Entry
<1>7. \A n \in I : r.slot[w[n]] = Entry(q[n], d[q[n]])
  <2>. SUFFICES ASSUME NEW n \in I PROVE r.slot[w[n]] = Entry(q[n], d[q[n]])
    OBVIOUS
  <2>1. CASE n = x
    BY <1>1, <1>2, <1>6, <2>1
  <2>2. CASE n # x
    <3>1. w[n] # i /\ w[n] \in Spots(C)
      <4>1. n \in 1 .. Len(q)
        BY DEF Within
      <4>2. w[n] # w[x]
        BY <2>2 DEF Lies
      <4>. QED BY <1>0, <1>2, <4>1, <4>2
    <3>2. m.slot[w[n]] = Entry(q[n], c[q[n]])
      BY DEF Lies
    <3>. QED BY <1>6, <2>2, <3>1, <3>2
  <2>. QED BY <2>1, <2>2
<1>8. \A s \in Spots(C) : (\A n \in I : w[n] # s) => r.slot[s] = EmptySlot
  BY <1>2, <1>6 DEF Lies
<1>9. Lies(r, h, C, q, I, d, w)
  BY <1>6, <1>7, <1>8 DEF Lies
<1>. QED BY <1>1, <1>4, <1>6, <1>9

\* Where every key lies, and so the whole table but its count, is told by the order of the keys.
LEMMA OneTable ==
    ASSUME NEW h, NEW C, IsHash(h, C), NEW q \in Seq(Keys), NEW I, Within(I, q), NEW c,
           NEW m, NEW v, Lies(m, h, C, q, I, c, v), NEW r, NEW w, Lies(r, h, C, q, I, c, w),
           m.count = r.count
    PROVE  m = r
<1>0. /\ C \in Nat \ {0} /\ Len(q) \in Nat /\ m \in MapSet(C) /\ r \in MapSet(C)
      /\ v \in [1 .. Len(q) -> Spots(C)] /\ w \in [1 .. Len(q) -> Spots(C)]
  BY DEF IsHash, Lies
<1>1. \A n \in I : v[n] = w[n]
  <2>. DEFINE T == {n \in I : v[n] # w[n]}
  <2>1. ASSUME T # {} PROVE FALSE
    <3>1. PICK n \in T : \A p \in T : n <= p
      <4>1. T \subseteq Nat
        <5>1. \A n \in I : n \in Nat
          BY DEF Within
        <5>. QED BY <5>1
      <4>. HIDE DEF T
      <4>. QED BY <2>1, <4>1, Least
    <3>2. n \in I /\ v[n] # w[n] /\ n \in Nat /\ n \in 1 .. Len(q) /\ q[n] \in Keys
      BY DEF Within
    <3>3. \A p \in I : p < n => v[p] = w[p]
      BY <3>1, <3>2
    <3>4. PICK a \in Spots(C) : a = Home(h, C, q[n])
      BY <3>2, HomeIn
    <3>5. PICK s \in Spots(C), t \in Spots(C) : s = v[n] /\ t = w[n]
      BY <1>0, <3>2
    <3>6. Way(C, a, s) \in Nat /\ Way(C, a, t) \in Nat /\ Way(C, a, s) # Way(C, a, t)
      <4>1. Way(C, a, s) \in Spots(C) /\ Way(C, a, t) \in Spots(C)
        BY <1>0, WayIs
      <4>2. (a + Way(C, a, s)) % C = s /\ (a + Way(C, a, t)) % C = t
        BY <1>0, WayIs
      <4>. QED BY <1>0, <3>2, <3>5, <4>1, <4>2 DEF Spots
    <3>7. CASE Way(C, a, s) < Way(C, a, t)
      <4>1. PICK p \in I : p < n /\ w[p] = s
        BY <3>2, <3>4, <3>5, <3>7 DEF Lies
      <4>2. v[p] = v[n] /\ p # n
        BY <3>2, <3>3, <3>5, <4>1
      <4>. QED BY <3>2, <4>1, <4>2 DEF Lies
    <3>8. CASE Way(C, a, t) < Way(C, a, s)
      <4>1. PICK p \in I : p < n /\ v[p] = t
        BY <3>2, <3>4, <3>5, <3>8 DEF Lies
      <4>2. w[p] = w[n] /\ p # n
        BY <3>2, <3>3, <3>5, <4>1
      <4>. QED BY <3>2, <4>1, <4>2 DEF Lies
    <3>. QED BY <3>6, <3>7, <3>8
  <2>. QED BY <2>1
<1>2. \A s \in Spots(C) : m.slot[s] = r.slot[s]
  <2>. SUFFICES ASSUME NEW s \in Spots(C) PROVE m.slot[s] = r.slot[s]
    OBVIOUS
  <2>1. ASSUME NEW n \in I, v[n] = s PROVE m.slot[s] = r.slot[s]
    BY <1>1, <2>1 DEF Lies
  <2>2. ASSUME \A n \in I : v[n] # s PROVE m.slot[s] = r.slot[s]
    BY <1>1, <2>2 DEF Lies
  <2>. QED BY <2>1, <2>2
<1>3. m.slot = r.slot
  BY <1>0, <1>2 DEF MapSet
<1>. QED BY <1>0, <1>3 DEF MapSet

-----------------------------------------------------------------------------
(* A capacity, and a table filled from nothing.                            *)

LEMMA PowersAgree ==
    ASSUME NEW b \in Nat, NEW n \in Nat, NEW m \in 0 .. n
    PROVE  Powers(b, n)[m] = Powers(b, m)[m]
<1>1. PICK f, g : f = Powers(b, n) /\ g = Powers(b, m)
  OBVIOUS
<1>2. f[0] = 1 /\ \A e \in 1 .. n : f[e] = b * f[e - 1]
  BY <1>1, PowersFacts
<1>3. g[0] = 1 /\ \A e \in 1 .. m : g[e] = b * g[e - 1]
  <2>1. m \in Nat
    OBVIOUS
  <2>. QED BY <1>1, <2>1, PowersFacts
<1>. DEFINE T == {e \in 0 .. m : f[e] # g[e]}
<1>4. ASSUME T # {} PROVE FALSE
  <2>1. PICK e \in T : \A k \in T : e <= k
    <3>1. T \subseteq Nat
      OBVIOUS
    <3>. HIDE DEF T
    <3>. QED BY <1>4, <3>1, Least
  <2>2. e \in 0 .. m /\ f[e] # g[e]
    OBVIOUS
  <2>3. e # 0
    BY <1>2, <1>3, <2>2
  <2>4. e - 1 \in 0 .. m /\ e - 1 \notin T
    BY <2>1, <2>2, <2>3
  <2>5. f[e - 1] = g[e - 1]
    BY <2>4
  <2>6. e \in 1 .. m /\ e \in 1 .. n
    BY <2>2, <2>3
  <2>. QED BY <1>2, <1>3, <2>2, <2>5, <2>6
<1>5. m \in 0 .. m
  OBVIOUS
<1>. QED BY <1>1, <1>4, <1>5

IsPow(p) == \E e \in Nat : p = Powers(2, e)[e]

LEMMA PowerIsMore ==
    ASSUME NEW n \in Nat
    PROVE  \A e \in 0 .. n : Powers(2, n)[e] \in Nat /\ Powers(2, n)[e] > e
<1>1. PICK f \in [0 .. n -> Nat] : f = Powers(2, n) /\ f[0] = 1 /\ \A e \in 1 .. n : f[e] = 2 * f[e - 1]
  BY PowersFacts
<1>. DEFINE T == {e \in 0 .. n : ~(f[e] > e)}
<1>2. ASSUME T # {} PROVE FALSE
  <2>1. PICK e \in T : \A k \in T : e <= k
    <3>1. T \subseteq Nat
      OBVIOUS
    <3>. HIDE DEF T
    <3>. QED BY <1>2, <3>1, Least
  <2>2. e \in 0 .. n /\ ~(f[e] > e) /\ e # 0
    BY <1>1
  <2>3. e - 1 \in 0 .. n /\ e - 1 \notin T
    BY <2>1, <2>2
  <2>4. f[e - 1] > e - 1 /\ f[e - 1] \in Nat /\ e \in 1 .. n
    BY <2>2, <2>3
  <2>. QED BY <1>1, <2>2, <2>4
<1>. QED BY <1>1, <1>2

IsCap(C) == C \in Nat /\ C >= 2 /\ RoundPow2(C) = C
Wide(n) == {p \in {Powers(2, n)[e] : e \in 0 .. n} : p >= n}

LEMMA RoundIs ==
    ASSUME NEW n \in Nat
    PROVE  RoundPow2(n) \in Nat /\ RoundPow2(n) >= n /\ IsPow(RoundPow2(n))
<1>1. \A e \in 0 .. n : Powers(2, n)[e] \in Nat /\ Powers(2, n)[e] > e
  BY PowerIsMore
<1>2. Wide(n) \subseteq Nat
  BY <1>1 DEF Wide
<1>3. Powers(2, n)[n] \in Wide(n)
  <2>1. n \in 0 .. n
    OBVIOUS
  <2>2. Powers(2, n)[n] >= n
    BY <1>1, <2>1
  <2>. QED BY <2>1, <2>2 DEF Wide
<1>4. PICK p \in Nat : p = Min(Wide(n)) /\ p \in Wide(n)
  BY <1>2, <1>3, LeastOf
<1>5. PICK e \in 0 .. n : p = Powers(2, n)[e] /\ p >= n
  BY <1>4 DEF Wide
<1>6. p = Powers(2, e)[e] /\ e \in Nat
  BY <1>5, PowersAgree
<1>7. RoundPow2(n) = p
  BY <1>4 DEF RoundPow2, Wide
<1>. QED BY <1>5, <1>6, <1>7 DEF IsPow

LEMMA RoundKeeps == ASSUME NEW p \in Nat, IsPow(p) PROVE RoundPow2(p) = p
<1>1. PICK e \in Nat : p = Powers(2, e)[e]
  BY DEF IsPow
<1>2. p > e
  BY <1>1, PowerIsMore
<1>3. e \in 0 .. p
  BY <1>2
<1>4. Powers(2, p)[e] = p
  BY <1>1, <1>3, PowersAgree
<1>5. p \in Wide(p)
  BY <1>3, <1>4 DEF Wide
<1>6. Wide(p) \subseteq Nat
  BY PowerIsMore DEF Wide
<1>7. Min(Wide(p)) \in Wide(p) /\ Min(Wide(p)) <= p
  BY <1>5, <1>6, LeastOf
<1>8. Min(Wide(p)) >= p /\ Min(Wide(p)) \in Nat
  BY <1>6, <1>7 DEF Wide
<1>. QED BY <1>7, <1>8 DEF RoundPow2, Wide

LEMMA TwiceIsCap == ASSUME NEW C, IsCap(C) PROVE IsCap(2 * C)
<1>1. C \in Nat /\ C >= 2 /\ IsPow(C)
  BY RoundIs DEF IsCap
<1>2. PICK e \in Nat : C = Powers(2, e)[e]
  BY <1>1 DEF IsPow
<1>3. e + 1 \in Nat /\ e \in 0 .. e + 1 /\ e + 1 \in 1 .. e + 1 /\ (e + 1) - 1 = e
  OBVIOUS
<1>4. Powers(2, e + 1)[e] = C
  BY <1>2, <1>3, PowersAgree
<1>5. Powers(2, e + 1)[e + 1] = 2 * C
  <2>1. PICK n \in Nat : n = e + 1
    BY <1>3
  <2>2. \A d \in 1 .. n : Powers(2, n)[d] = 2 * Powers(2, n)[d - 1]
    BY PowersFacts
  <2>. QED BY <1>3, <1>4, <2>1, <2>2
<1>6. IsPow(2 * C)
  BY <1>3, <1>5 DEF IsPow
<1>. QED BY <1>1, <1>6, RoundKeeps DEF IsCap

LEMMA RoundIsCap == ASSUME NEW n \in Nat, n >= 2 PROVE IsCap(RoundPow2(n))
<1>1. PICK p \in Nat : p = RoundPow2(n) /\ p >= n /\ IsPow(p)
  BY RoundIs
<1>. QED BY <1>1, RoundKeeps DEF IsCap

LEMMA EmptyIs ==
    ASSUME NEW C, IsCap(C)
    PROVE  /\ EmptyMap(C) \in MapSet(C) /\ EmptyMap(C).count = 0
           /\ \A s \in Spots(C) : EmptyMap(C).slot[s] = EmptySlot
<1>1. C \in Nat /\ C >= 2 /\ RoundPow2(C) = C
  BY DEF IsCap
<1>2. EmptyMap(C) = [slot |-> [i \in 0 .. C - 1 |-> EmptySlot], cap |-> C, count |-> 0]
  BY <1>1 DEF EmptyMap
<1>3. EmptySlot \in SlotSet
  BY DEF EmptySlot, SlotSet, Stored
<1>. QED BY <1>2, <1>3 DEF MapSet, Spots

FillStep(C, h, E, f, n) == IF n = 0 THEN EmptyMap(C) ELSE Placed(f[n - 1], h, E[n].key, E[n].val)
AreFilled(C, h, E, f) == f = [n \in 0 .. Len(E) |-> FillStep(C, h, E, f, n)]
\* The entries of the keys q.
Lists(E, q, c) == Len(E) = Len(q) /\ \A n \in 1 .. Len(q) : E[n].key = q[n] /\ E[n].val = c[q[n]]
Upto(n) == 1 .. n

\* A key at a time: each lies beyond earlier ones.
LEMMA FillLies ==
    ASSUME NEW h, NEW C, IsHash(h, C), IsCap(C), NEW q \in Seq(Keys), NoneTwice(q, Upto(Len(q))), Len(q) < C,
           NEW c, Values(q, c), NEW E, Lists(E, q, c), NEW f, f[0] = EmptyMap(C),
           \A n \in 1 .. Len(q) :
               \/ f[n] = FillStep(C, h, E, f, n)
               \/ FillStep(C, h, E, f, n) \notin MapSet(C) /\ f[n] = f[n - 1]
    PROVE  \A n \in 0 .. Len(q) :
               /\ \E w : Lies(f[n], h, C, q, Upto(n), c, w)
               /\ f[n].count = n
               /\ n # 0 => f[n] = FillStep(C, h, E, f, n)
<1>0. PICK len \in Nat : len = Len(q)
  OBVIOUS
<1>. DEFINE Good(n) == /\ \E w : Lies(f[n], h, C, q, Upto(n), c, w)
                       /\ f[n].count = n
                       /\ n # 0 => f[n] = FillStep(C, h, E, f, n)
            T == {n \in 0 .. len : ~Good(n)}
<1>1. ASSUME T # {} PROVE FALSE
  <2>1. PICK n \in T : \A k \in T : n <= k
    <3>1. T \subseteq Nat
      OBVIOUS
    <3>. HIDE DEF T
    <3>. QED BY <1>1, <3>1, Least
  <2>2. n \in 0 .. len /\ ~Good(n)
    OBVIOUS
  <2>3. CASE n = 0
    <3>1. /\ f[0] \in MapSet(C) /\ f[0].count = 0
          /\ \A s \in Spots(C) : f[0].slot[s] = EmptySlot
      BY EmptyIs
    <3>2. PICK w \in [1 .. Len(q) -> Spots(C)] : TRUE
      <4>1. 0 \in Spots(C)
        BY DEF IsCap, Spots
      <4>2. [i \in 1 .. Len(q) |-> 0] \in [1 .. Len(q) -> Spots(C)]
        BY <4>1
      <4>. QED BY <4>2
    <3>3. Upto(0) = {}
      BY DEF Upto
    <3>4. Lies(f[0], h, C, q, {}, c, w)
      BY <3>1, <3>2 DEF Lies
    <3>. QED BY <2>2, <2>3, <3>1, <3>3, <3>4
  <2>4. CASE n # 0
    <3>1. n - 1 \in 0 .. len /\ n - 1 \notin T
      BY <2>1, <2>2, <2>4
    <3>2. Good(n - 1)
      BY <3>1
    <3>3. PICK J, m, w : J = Upto(n - 1) /\ m = f[n - 1] /\ Lies(m, h, C, q, J, c, w) /\ m.count = n - 1
      BY <3>2
    <3>4. n \in 1 .. Len(q) /\ n \in Nat /\ q[n] \in Keys
      BY <1>0, <2>2, <2>4
    <3>5. Within(J, q) /\ NoneTwice(q, J) /\ Beyond(n, q, J) /\ Upto(n) = With(J, n)
      BY <1>0, <3>3, <3>4 DEF Within, NoneTwice, Upto, Beyond, With
    <3>6. c[q[n]] \in Stored
      BY <3>4 DEF Values
    <3>7. PICK r : r = Placed(m, h, q[n], c[q[n]])
      OBVIOUS
    <3>8. (\E v : Lies(r, h, C, q, Upto(n), c, v)) /\ r.count = m.count + 1
      <4>1. Lies(m, h, C, q, J, c, w) /\ Within(J, q) /\ NoneTwice(q, J) /\ Beyond(n, q, J)
        BY <3>3, <3>5
      <4>2. PICK x, K : x = n /\ K = Upto(n)
        OBVIOUS
      <4>3. /\ Lies(m, h, C, q, J, c, w) /\ Within(J, q) /\ NoneTwice(q, J) /\ Beyond(x, q, J)
            /\ x \in 1 .. Len(q) /\ c[q[x]] \in Stored /\ K = With(J, x)
        BY <3>4, <3>5, <3>6, <4>1, <4>2
      <4>4. /\ \E v : Lies(Placed(m, h, q[x], c[q[x]]), h, C, q, K, c, v)
            /\ Placed(m, h, q[x], c[q[x]]).count = m.count + 1
        BY <4>3, PlacedNew
      <4>. QED BY <3>7, <4>2, <4>4
    <3>9. r = FillStep(C, h, E, f, n)
      BY <2>4, <3>3, <3>4, <3>7 DEF FillStep, Lists
    <3>10. r \in MapSet(C)
      BY <3>8 DEF Lies
    <3>11. f[n] = r
      BY <3>4, <3>9, <3>10
    <3>12. f[n].count = n
      BY <3>3, <3>4, <3>8, <3>11
    <3>13. Good(n)
      BY <3>5, <3>8, <3>9, <3>11, <3>12
    <3>. QED BY <2>2, <3>13
  <2>. QED BY <2>3, <2>4
<1>2. \A n \in 0 .. len : Good(n)
  BY <1>1
<1>. QED BY <1>0, <1>2

LEMMA RefilledLies ==
    ASSUME NEW h, NEW C, IsHash(h, C), IsCap(C), NEW q \in Seq(Keys), NoneTwice(q, Upto(Len(q))), Len(q) < C,
           NEW c, Values(q, c), NEW E, Lists(E, q, c)
    PROVE  /\ \E w : Lies(Refilled(C, h, E), h, C, q, Upto(Len(q)), c, w)
           /\ Refilled(C, h, E).count = Len(q)
<1>0. PICK len \in Nat : len = Len(q) /\ len = Len(E)
  BY DEF Lists
<1>1. PICK S : S = MapSet(C)
  OBVIOUS
<1>2. PICK none \in S : none = EmptyMap(C)
  BY <1>1, EmptyIs
<1>. DEFINE P(m, n) == Placed(m, h, E[n].key, E[n].val)
            G == [p \in S \X (1 .. len) |-> IF P(p[1], p[2]) \in S THEN P(p[1], p[2]) ELSE p[1]]
<1>3. \A m \in S : \A n \in 1 .. len : G[<<m, n>>] = IF P(m, n) \in S THEN P(m, n) ELSE m
  <2>. HIDE DEF P
  <2>. QED OBVIOUS
<1>4. G \in [S \X (1 .. len) -> S]
  <2>. HIDE DEF P
  <2>. QED OBVIOUS
<1>. HIDE DEF G
<1>5. PICK g \in [0 .. len -> S] : Iterates(G, none, len, g)
  BY <1>4, IterationExists
<1>6. g[0] = EmptyMap(C)
  BY <1>2, <1>5 DEF Iterates
<1>7. ASSUME NEW n \in 1 .. len
      PROVE  \/ g[n] = FillStep(C, h, E, g, n)
             \/ FillStep(C, h, E, g, n) \notin MapSet(C) /\ g[n] = g[n - 1]
  <2>1. n - 1 \in 0 .. len /\ n # 0
    OBVIOUS
  <2>2. g[n - 1] \in S /\ g[n] = G[<<g[n - 1], n>>]
    BY <1>5, <2>1 DEF Iterates
  <2>3. P(g[n - 1], n) = FillStep(C, h, E, g, n)
    BY <2>1 DEF FillStep
  <2>. HIDE DEF P
  <2>. QED BY <1>1, <1>3, <2>2, <2>3
<1>8. \A n \in 0 .. len : n # 0 => g[n] = FillStep(C, h, E, g, n)
  BY <1>0, <1>6, <1>7, FillLies
<1>9. AreFilled(C, h, E, g)
  <2>1. ASSUME NEW n \in 0 .. len PROVE g[n] = FillStep(C, h, E, g, n)
    BY <1>6, <1>8 DEF FillStep
  <2>2. g = [n \in 0 .. len |-> g[n]]
    OBVIOUS
  <2>. QED BY <1>0, <2>1, <2>2 DEF AreFilled
<1>10. PICK f : f = CHOOSE t : AreFilled(C, h, E, t)
  OBVIOUS
<1>11. Refilled(C, h, E) = f[len]
  BY <1>0, <1>10 DEF Refilled, AreFilled, FillStep
<1>12. AreFilled(C, h, E, f)
  BY <1>9, <1>10
<1>13. \A n \in 0 .. len : f[n] = FillStep(C, h, E, f, n)
  BY <1>0, <1>12 DEF AreFilled
<1>14. f[0] = EmptyMap(C)
  <2>1. 0 \in 0 .. len
    OBVIOUS
  <2>. QED BY <1>13, <2>1 DEF FillStep
<1>15. \A n \in 1 .. len : f[n] = FillStep(C, h, E, f, n)
  <2>1. \A n \in 1 .. len : n \in 0 .. len
    OBVIOUS
  <2>. QED BY <1>13, <2>1
<1>16. \A n \in 0 .. len : (\E w : Lies(f[n], h, C, q, Upto(n), c, w)) /\ f[n].count = n
  BY <1>0, <1>14, <1>15, FillLies
<1>17. len \in 0 .. len
  OBVIOUS
<1>. QED BY <1>0, <1>11, <1>16, <1>17

-----------------------------------------------------------------------------
(* A rehash.                                                               *)

LEMMA Distinct ==
    ASSUME NEW k \in Nat, NEW l \in Nat, NEW e \in [1 .. k -> 1 .. l],
           \A i, j \in 1 .. k : i < j => e[i] < e[j]
    PROVE  k <= l /\ \A i, j \in 1 .. k : e[i] = e[j] => i = j
<1>1. \A i, j \in 1 .. k : e[i] = e[j] => i = j
  <2>. SUFFICES ASSUME NEW i \in 1 .. k, NEW j \in 1 .. k, e[i] = e[j], i # j PROVE FALSE
    OBVIOUS
  <2>1. e[i] \in Nat /\ e[j] \in Nat
    OBVIOUS
  <2>2. i < j \/ j < i
    OBVIOUS
  <2>. QED BY <2>1, <2>2
<1>2. e \in Injection(1 .. k, 1 .. l)
  BY <1>1 DEF Injection, IsInjective
<1>3. IsFiniteSet(1 .. l) /\ Cardinality(1 .. l) = l /\ Cardinality(1 .. k) = k
  BY FS_Interval
<1>4. Cardinality(1 .. k) <= Cardinality(1 .. l)
  BY <1>2, <1>3, FS_Injection
<1>. QED BY <1>1, <1>3, <1>4

LEMMA EntriesTell ==
    ASSUME NEW h, NEW C, IsHash(h, C), NEW q \in Seq(Keys), NoneTwice(q, Upto(Len(q))), NEW c, NEW w, NEW m,
           Lies(m, h, C, q, Upto(Len(q)), c, w)
    PROVE  /\ KeysOf(m) \in Seq(Keys) /\ Len(KeysOf(m)) <= C
           /\ NoneTwice(KeysOf(m), Upto(Len(KeysOf(m))))
           /\ Lists(Entries(m), KeysOf(m), c)
           /\ ToSet(KeysOf(m)) = ToSet(q)
<1>0. /\ C \in Nat /\ m \in MapSet(C) /\ w \in [1 .. Len(q) -> Spots(C)] /\ Len(q) \in Nat
      /\ m.cap = C /\ m.slot \in [Spots(C) -> SlotSet]
  BY DEF IsHash, Lies, MapSet
<1>1. PICK s : s = [i \in 1 .. C |-> m.slot[i - 1]]
  OBVIOUS
<1>2. PICK K : K = {m.slot[i] : i \in FullSlots(m)}
  OBVIOUS
<1>3. s \in Seq(SlotSet) /\ Len(s) = C /\ \A i \in 1 .. C : s[i] = m.slot[i - 1] /\ i - 1 \in Spots(C)
  <2>1. \A i \in 1 .. C : i - 1 \in Spots(C)
    BY <1>0 DEF Spots
  <2>2. s \in [1 .. C -> SlotSet]
    BY <1>0, <1>1, <2>1
  <2>3. s \in Seq(SlotSet) /\ Len(s) = C
    BY <1>0, <2>2
  <2>. QED BY <1>1, <2>1, <2>3
<1>4. PICK o, e : o = Only(s, K) /\ o \in Seq(SlotSet) /\ Picks(s, K, C, o, e)
  BY <1>3, OnlyFacts
<1>5. Entries(m) = o
  BY <1>0, <1>1, <1>2, <1>4 DEF Entries
<1>6. PICK k \in Nat : k = Len(o) /\ DOMAIN o = 1 .. k
  BY <1>4
<1>7. /\ e \in [1 .. k -> 1 .. C]
      /\ \A i \in 1 .. k : o[i] = s[e[i]] /\ s[e[i]] \in K
      /\ \A i, j \in 1 .. k : i < j => e[i] < e[j]
      /\ \A p \in 1 .. C : s[p] \in K => \E i \in 1 .. k : e[i] = p
  BY <1>4, <1>6 DEF Picks
<1>8. k <= C /\ \A i, j \in 1 .. k : e[i] = e[j] => i = j
  BY <1>0, <1>7, Distinct
<1>9. ASSUME NEW i \in 1 .. k
      PROVE  \E p \in 1 .. Len(q) : w[p] = e[i] - 1 /\ o[i] = Entry(q[p], c[q[p]])
  <2>1. PICK t \in Spots(C) : t = e[i] - 1 /\ o[i] = m.slot[t]
    BY <1>3, <1>7
  <2>2. PICK u \in FullSlots(m) : m.slot[t] = m.slot[u]
    BY <1>2, <1>7, <2>1
  <2>3. m.slot[t].full
    BY <2>2 DEF FullSlots
  <2>4. PICK J : J = Upto(Len(q))
    OBVIOUS
  <2>5. PICK p \in J : w[p] = t
    BY <2>3, <2>4, Fullness
  <2>6. m.slot[w[p]] = Entry(q[p], c[q[p]])
    BY <2>4 DEF Lies
  <2>. QED BY <2>1, <2>4, <2>5, <2>6 DEF Upto
<1>10. PICK name : name = [n \in 1 .. k |-> o[n].key]
  OBVIOUS
<1>11. KeysOf(m) = name
  BY <1>5, <1>6, <1>10 DEF KeysOf
<1>12. name \in Seq(Keys) /\ Len(name) = k
  <2>1. \A n \in 1 .. k : o[n].key \in Keys
    <3>. SUFFICES ASSUME NEW n \in 1 .. k PROVE o[n].key \in Keys
      OBVIOUS
    <3>1. PICK p \in 1 .. Len(q) : o[n] = Entry(q[p], c[q[p]])
      BY <1>9
    <3>. QED BY <3>1 DEF Entry
  <2>. QED BY <1>10, <2>1
<1>13. Lists(o, name, c)
  <2>1. \A n \in 1 .. k : o[n].key = name[n] /\ o[n].val = c[name[n]]
    <3>. SUFFICES ASSUME NEW n \in 1 .. k PROVE o[n].key = name[n] /\ o[n].val = c[name[n]]
      OBVIOUS
    <3>1. PICK p \in 1 .. Len(q) : o[n] = Entry(q[p], c[q[p]])
      BY <1>9
    <3>. QED BY <1>10, <3>1 DEF Entry
  <2>. QED BY <1>6, <1>12, <2>1 DEF Lists
<1>14. ASSUME NEW i \in 1 .. k, NEW j \in 1 .. k, name[i] = name[j] PROVE i = j
  <2>1. PICK p \in 1 .. Len(q) : w[p] = e[i] - 1 /\ o[i] = Entry(q[p], c[q[p]])
    BY <1>9
  <2>2. PICK r \in 1 .. Len(q) : w[r] = e[j] - 1 /\ o[j] = Entry(q[r], c[q[r]])
    BY <1>9
  <2>3. q[p] = q[r]
    BY <1>10, <1>14, <2>1, <2>2 DEF Entry
  <2>4. p = r
    BY <2>3 DEF NoneTwice, Upto
  <2>5. e[i] = e[j]
    BY <1>7, <2>1, <2>2, <2>4
  <2>. QED BY <1>8, <2>5
<1>15. NoneTwice(name, Upto(Len(name)))
  BY <1>12, <1>14 DEF NoneTwice, Upto
<1>16. ToSet(name) \subseteq ToSet(q)
  <2>1. ASSUME NEW i \in 1 .. k PROVE \E p \in 1 .. Len(q) : name[i] = q[p]
    <3>1. PICK p \in 1 .. Len(q) : o[i] = Entry(q[p], c[q[p]])
      BY <1>9
    <3>. QED BY <1>10, <3>1 DEF Entry
  <2>2. DOMAIN name = 1 .. k /\ DOMAIN q = 1 .. Len(q)
    BY <1>10
  <2>. QED BY <2>1, <2>2 DEF ToSet
<1>17. ToSet(q) \subseteq ToSet(name)
  <2>1. ASSUME NEW p \in 1 .. Len(q) PROVE \E i \in 1 .. k : name[i] = q[p]
    <3>1. PICK t \in Spots(C) : t = w[p]
      BY <1>0
    <3>2. m.slot[t] = Entry(q[p], c[q[p]])
      BY <3>1 DEF Lies, Upto
    <3>3. t \in FullSlots(m)
      BY <1>0, <3>2 DEF FullSlots, Entry
    <3>4. t + 1 \in 1 .. C /\ (t + 1) - 1 = t
      BY <1>0 DEF Spots
    <3>5. s[t + 1] = m.slot[t] /\ s[t + 1] \in K
      BY <1>2, <1>3, <3>3, <3>4
    <3>6. PICK i \in 1 .. k : e[i] = t + 1
      BY <1>7, <3>4, <3>5
    <3>7. o[i] = m.slot[t]
      BY <1>7, <3>5, <3>6
    <3>. QED BY <1>10, <3>2, <3>7 DEF Entry
  <2>2. DOMAIN name = 1 .. k /\ DOMAIN q = 1 .. Len(q)
    BY <1>10
  <2>. QED BY <2>1, <2>2 DEF ToSet
<1>. QED BY <1>5, <1>8, <1>11, <1>12, <1>13, <1>15, <1>16, <1>17

-----------------------------------------------------------------------------
(* A removal, on the table unrolled from an empty place: entry n has its   *)
(* home at H[n] and lies at P[n], and the entry x, at P[x], is the gap;    *)
(* what lies up to D has been looked at.                                   *)

Chain(H, P, N, x, D) ==
    /\ \A n, p \in 1 .. N : P[n] = P[p] => n = p
    /\ P[x] <= D
    /\ \A n \in 1 .. N : n # x => H[n] <= P[n]
    /\ \A n \in 1 .. N : n # x => \A t \in Nat :
          t # P[x] /\ H[n] <= t /\ t < P[n] => \E p \in 1 .. N : p < n /\ p # x /\ P[p] = t
    /\ \A n \in 1 .. N : n # x /\ P[x] < P[n] /\ P[n] <= D => P[x] < H[n]

LEMMA ChainGoesOn ==
    ASSUME NEW N \in Nat, NEW H \in [1 .. N -> Nat], NEW P \in [1 .. N -> Nat], NEW x \in 1 .. N, NEW D \in Nat,
           Chain(H, P, N, x, D), NEW e \in 1 .. N, P[e] = D + 1, P[x] < H[e]
    PROVE  Chain(H, P, N, x, D + 1)
<1>1. P[x] \in Nat /\ P[x] <= D
  BY DEF Chain
<1>2. \A n \in 1 .. N : n # x /\ P[x] < P[n] /\ P[n] <= D + 1 => P[x] < H[n]
  <2>. SUFFICES ASSUME NEW n \in 1 .. N, n # x, P[x] < P[n], P[n] <= D + 1 PROVE P[x] < H[n]
    OBVIOUS
  <2>1. P[n] \in Nat
    OBVIOUS
  <2>2. CASE P[n] <= D
    BY <2>2 DEF Chain
  <2>3. CASE P[n] = D + 1
    BY <2>3 DEF Chain
  <2>. QED BY <2>1, <2>2, <2>3
<1>3. P[x] <= D + 1
  BY <1>1
<1>. QED BY <1>2, <1>3 DEF Chain

LEMMA ChainSlides ==
    ASSUME NEW N \in Nat, NEW H \in [1 .. N -> Nat], NEW P \in [1 .. N -> Nat], NEW x \in 1 .. N, NEW D \in Nat,
           Chain(H, P, N, x, D), NEW e \in 1 .. N, P[e] = D + 1, H[e] <= P[x],
           NEW Q \in [1 .. N -> Nat], Q[e] = P[x], Q[x] = D + 1,
           \A n \in 1 .. N : n # e /\ n # x => Q[n] = P[n]
    PROVE  Chain(H, Q, N, x, D + 1)
<1>1. P[x] \in Nat /\ P[x] <= D /\ e # x /\ H[e] \in Nat
  BY DEF Chain
<1>2. \A n \in 1 .. N : P[n] \in Nat /\ H[n] \in Nat
  OBVIOUS
<1>3. \A n, p \in 1 .. N : Q[n] = Q[p] => n = p
  <2>0. \A n, p \in 1 .. N : P[n] = P[p] => n = p
    BY DEF Chain
  <2>. SUFFICES ASSUME NEW n \in 1 .. N, NEW p \in 1 .. N, Q[n] = Q[p], n # p PROVE FALSE
    OBVIOUS
  <2>1. CASE n = e
    <3>1. CASE p = x
      BY <1>1, <1>2, <2>1, <3>1
    <3>2. CASE p # x
      BY <2>0, <2>1, <3>2
    <3>. QED BY <3>1, <3>2
  <2>2. CASE n = x
    <3>1. CASE p = e
      BY <1>1, <1>2, <2>2, <3>1
    <3>2. CASE p # e
      BY <2>0, <2>2, <3>2
    <3>. QED BY <3>1, <3>2
  <2>3. CASE n # e /\ n # x
    BY <2>0, <2>3
  <2>. QED BY <2>1, <2>2, <2>3
<1>4. \A n \in 1 .. N : n # x => H[n] <= Q[n]
  BY <1>1, <1>2 DEF Chain
<1>5. ASSUME NEW n \in 1 .. N, n # x, NEW t \in Nat, t # D + 1, H[n] <= t, t < Q[n]
      PROVE  \E p \in 1 .. N : p < n /\ p # x /\ Q[p] = t
  <2>1. CASE n = e
    <3>1. t < P[e] /\ t # P[x] /\ H[e] <= t
      BY <1>1, <1>5, <2>1
    <3>2. PICK p \in 1 .. N : p < e /\ p # x /\ P[p] = t
      BY <1>1, <3>1 DEF Chain
    <3>3. p # e
      BY <1>2, <3>2
    <3>. QED BY <2>1, <3>2, <3>3
  <2>2. CASE n # e /\ t # P[x]
    <3>1. t < P[n]
      BY <1>5, <2>2
    <3>2. PICK p \in 1 .. N : p < n /\ p # x /\ P[p] = t
      BY <1>5, <2>2, <3>1 DEF Chain
    <3>3. p # e
      BY <1>5, <3>2
    <3>. QED BY <3>2, <3>3
  <2>3. CASE n # e /\ t = P[x]
    <3>1. P[x] < P[n] /\ ~(P[x] < H[n])
      BY <1>1, <1>2, <1>5, <2>3
    <3>2. ~(P[n] <= D)
      BY <1>5, <3>1 DEF Chain
    <3>3. P[n] # P[e]
      BY <2>3 DEF Chain
    <3>4. H[n] <= D + 1 /\ D + 1 < P[n] /\ D + 1 # P[x]
      BY <1>1, <1>2, <1>5, <2>3, <3>2, <3>3
    <3>5. PICK p \in 1 .. N : p < n /\ p # x /\ P[p] = D + 1
      BY <1>5, <3>4 DEF Chain
    <3>6. p = e
      BY <3>5 DEF Chain
    <3>. QED BY <2>3, <3>5, <3>6
  <2>. QED BY <2>1, <2>2, <2>3
<1>6. \A n \in 1 .. N : n # x /\ D + 1 < Q[n] /\ Q[n] <= D + 1 => D + 1 < H[n]
  <2>1. \A n \in 1 .. N : Q[n] \in Nat
    OBVIOUS
  <2>. QED BY <2>1
<1>. QED BY <1>3, <1>4, <1>5, <1>6 DEF Chain

Below(P, N, D) == \A n \in 1 .. N : P[n] <= D

Unbroken(H, P, N, x) ==
    \A n \in 1 .. N : n # x => \A t \in Nat :
        H[n] <= t /\ t < P[n] => \E p \in 1 .. N : p < n /\ p # x /\ P[p] = t

LEMMA ChainEnds ==
    ASSUME NEW N \in Nat, NEW H \in [1 .. N -> Nat], NEW P \in [1 .. N -> Nat], NEW x \in 1 .. N, NEW D \in Nat,
           Chain(H, P, N, x, D), Below(P, N, D)
    PROVE  Unbroken(H, P, N, x)
<1>. SUFFICES ASSUME NEW n \in 1 .. N, n # x, NEW t \in Nat, H[n] <= t, t < P[n]
              PROVE  \E p \in 1 .. N : p < n /\ p # x /\ P[p] = t
  BY DEF Unbroken
<1>1. t # P[x]
  <2>. SUFFICES ASSUME t = P[x] PROVE FALSE
    OBVIOUS
  <2>1. P[x] < H[n]
    BY DEF Chain, Below
  <2>2. P[x] \in Nat /\ H[n] \in Nat
    OBVIOUS
  <2>. QED BY <2>1, <2>2
<1>. QED BY <1>1 DEF Chain

\* Places counted from z.
Pos(C, z, s) == Way(C, z, s)

LEMMA PosIs ==
    ASSUME NEW C \in Nat \ {0}, NEW z \in Spots(C), NEW s \in Spots(C)
    PROVE  /\ Pos(C, z, s) \in Nat /\ Pos(C, z, s) <= C - 1
           /\ Pos(C, z, s) = 0 <=> s = z
           /\ \A t \in Spots(C) : Pos(C, z, s) = Pos(C, z, t) => s = t
<1>1. s \in Nat /\ s < C /\ z \in Nat /\ z < C /\ C \in Nat
  BY DEF Spots
<1>2. \A t \in Spots(C) : Pos(C, z, s) = Pos(C, z, t) => s = t
  BY <1>1 DEF Pos, Way, Spots
<1>. QED BY <1>1, <1>2 DEF Pos, Way

LEMMA WayOfPos ==
    ASSUME NEW C \in Nat \ {0}, NEW z \in Spots(C), NEW a \in Spots(C), NEW b \in Spots(C)
    PROVE  Way(C, a, b) = IF Pos(C, z, b) >= Pos(C, z, a) THEN Pos(C, z, b) - Pos(C, z, a)
                          ELSE Pos(C, z, b) - Pos(C, z, a) + C
BY DEF Pos, Way, Spots

LEMMA PosAhead ==
    ASSUME NEW C \in Nat \ {0}, NEW z \in Spots(C), NEW i \in Spots(C), NEW d \in 0 .. C - 1
    PROVE  /\ (i + d) % C \in Spots(C)
           /\ Pos(C, z, i) + d < C => Pos(C, z, (i + d) % C) = Pos(C, z, i) + d
           /\ Pos(C, z, i) + d = C => (i + d) % C = z
<1>1. d \in Spots(C)
  BY DEF Spots
<1>2. PICK j \in Spots(C) : j = (i + d) % C /\ j = IF i + d < C THEN i + d ELSE i + d - C
  BY <1>1, Ahead
<1>3. i \in Nat /\ i < C /\ z \in Nat /\ z < C /\ C \in Nat /\ d \in Nat /\ d < C
  BY DEF Spots
<1>4. Pos(C, z, i) + d < C => Pos(C, z, j) = Pos(C, z, i) + d
  BY <1>2, <1>3 DEF Pos, Way
<1>5. Pos(C, z, i) + d = C => j = z
  BY <1>2, <1>3 DEF Pos, Way
<1>. QED BY <1>2, <1>4, <1>5

SlideSet(C) == [m : MapSet(C), gap : Spots(C), over : BOOLEAN]
Homes(h, C, q, z) == [n \in 1 .. Len(q) |-> Pos(C, z, Home(h, C, q[n]))]
Places(C, z, v, N) == [n \in 1 .. N |-> Pos(C, z, v[n])]
HeldAt(m, q, x, c, v) == \A n \in 1 .. Len(q) : n # x => m.slot[v[n]] = Entry(q[n], c[q[n]])
Taken(N, v) == {v[n] : n \in 1 .. N}
Bare(m, C, N, v) == \A s \in Spots(C) : s \notin Taken(N, v) => m.slot[s] = EmptySlot

Sliding(h, C, q, x, c, z, w, cnt, D, a, v) ==
    /\ a \in SlideSet(C) /\ a.m.count = cnt /\ v \in [1 .. Len(q) -> Spots(C)] /\ a.gap = v[x]
    /\ HeldAt(a.m, q, x, c, v) /\ Bare(a.m, C, Len(q), v)
    /\ Taken(Len(q), v) = Taken(Len(q), w)
    /\ Chain(Homes(h, C, q, z), Places(C, z, v, Len(q)), Len(q), x, D)

\* One place on.
LEMMA SlideKeeps ==
    ASSUME NEW h, NEW C, IsHash(h, C), NEW q \in Seq(Keys), NEW x \in 1 .. Len(q), NEW c, NEW z \in Spots(C),
           NEW w, NEW cnt, NEW D \in Nat, NEW a, NEW v, ~a.over, Sliding(h, C, q, x, c, z, w, cnt, D, a, v),
           NEW j \in Spots(C), Pos(C, z, j) = D + 1, j \in Taken(Len(q), w)
    PROVE  /\ \E u : Sliding(h, C, q, x, c, z, w, cnt, D + 1, SlideStep(a, h, j), u)
           /\ ~SlideStep(a, h, j).over
<1>0. /\ C \in Nat \ {0} /\ v \in [1 .. Len(q) -> Spots(C)] /\ a \in SlideSet(C) /\ a.m \in MapSet(C)
      /\ a.gap = v[x] /\ a.gap \in Spots(C) /\ a.m.cap = C /\ a.over \in BOOLEAN
  BY DEF IsHash, Sliding, SlideSet, MapSet
<1>1. PICK N \in Nat : N = Len(q)
  OBVIOUS
<1>2. PICK H, P : H = Homes(h, C, q, z) /\ P = Places(C, z, v, N)
  OBVIOUS
<1>3. Chain(H, P, N, x, D)
  BY <1>1, <1>2 DEF Sliding
<1>4. /\ H \in [1 .. N -> Nat] /\ P \in [1 .. N -> Nat]
      /\ \A n \in 1 .. N : P[n] = Pos(C, z, v[n]) /\ H[n] = Pos(C, z, Home(h, C, q[n]))
  <2>1. \A n \in 1 .. N : Pos(C, z, v[n]) \in Nat
    BY <1>0, <1>1, PosIs
  <2>2. \A n \in 1 .. N : Pos(C, z, Home(h, C, q[n])) \in Nat
    <3>. SUFFICES ASSUME NEW n \in 1 .. N PROVE Pos(C, z, Home(h, C, q[n])) \in Nat
      OBVIOUS
    <3>1. q[n] \in Keys
      BY <1>1
    <3>2. Home(h, C, q[n]) \in Spots(C)
      BY <3>1, HomeIn
    <3>. QED BY <1>0, <3>2, PosIs
  <2>. QED BY <1>1, <1>2, <2>1, <2>2 DEF Homes, Places
<1>5. PICK e \in 1 .. N : v[e] = j
  <2>1. j \in Taken(Len(q), v)
    BY DEF Sliding
  <2>. QED BY <1>1, <2>1 DEF Taken
<1>6. P[e] = D + 1 /\ P[x] <= D /\ P[x] \in Nat /\ e # x /\ P[x] = Pos(C, z, a.gap) /\ H[e] \in Nat /\ H[e] <= P[e]
      /\ x \in 1 .. N
  <2>1. x \in 1 .. N
    BY <1>1
  <2>2. P[e] = D + 1 /\ P[x] = Pos(C, z, a.gap) /\ P[x] \in Nat /\ H[e] \in Nat
    BY <1>0, <1>4, <1>5, <2>1
  <2>3. P[x] <= D
    BY <1>3 DEF Chain
  <2>4. e # x
    BY <2>2, <2>3
  <2>5. H[e] <= P[e]
    BY <1>3, <2>4 DEF Chain
  <2>. QED BY <2>1, <2>2, <2>3, <2>4, <2>5
<1>7. PICK k \in Keys : k = q[e]
  BY <1>1
<1>8. a.m.slot[j] = Entry(k, c[k])
  BY <1>1, <1>5, <1>6, <1>7 DEF Sliding, HeldAt
<1>9. a.m.slot[j].full /\ a.m.slot[j].key = k
  BY <1>8 DEF Entry
<1>10. PICK home \in Spots(C) : home = Home(h, C, k) /\ Pos(C, z, home) = H[e]
  BY <1>4, <1>7, HomeIn
<1>11. Slides(a.m, h, a.gap, j) <=> H[e] <= P[x]
  <2>1. Ideal(a.m, h, k) = home
    BY <1>0, <1>10 DEF Ideal, Wrapped, Home
  <2>2. Wrapped(a.m, a.gap - home) = Way(C, home, a.gap) /\ Wrapped(a.m, j - home) = Way(C, home, j)
    BY <1>0, WayIs DEF Wrapped
  <2>3. Slides(a.m, h, a.gap, j) <=> Way(C, home, a.gap) <= Way(C, home, j)
    BY <1>9, <2>1, <2>2 DEF Slides
  <2>4. Way(C, home, j) = P[e] - H[e]
    BY <1>0, <1>4, <1>5, <1>6, <1>10, WayOfPos
  <2>5. Way(C, home, a.gap) = IF P[x] >= H[e] THEN P[x] - H[e] ELSE P[x] - H[e] + C
    BY <1>0, <1>6, <1>10, WayOfPos
  <2>6. P[e] <= C - 1
    <3>1. P[e] = Pos(C, z, j)
      BY <1>4, <1>5
    <3>2. Pos(C, z, j) <= C - 1
      BY <1>0, PosIs
    <3>. QED BY <3>1, <3>2
  <2>. QED BY <1>0, <1>6, <2>3, <2>4, <2>5, <2>6
<1>12. CASE P[x] < H[e]
  <2>1. SlideStep(a, h, j) = a
    BY <1>6, <1>9, <1>11, <1>12 DEF SlideStep
  <2>2. Chain(H, P, N, x, D + 1)
    BY <1>3, <1>4, <1>6, <1>12, ChainGoesOn
  <2>3. Sliding(h, C, q, x, c, z, w, cnt, D + 1, a, v)
    BY <1>1, <1>2, <2>2 DEF Sliding
  <2>. QED BY <2>1, <2>3
<1>13. CASE H[e] <= P[x]
  <2>1. SlideStep(a, h, j) = [a EXCEPT !.m.slot[a.gap] = a.m.slot[j], !.gap = j]
    BY <1>9, <1>11, <1>13 DEF SlideStep
  <2>2. PICK b : b = SlideStep(a, h, j)
    OBVIOUS
  <2>3. PICK f : f = [a.m.slot EXCEPT ![a.gap] = Entry(k, c[k])]
    OBVIOUS
  <2>4. PICK m : m = [a.m EXCEPT !.slot = f]
    OBVIOUS
  <2>5. b = [a EXCEPT !.m = m, !.gap = j]
    BY <1>0, <1>8, <2>1, <2>2, <2>3, <2>4
  <2>6. a.m.slot \in [Spots(C) -> SlotSet] /\ Entry(k, c[k]) \in SlotSet
    <3>1. a.m.slot \in [Spots(C) -> SlotSet]
      BY <1>0 DEF MapSet
    <3>. QED BY <1>8, <3>1
  <2>7. /\ f \in [Spots(C) -> SlotSet] /\ f[a.gap] = Entry(k, c[k])
        /\ \A s \in Spots(C) : s # a.gap => f[s] = a.m.slot[s]
    BY <1>0, <2>3, <2>6
  <2>8. m \in MapSet(C) /\ m.slot = f /\ m.count = a.m.count
    BY <1>0, <2>4, <2>7 DEF MapSet
  <2>9. b \in SlideSet(C) /\ b.m = m /\ b.gap = j /\ b.over = a.over
    BY <1>0, <2>5, <2>8 DEF SlideSet
  <2>10. PICK u : u = [n \in 1 .. N |-> IF n = e THEN a.gap ELSE IF n = x THEN j ELSE v[n]]
    OBVIOUS
  <2>11. /\ u \in [1 .. Len(q) -> Spots(C)] /\ u[e] = a.gap /\ u[x] = j
         /\ \A n \in 1 .. N : n # e /\ n # x => u[n] = v[n]
    BY <1>0, <1>1, <1>6, <2>10
  <2>12. \A n \in 1 .. N : n # x => v[n] # a.gap
    <3>. SUFFICES ASSUME NEW n \in 1 .. N, n # x, v[n] = a.gap PROVE FALSE
      OBVIOUS
    <3>1. P[n] = P[x]
      BY <1>4, <1>6
    <3>. QED BY <1>3, <1>6, <3>1 DEF Chain
  <2>13. HeldAt(m, q, x, c, u)
    <3>. SUFFICES ASSUME NEW n \in 1 .. N, n # x PROVE m.slot[u[n]] = Entry(q[n], c[q[n]])
      BY <1>1 DEF HeldAt
    <3>1. CASE n = e
      BY <1>7, <2>7, <2>8, <2>11, <3>1
    <3>2. CASE n # e
      <4>1. u[n] = v[n] /\ v[n] # a.gap /\ v[n] \in Spots(C)
        BY <1>0, <1>1, <2>11, <2>12, <3>2
      <4>2. a.m.slot[v[n]] = Entry(q[n], c[q[n]])
        BY <1>1 DEF Sliding, HeldAt
      <4>. QED BY <2>7, <2>8, <4>1, <4>2
    <3>. QED BY <3>1, <3>2
  <2>14. Taken(N, u) = Taken(N, v)
    <3>1. ASSUME NEW n \in 1 .. N PROVE \E p \in 1 .. N : v[p] = u[n]
      BY <1>0, <1>5, <1>6, <2>11
    <3>2. ASSUME NEW n \in 1 .. N PROVE \E p \in 1 .. N : u[p] = v[n]
      BY <1>0, <1>5, <1>6, <2>11
    <3>3. Taken(N, u) \subseteq Taken(N, v)
      BY <3>1 DEF Taken
    <3>4. Taken(N, v) \subseteq Taken(N, u)
      BY <3>2 DEF Taken
    <3>. QED BY <3>3, <3>4
  <2>15. Bare(m, C, N, u)
    <3>. SUFFICES ASSUME NEW s \in Spots(C), s \notin Taken(N, v) PROVE m.slot[s] = EmptySlot
      BY <2>14 DEF Bare
    <3>1. s # a.gap
      BY <1>0, <1>6 DEF Taken
    <3>2. a.m.slot[s] = EmptySlot
      BY <1>1 DEF Sliding, Bare
    <3>. QED BY <2>7, <2>8, <3>1, <3>2
  <2>16. PICK Q : Q = Places(C, z, u, N)
    OBVIOUS
  <2>17. Q \in [1 .. N -> Nat] /\ \A n \in 1 .. N : Q[n] = Pos(C, z, u[n])
    <3>1. \A n \in 1 .. N : Pos(C, z, u[n]) \in Nat
      BY <1>0, <1>1, <2>11, PosIs
    <3>. QED BY <2>16, <3>1 DEF Places
  <2>18. Q[e] = P[x] /\ Q[x] = D + 1 /\ \A n \in 1 .. N : n # e /\ n # x => Q[n] = P[n]
    BY <1>4, <1>6, <2>11, <2>17
  <2>19. Chain(H, Q, N, x, D + 1)
    BY <1>3, <1>4, <1>6, <1>13, <2>17, <2>18, ChainSlides
  <2>20. Taken(Len(q), u) = Taken(Len(q), w)
    BY <1>1, <2>14 DEF Sliding
  <2>21. a.m.count = cnt
    BY DEF Sliding
  <2>22. Sliding(h, C, q, x, c, z, w, cnt, D + 1, b, u)
    BY <1>1, <1>2, <2>8, <2>9, <2>11, <2>13, <2>15, <2>16, <2>19, <2>20, <2>21 DEF Sliding
  <2>. QED BY <2>2, <2>9, <2>22
<1>. QED BY <1>6, <1>12, <1>13

\* Before the first place is looked at.
LEMMA SlideStarts ==
    ASSUME NEW h, NEW C, IsHash(h, C), NEW q \in Seq(Keys), NEW x \in 1 .. Len(q), NEW c, NEW z \in Spots(C),
           NEW m, NEW w, Lies(m, h, C, q, Upto(Len(q)), c, w), z \notin Taken(Len(q), w)
    PROVE  Sliding(h, C, q, x, c, z, w, m.count, Pos(C, z, w[x]), [m |-> m, gap |-> w[x], over |-> FALSE], w)
<1>0. /\ C \in Nat \ {0} /\ w \in [1 .. Len(q) -> Spots(C)] /\ m \in MapSet(C)
  BY DEF IsHash, Lies
<1>1. PICK N \in Nat : N = Len(q)
  OBVIOUS
<1>2. PICK H, P : H = Homes(h, C, q, z) /\ P = Places(C, z, w, N)
  OBVIOUS
<1>3. ASSUME NEW n \in 1 .. N
      PROVE  /\ Home(h, C, q[n]) \in Spots(C) /\ w[n] \in Spots(C) /\ w[n] # z
             /\ P[n] = Pos(C, z, w[n]) /\ H[n] = Pos(C, z, Home(h, C, q[n]))
             /\ P[n] \in Nat /\ H[n] \in Nat /\ P[n] # 0 /\ P[n] <= C - 1 /\ H[n] <= C - 1
  <2>1. q[n] \in Keys /\ w[n] \in Spots(C)
    BY <1>0, <1>1
  <2>2. Home(h, C, q[n]) \in Spots(C)
    BY <2>1, HomeIn
  <2>3. P[n] = Pos(C, z, w[n]) /\ H[n] = Pos(C, z, Home(h, C, q[n]))
    BY <1>1, <1>2 DEF Homes, Places
  <2>4. w[n] # z
    BY <1>1 DEF Taken
  <2>5. P[n] \in Nat /\ P[n] # 0 /\ P[n] <= C - 1
    BY <1>0, <2>1, <2>3, <2>4, PosIs
  <2>6. H[n] \in Nat /\ H[n] <= C - 1
    BY <1>0, <2>2, <2>3, PosIs
  <2>. QED BY <2>1, <2>2, <2>3, <2>4, <2>5, <2>6
<1>4. ASSUME NEW n \in 1 .. N, NEW s \in Spots(C),
             Way(C, Home(h, C, q[n]), s) < Way(C, Home(h, C, q[n]), w[n])
      PROVE  \E p \in 1 .. N : p < n /\ w[p] = s
  BY <1>1, <1>4 DEF Lies, Upto
<1>5. \A n, p \in 1 .. N : P[n] = P[p] => n = p
  <2>. SUFFICES ASSUME NEW n \in 1 .. N, NEW p \in 1 .. N, P[n] = P[p] PROVE n = p
    OBVIOUS
  <2>1. w[n] = w[p]
    <3>1. PICK s \in Spots(C), t \in Spots(C) : s = w[n] /\ t = w[p]
      BY <1>3
    <3>2. Pos(C, z, s) = Pos(C, z, t)
      BY <1>3, <3>1
    <3>3. s = t
      BY <1>0, <3>2, PosIs
    <3>. QED BY <3>1, <3>3
  <2>. QED BY <1>1, <2>1 DEF Lies, Upto
<1>6. ASSUME NEW n \in 1 .. N PROVE H[n] <= P[n]
  <2>. SUFFICES ASSUME P[n] < H[n] PROVE FALSE
    BY <1>3
  <2>1. PICK home \in Spots(C), at \in Spots(C) : home = Home(h, C, q[n]) /\ at = w[n]
    BY <1>3
  <2>2. Pos(C, z, home) = H[n] /\ Pos(C, z, at) = P[n] /\ Pos(C, z, z) = 0
    BY <1>0, <1>3, <2>1, PosIs
  <2>3. Way(C, home, at) = P[n] - H[n] + C
    BY <1>0, <1>3, <2>2, WayOfPos
  <2>4. Way(C, home, z) = C - H[n]
    BY <1>0, <1>3, <2>2, WayOfPos
  <2>5. Way(C, home, z) < Way(C, home, at)
    BY <1>0, <1>3, <2>3, <2>4
  <2>6. PICK p \in 1 .. N : w[p] = z
    BY <1>4, <2>1, <2>5
  <2>. QED BY <1>3, <2>6
<1>7. ASSUME NEW n \in 1 .. N, NEW t \in Nat, H[n] <= t, t < P[n]
      PROVE  \E p \in 1 .. N : p < n /\ P[p] = t
  <2>1. PICK home \in Spots(C), at \in Spots(C) : home = Home(h, C, q[n]) /\ at = w[n]
    BY <1>3
  <2>2. Pos(C, z, home) = H[n] /\ Pos(C, z, at) = P[n] /\ Pos(C, z, z) = 0
    BY <1>0, <1>3, <2>1, PosIs
  <2>3. t \in 0 .. C - 1 /\ t < C
    BY <1>0, <1>3, <1>7
  <2>4. PICK s \in Spots(C) : Pos(C, z, s) = t
    BY <1>0, <2>2, <2>3, PosAhead
  <2>5. Way(C, home, at) = P[n] - H[n] /\ Way(C, home, s) = t - H[n]
    BY <1>0, <1>3, <1>6, <1>7, <2>2, <2>4, WayOfPos
  <2>6. Way(C, home, s) < Way(C, home, at)
    BY <1>3, <1>7, <2>5
  <2>7. PICK p \in 1 .. N : p < n /\ w[p] = s
    BY <1>4, <2>1, <2>6
  <2>. QED BY <1>3, <2>4, <2>7
<1>8. x \in 1 .. N /\ P[x] \in Nat /\ P[x] = Pos(C, z, w[x])
  BY <1>1, <1>3
<1>9. \A n \in 1 .. N : ~(P[x] < P[n] /\ P[n] <= P[x])
  BY <1>3, <1>8
<1>10. \A n \in 1 .. N : n # x => \A t \in Nat :
          t # P[x] /\ H[n] <= t /\ t < P[n] => \E p \in 1 .. N : p < n /\ p # x /\ P[p] = t
  BY <1>7
<1>11. P[x] <= P[x]
  BY <1>8
<1>12. Chain(H, P, N, x, P[x])
  BY <1>5, <1>6, <1>9, <1>10, <1>11 DEF Chain
<1>13. HeldAt(m, q, x, c, w) /\ Bare(m, C, N, w)
  <2>1. HeldAt(m, q, x, c, w)
    BY DEF Lies, Upto, HeldAt
  <2>2. Bare(m, C, N, w)
    BY <1>1 DEF Lies, Upto, Bare, Taken
  <2>. QED BY <2>1, <2>2
<1>14. PICK a : a = [m |-> m, gap |-> w[x], over |-> FALSE]
  OBVIOUS
<1>15. a \in SlideSet(C) /\ a.m = m /\ a.gap = w[x]
  BY <1>0, <1>14 DEF SlideSet
<1>16. Sliding(h, C, q, x, c, z, w, m.count, P[x], a, w)
  BY <1>0, <1>1, <1>2, <1>12, <1>13, <1>15 DEF Sliding
<1>. QED BY <1>8, <1>14, <1>16

LEMMA SlideIn ==
    ASSUME NEW C, NEW h, NEW a \in SlideSet(C), NEW j \in Spots(C)
    PROVE  SlideStep(a, h, j) \in SlideSet(C)
<1>1. CASE a.over \/ ~a.m.slot[j].full
  BY <1>1 DEF SlideStep, SlideSet
<1>2. CASE ~(a.over \/ ~a.m.slot[j].full) /\ Slides(a.m, h, a.gap, j)
  <2>1. SlideStep(a, h, j) = [a EXCEPT !.m.slot[a.gap] = a.m.slot[j], !.gap = j]
    BY <1>2 DEF SlideStep
  <2>2. a.m \in MapSet(C) /\ a.gap \in Spots(C) /\ a.m.slot \in [Spots(C) -> SlotSet] /\ a.m.slot[j] \in SlotSet
    BY DEF SlideSet, MapSet
  <2>3. PICK f \in [Spots(C) -> SlotSet] : f = [a.m.slot EXCEPT ![a.gap] = a.m.slot[j]]
    BY <2>2
  <2>4. PICK m \in MapSet(C) : m = [a.m EXCEPT !.slot = f]
    BY <2>2, <2>3 DEF MapSet
  <2>5. SlideStep(a, h, j) = [a EXCEPT !.m = m, !.gap = j]
    BY <2>1, <2>3, <2>4
  <2>. QED BY <2>5 DEF SlideSet
<1>3. CASE ~(a.over \/ ~a.m.slot[j].full) /\ ~Slides(a.m, h, a.gap, j)
  BY <1>3 DEF SlideStep
<1>. QED BY <1>1, <1>2, <1>3

LEMMA SlideOver ==
    ASSUME NEW h, NEW C, NEW q, NEW x, NEW c, NEW z, NEW w, NEW cnt, NEW D, NEW a, NEW v,
           Sliding(h, C, q, x, c, z, w, cnt, D, a, v), NEW j, a.over \/ ~a.m.slot[j].full
    PROVE  Sliding(h, C, q, x, c, z, w, cnt, D, SlideStep(a, h, j), v) /\ SlideStep(a, h, j).over
<1>1. a \in SlideSet(C)
  BY DEF Sliding
<1>2. PICK b : b = [a EXCEPT !.over = TRUE]
  OBVIOUS
<1>3. b \in SlideSet(C) /\ b.m = a.m /\ b.gap = a.gap /\ b.over
  BY <1>1, <1>2 DEF SlideSet
<1>4. SlideStep(a, h, j) = b
  BY <1>2 DEF SlideStep
<1>5. Sliding(h, C, q, x, c, z, w, cnt, D, b, v)
  BY <1>3 DEF Sliding
<1>. QED BY <1>3, <1>4, <1>5

\* The first place after i that is not taken.
LEMMA FirstLeft ==
    ASSUME NEW C \in Nat \ {0}, NEW N \in Nat, N < C, NEW w \in [1 .. N -> Spots(C)], NEW i \in Spots(C)
    PROVE  \E z \in Spots(C) :
              /\ z \notin Taken(N, w)
              /\ \A s \in Spots(C) : Pos(C, z, s) >= Pos(C, z, i) => s \in Taken(N, w) \/ i = z
<1>. DEFINE Left == {s \in Spots(C) : s \notin Taken(N, w)}
            T == {Way(C, i, s) : s \in Left}
<1>1. PICK y \in Left : TRUE
  BY PlaceLeft DEF Taken
<1>2. T \subseteq Nat /\ T # {}
  <2>1. \A s \in Spots(C) : Way(C, i, s) \in Nat
    <3>. SUFFICES ASSUME NEW s \in Spots(C) PROVE Way(C, i, s) \in Nat
      OBVIOUS
    <3>1. Way(C, i, s) \in Spots(C)
      BY WayIs
    <3>. QED BY <3>1 DEF Spots
  <2>. QED BY <1>1, <2>1
<1>3. PICK d \in T : \A e \in T : d <= e
  <2>. HIDE DEF T
  <2>. QED BY <1>2, Least
<1>4. PICK z \in Left : d = Way(C, i, z)
  OBVIOUS
<1>5. ASSUME NEW s \in Spots(C), Pos(C, z, s) >= Pos(C, z, i), s \notin Taken(N, w) PROVE i = z
  <2>1. Way(C, i, z) <= Way(C, i, s)
    BY <1>3, <1>4, <1>5
  <2>. SUFFICES ASSUME i # z PROVE FALSE
    OBVIOUS
  <2>2. Pos(C, z, z) = 0 /\ Pos(C, z, i) \in Nat /\ Pos(C, z, i) # 0 /\ Pos(C, z, s) \in Nat /\ Pos(C, z, s) <= C - 1
    BY PosIs
  <2>3. Way(C, i, z) = C - Pos(C, z, i)
    BY <2>2, WayOfPos
  <2>4. Way(C, i, s) = Pos(C, z, s) - Pos(C, z, i)
    BY <1>5, <2>2, WayOfPos
  <2>. QED BY <2>1, <2>2, <2>3, <2>4
<1>. QED BY <1>5

SlidFrom(m, h, i, f, d) ==
    IF d = 0 THEN [m |-> m, gap |-> i, over |-> FALSE]
    ELSE SlideStep(f[d - 1], h, Wrapped(m, i + d))
AreSlid(m, h, i, f) == f = [d \in 0 .. m.cap - 1 |-> SlidFrom(m, h, i, f, d)]

LEMMA SlidBackIs ==
    ASSUME NEW h, NEW C, IsHash(h, C), NEW m \in MapSet(C), NEW i \in Spots(C)
    PROVE  \E f : /\ SlidBack(m, h, i) = f[C - 1]
                  /\ f[0] = [m |-> m, gap |-> i, over |-> FALSE]
                  /\ \A d \in 1 .. C - 1 : f[d] = SlideStep(f[d - 1], h, (i + d) % C)
<1>0. C \in Nat \ {0} /\ m.cap = C
  BY DEF IsHash, MapSet
<1>1. PICK L \in Nat : L = C - 1
  BY <1>0
<1>2. PICK S : S = SlideSet(C)
  OBVIOUS
<1>3. PICK a \in S : a = [m |-> m, gap |-> i, over |-> FALSE]
  BY <1>2 DEF SlideSet
<1>. DEFINE St(b, d) == SlideStep(b, h, (i + d) % C)
            G == [p \in S \X (1 .. L) |-> St(p[1], p[2])]
<1>4. \A b \in S : \A d \in 1 .. L : St(b, d) \in S
  <2>. SUFFICES ASSUME NEW b \in S, NEW d \in 1 .. L PROVE St(b, d) \in S
    OBVIOUS
  <2>1. d \in Spots(C)
    BY <1>0, <1>1 DEF Spots
  <2>2. (i + d) % C \in Spots(C)
    BY <1>0, <2>1, Ahead
  <2>. QED BY <1>2, <2>2, SlideIn
<1>. HIDE DEF St
<1>5. G \in [S \X (1 .. L) -> S] /\ \A b \in S : \A d \in 1 .. L : G[<<b, d>>] = St(b, d)
  BY <1>4
<1>. HIDE DEF G
<1>6. PICK g \in [0 .. L -> S] : Iterates(G, a, L, g)
  BY <1>5, IterationExists
<1>7. AreSlid(m, h, i, g)
  <2>1. ASSUME NEW d \in 0 .. L PROVE g[d] = SlidFrom(m, h, i, g, d)
    <3>1. CASE d = 0
      BY <1>3, <1>6, <3>1 DEF Iterates, SlidFrom
    <3>2. CASE d # 0
      <4>1. d \in 1 .. L /\ d - 1 \in 0 .. L
        BY <3>2
      <4>2. g[d] = St(g[d - 1], d)
        BY <1>5, <1>6, <4>1 DEF Iterates
      <4>3. Wrapped(m, i + d) = (i + d) % C
        BY <1>0 DEF Wrapped
      <4>. QED BY <3>2, <4>2, <4>3 DEF SlidFrom, St
    <3>. QED BY <3>1, <3>2
  <2>2. g = [d \in 0 .. L |-> g[d]]
    OBVIOUS
  <2>. QED BY <1>0, <1>1, <2>1, <2>2 DEF AreSlid
<1>8. PICK f : f = CHOOSE t : AreSlid(m, h, i, t)
  OBVIOUS
<1>9. SlidBack(m, h, i) = f[C - 1]
  BY <1>0, <1>8 DEF SlidBack, AreSlid, SlidFrom
<1>10. AreSlid(m, h, i, f)
  BY <1>7, <1>8
<1>11. \A d \in 0 .. L : f[d] = SlidFrom(m, h, i, f, d)
  BY <1>0, <1>1, <1>10 DEF AreSlid
<1>12. f[0] = [m |-> m, gap |-> i, over |-> FALSE]
  <2>1. 0 \in 0 .. L
    OBVIOUS
  <2>. QED BY <1>11, <2>1 DEF SlidFrom
<1>13. ASSUME NEW d \in 1 .. C - 1 PROVE f[d] = SlideStep(f[d - 1], h, (i + d) % C)
  <2>1. d \in 0 .. L /\ d # 0
    BY <1>1
  <2>2. Wrapped(m, i + d) = (i + d) % C
    BY <1>0 DEF Wrapped
  <2>. QED BY <1>11, <2>1, <2>2 DEF SlidFrom
<1>. QED BY <1>9, <1>12, <1>13

\* The whole of it: it stops at the first place that was not taken, with every entry looked at.
LEMMA SlidesAll ==
    ASSUME NEW h, NEW C, IsHash(h, C), NEW q \in Seq(Keys), NEW x \in 1 .. Len(q), NEW c, NEW m, NEW w,
           Lies(m, h, C, q, Upto(Len(q)), c, w), Len(q) < C
    PROVE  \E z \in Spots(C) : \E v : Sliding(h, C, q, x, c, z, w, m.count, C - 1, SlidBack(m, h, w[x]), v)
<1>0. /\ C \in Nat \ {0} /\ C \in Nat /\ Len(q) \in Nat /\ w \in [1 .. Len(q) -> Spots(C)] /\ m \in MapSet(C)
  BY DEF IsHash, Lies
<1>1. PICK i \in Spots(C) : i = w[x]
  BY <1>0
<1>2. PICK z \in Spots(C) : /\ z \notin Taken(Len(q), w)
                            /\ \A s \in Spots(C) : Pos(C, z, s) >= Pos(C, z, i) => s \in Taken(Len(q), w) \/ i = z
  BY <1>0, FirstLeft
<1>3. i \in Taken(Len(q), w) /\ i # z
  BY <1>1, <1>2 DEF Taken
<1>4. PICK I \in Nat : I = Pos(C, z, i) /\ I # 0 /\ I <= C - 1
  BY <1>0, <1>3, PosIs
<1>5. PICK f : /\ SlidBack(m, h, i) = f[C - 1]
               /\ f[0] = [m |-> m, gap |-> i, over |-> FALSE]
               /\ \A d \in 1 .. C - 1 : f[d] = SlideStep(f[d - 1], h, (i + d) % C)
  BY <1>0, SlidBackIs
<1>. DEFINE Is(D, b) == \E v : Sliding(h, C, q, x, c, z, w, m.count, D, b, v)
            Good(d) == /\ I + d < C => Is(I + d, f[d]) /\ ~f[d].over
                       /\ I + d >= C => Is(C - 1, f[d]) /\ f[d].over
            T == {d \in 0 .. C - 1 : ~Good(d)}
<1>6. ASSUME T # {} PROVE FALSE
  <2>1. PICK d \in T : \A k \in T : d <= k
    <3>1. T \subseteq Nat
      BY <1>0
    <3>. HIDE DEF T
    <3>. QED BY <1>6, <3>1, Least
  <2>2. d \in 0 .. C - 1 /\ ~Good(d) /\ d \in Nat
    BY <1>0
  <2>0. d \in 0 .. C - 1 /\ d \in Nat
    BY <2>2
  <2>3. CASE d = 0
    <3>1. Sliding(h, C, q, x, c, z, w, m.count, I, f[0], w)
      BY <1>1, <1>2, <1>4, <1>5, SlideStarts
    <3>2. Is(I + 0, f[0]) /\ ~f[0].over /\ I + 0 < C
      <4>1. I + 0 = I /\ I < C
        BY <1>0, <1>4
      <4>. QED BY <1>5, <3>1, <4>1
    <3>3. Good(0)
      <4>1. ~(I + 0 >= C)
        BY <1>0, <3>2
      <4>. HIDE DEF Is
      <4>. QED BY <3>2, <4>1
    <3>. QED BY <2>2, <2>3, <3>3
  <2>4. CASE d # 0
    <3>1. d - 1 \in 0 .. C - 1 /\ d - 1 \notin T /\ d \in 1 .. C - 1
      <4>1. d - 1 \in 0 .. C - 1 /\ d \in 1 .. C - 1 /\ d - 1 \in Nat /\ ~(d <= d - 1)
        BY <1>0, <2>0, <2>4
      <4>. HIDE DEF T
      <4>. QED BY <2>1, <4>1
    <3>2. Good(d - 1)
      BY <3>1
    <3>3. PICK j \in Spots(C) : j = (i + d) % C
      BY <1>0, <2>2, PosAhead
    <3>4. f[d] = SlideStep(f[d - 1], h, j)
      BY <1>5, <3>1, <3>3
    <3>5. PICK a : a = f[d - 1]
      OBVIOUS
    <3>6. CASE I + d < C
      <4>1. I + (d - 1) < C /\ (I + (d - 1)) + 1 = I + d /\ I + (d - 1) \in Nat /\ I + d >= I /\ ~(I + d >= C)
        BY <1>0, <1>4, <2>2, <2>4, <3>6
      <4>2. PICK v : Sliding(h, C, q, x, c, z, w, m.count, I + (d - 1), a, v)
        BY <3>2, <3>5, <4>1
      <4>3. ~a.over
        BY <3>2, <3>5, <4>1
      <4>4. Pos(C, z, j) = I + d
        BY <1>0, <1>4, <2>2, <3>3, <3>6, PosAhead
      <4>5. j \in Taken(Len(q), w)
        BY <1>2, <1>3, <1>4, <4>1, <4>4
      <4>6. PICK D \in Nat : D = I + (d - 1) /\ D + 1 = I + d
        BY <4>1
      <4>7. (\E u : Sliding(h, C, q, x, c, z, w, m.count, D + 1, SlideStep(a, h, j), u)) /\ ~SlideStep(a, h, j).over
        BY <4>2, <4>3, <4>4, <4>5, <4>6, SlideKeeps
      <4>8. Is(I + d, f[d]) /\ ~f[d].over
        BY <3>4, <3>5, <4>6, <4>7
      <4>9. Good(d)
        <5>. HIDE DEF Is
        <5>. QED BY <4>1, <4>8
      <4>. QED BY <2>2, <4>9
    <3>7. CASE I + d >= C
      <4>1. PICK v : Sliding(h, C, q, x, c, z, w, m.count, C - 1, a, v) /\ (a.over \/ ~a.m.slot[j].full)
        <5>1. CASE I + d = C
          <6>1. I + (d - 1) < C /\ I + (d - 1) = C - 1
            BY <1>0, <1>4, <2>0, <5>1
          <6>2. PICK v : Sliding(h, C, q, x, c, z, w, m.count, C - 1, a, v)
            BY <3>2, <3>5, <6>1
          <6>3. j = z
            BY <1>0, <1>4, <2>2, <3>3, <5>1, PosAhead
          <6>4. a.m.slot[z] = EmptySlot
            BY <1>2, <6>2 DEF Sliding, Bare
          <6>. QED BY <6>2, <6>3, <6>4 DEF EmptySlot
        <5>2. CASE I + d # C
          <6>0. PICK y \in Nat : y = I + d
            BY <2>0
          <6>a. y >= C /\ y # C /\ I + (d - 1) = y - 1
            BY <2>0, <3>7, <5>2, <6>0
          <6>1. I + (d - 1) >= C
            BY <1>0, <6>a
          <6>. QED BY <3>2, <3>5, <6>1
        <5>. QED BY <5>1, <5>2
      <4>2. Sliding(h, C, q, x, c, z, w, m.count, C - 1, SlideStep(a, h, j), v) /\ SlideStep(a, h, j).over
        BY <4>1, SlideOver
      <4>3. Is(C - 1, f[d]) /\ f[d].over
        BY <3>4, <3>5, <4>2
      <4>4. ~(I + d < C)
        BY <1>0, <1>4, <2>2, <3>7
      <4>5. Good(d)
        <5>. HIDE DEF Is
        <5>. QED BY <4>3, <4>4
      <4>. QED BY <2>2, <4>5
    <3>. QED BY <1>0, <1>4, <2>2, <3>6, <3>7
  <2>. QED BY <2>3, <2>4
<1>7. C - 1 \in 0 .. C - 1 /\ I + (C - 1) >= C
  BY <1>0, <1>4
<1>8. Good(C - 1)
  BY <1>6, <1>7
<1>9. Is(C - 1, f[C - 1])
  BY <1>7, <1>8
<1>. QED BY <1>1, <1>5, <1>9

But(N, x) == {n \in 1 .. N : n # x}

LEMMA RemovedLies ==
    ASSUME NEW h, NEW C, IsHash(h, C), NEW q \in Seq(Keys), NoneTwice(q, Upto(Len(q))), Len(q) < C,
           NEW x \in 1 .. Len(q), NEW c, NEW m, NEW w, Lies(m, h, C, q, Upto(Len(q)), c, w), m.count = Len(q)
    PROVE  /\ \E v : Lies(MapRemove(m, h, q[x]), h, C, q, But(Len(q), x), c, v)
           /\ MapRemove(m, h, q[x]).count = Len(q) - 1
<1>0. /\ C \in Nat \ {0} /\ C \in Nat /\ w \in [1 .. Len(q) -> Spots(C)] /\ m \in MapSet(C) /\ q[x] \in Keys
  BY DEF IsHash, Lies
<1>1. PICK N \in Nat : N = Len(q)
  OBVIOUS
<1>2. PICK k \in Keys : k = q[x]
  BY <1>0
<1>3. PICK i \in Spots(C) : i = Probe(m, h, k) /\ i = w[x]
  <2>1. PICK J : J = Upto(Len(q)) /\ Within(J, q) /\ x \in J
    BY DEF Upto, Within
  <2>2. Lies(m, h, C, q, J, c, w) /\ NoneTwice(q, J)
    BY <2>1
  <2>3. Probe(m, h, k) \in Spots(C) /\ \A n \in J : q[n] = k => Probe(m, h, k) = w[n]
    BY <2>1, <2>2, ProbeTells
  <2>. QED BY <1>2, <2>1, <2>3
<1>4. m.slot[i].full
  <2>1. m.slot[i] = Entry(q[x], c[q[x]])
    BY <1>3 DEF Lies, Upto
  <2>. QED BY <2>1 DEF Entry
<1>5. PICK end : end = SlidBack(m, h, i)
  OBVIOUS
<1>60. PICK z \in Spots(C) : \E v : Sliding(h, C, q, x, c, z, w, m.count, C - 1, end, v)
  BY <1>3, <1>5, SlidesAll
<1>6. PICK v : Sliding(h, C, q, x, c, z, w, m.count, C - 1, end, v)
  BY <1>60
<1>7. /\ end \in SlideSet(C) /\ end.m \in MapSet(C) /\ end.m.count = N /\ end.gap \in Spots(C) /\ end.gap = v[x]
      /\ v \in [1 .. Len(q) -> Spots(C)] /\ end.m.slot \in [Spots(C) -> SlotSet]
  <2>1. /\ end \in SlideSet(C) /\ end.m.count = N /\ end.gap = v[x] /\ v \in [1 .. Len(q) -> Spots(C)]
    BY <1>1, <1>6 DEF Sliding
  <2>2. end.m \in MapSet(C) /\ end.gap \in Spots(C)
    BY <2>1 DEF SlideSet
  <2>3. end.m.slot \in [Spots(C) -> SlotSet]
    BY <2>2 DEF MapSet
  <2>. QED BY <2>1, <2>2, <2>3
<1>8. PICK r : r = MapRemove(m, h, k)
  OBVIOUS
<1>9. r = [end.m EXCEPT !.slot[end.gap] = EmptySlot, !.count = @ - 1]
  BY <1>3, <1>4, <1>5, <1>8 DEF MapRemove
<1>10. /\ r \in MapSet(C) /\ r.count = N - 1 /\ r.slot[end.gap] = EmptySlot
       /\ \A s \in Spots(C) : s # end.gap => r.slot[s] = end.m.slot[s]
  <2>1. PICK N1 \in Nat : N1 = N - 1
    BY <1>1
  <2>2. EmptySlot \in SlotSet
    BY DEF EmptySlot, SlotSet, Stored
  <2>3. PICK f \in [Spots(C) -> SlotSet] : f = [end.m.slot EXCEPT ![end.gap] = EmptySlot]
    BY <1>7, <2>2
  <2>4. f[end.gap] = EmptySlot /\ \A s \in Spots(C) : s # end.gap => f[s] = end.m.slot[s]
    BY <1>7, <2>3
  <2>5. r = [end.m EXCEPT !.slot = f, !.count = N1]
    BY <1>7, <1>9, <2>1, <2>3
  <2>6. r \in MapSet(C) /\ r.slot = f /\ r.count = N1
    BY <1>7, <2>5 DEF MapSet
  <2>. QED BY <2>1, <2>4, <2>6
<1>11. PICK H, P : H = Homes(h, C, q, z) /\ P = Places(C, z, v, N)
  OBVIOUS
<1>12. Chain(H, P, N, x, C - 1)
  BY <1>1, <1>6, <1>11 DEF Sliding
<1>13. ASSUME NEW n \in 1 .. N
       PROVE  /\ Home(h, C, q[n]) \in Spots(C) /\ v[n] \in Spots(C)
              /\ P[n] = Pos(C, z, v[n]) /\ H[n] = Pos(C, z, Home(h, C, q[n]))
              /\ P[n] \in Nat /\ H[n] \in Nat /\ P[n] <= C - 1
  <2>1. q[n] \in Keys /\ v[n] \in Spots(C)
    BY <1>1, <1>7
  <2>2. Home(h, C, q[n]) \in Spots(C)
    BY <2>1, HomeIn
  <2>3. P[n] = Pos(C, z, v[n]) /\ H[n] = Pos(C, z, Home(h, C, q[n]))
    BY <1>1, <1>11 DEF Homes, Places
  <2>4. P[n] \in Nat /\ P[n] <= C - 1
    BY <1>0, <2>1, <2>3, PosIs
  <2>5. H[n] \in Nat
    BY <1>0, <2>2, <2>3, PosIs
  <2>. QED BY <2>1, <2>2, <2>3, <2>4, <2>5
<1>14. \A n, p \in 1 .. N : v[n] = v[p] => n = p
  BY <1>12, <1>13 DEF Chain
<1>15. H \in [1 .. N -> Nat] /\ P \in [1 .. N -> Nat]
  <2>1. DOMAIN H = 1 .. N /\ DOMAIN P = 1 .. N /\ H = [n \in 1 .. N |-> H[n]] /\ P = [n \in 1 .. N |-> P[n]]
    BY <1>1, <1>11 DEF Homes, Places
  <2>. QED BY <1>13, <2>1
<1>16. ASSUME NEW n \in 1 .. N, n # x PROVE r.slot[v[n]] = Entry(q[n], c[q[n]])
  <2>1. v[n] # end.gap
    BY <1>1, <1>7, <1>14, <1>16
  <2>2. end.m.slot[v[n]] = Entry(q[n], c[q[n]])
    BY <1>1, <1>6, <1>16 DEF Sliding, HeldAt
  <2>. QED BY <1>10, <1>13, <2>1, <2>2
<1>17. ASSUME NEW s \in Spots(C), \A n \in 1 .. N : n # x => v[n] # s PROVE r.slot[s] = EmptySlot
  <2>1. CASE s = end.gap
    BY <1>10, <2>1
  <2>2. CASE s # end.gap
    <3>1. s \notin Taken(N, v)
      BY <1>7, <1>17, <2>2 DEF Taken
    <3>2. end.m.slot[s] = EmptySlot
      BY <1>1, <1>6, <3>1 DEF Sliding, Bare
    <3>. QED BY <1>10, <2>2, <3>2
  <2>. QED BY <2>1, <2>2
<1>18. ASSUME NEW n \in 1 .. N, n # x, NEW s \in Spots(C),
              Way(C, Home(h, C, q[n]), s) < Way(C, Home(h, C, q[n]), v[n])
       PROVE  \E p \in 1 .. N : p < n /\ p # x /\ v[p] = s
  <2>1. PICK home \in Spots(C), at \in Spots(C) : home = Home(h, C, q[n]) /\ at = v[n]
    BY <1>13
  <2>2. Pos(C, z, home) = H[n] /\ Pos(C, z, at) = P[n] /\ H[n] <= P[n] /\ H[n] \in Nat /\ P[n] \in Nat /\ P[n] <= C - 1
    BY <1>12, <1>13, <1>18, <2>1 DEF Chain
  <2>3. PICK t \in Nat : t = Pos(C, z, s)
    BY <1>0, PosIs
  <2>4. Way(C, home, at) = P[n] - H[n]
    BY <2>2, <1>0, WayOfPos
  <2>5. Way(C, home, s) = IF t >= H[n] THEN t - H[n] ELSE t - H[n] + C
    BY <1>0, <2>2, <2>3, WayOfPos
  <2>6. H[n] <= t /\ t < P[n]
    BY <1>0, <1>18, <2>1, <2>2, <2>3, <2>4, <2>5
  <2>7. PICK D \in Nat : D = C - 1
    BY <1>0
  <2>8. Chain(H, P, N, x, D) /\ Below(P, N, D) /\ x \in 1 .. N
    BY <1>1, <1>12, <1>13, <2>7 DEF Below
  <2>9. PICK p \in 1 .. N : p < n /\ p # x /\ P[p] = t
    <3>1. n # x
      BY <1>18
    <3>2. Unbroken(H, P, N, x)
      BY <1>15, <2>8, ChainEnds
    <3>. QED BY <2>6, <3>1, <3>2 DEF Unbroken
  <2>10. v[p] = s
    <3>1. PICK u \in Spots(C) : u = v[p] /\ Pos(C, z, u) = t
      BY <1>13, <2>9
    <3>2. u = s
      <4>1. Pos(C, z, u) = Pos(C, z, s)
        BY <2>3, <3>1
      <4>2. \A a \in Spots(C) : Pos(C, z, u) = Pos(C, z, a) => u = a
        BY <1>0, PosIs
      <4>. QED BY <4>1, <4>2
    <3>. QED BY <3>1, <3>2
  <2>. QED BY <2>9, <2>10
<1>19. Lies(r, h, C, q, But(N, x), c, v)
  <2>1. PICK I : I = But(N, x)
    OBVIOUS
  <2>2. \A n : n \in I <=> n \in 1 .. N /\ n # x
    BY <2>1 DEF But
  <2>3. \A n, p \in I : v[n] = v[p] => n = p
    BY <1>14, <2>2
  <2>4. \A n \in I : r.slot[v[n]] = Entry(q[n], c[q[n]])
    BY <1>16, <2>2
  <2>5. \A s \in Spots(C) : (\A n \in I : v[n] # s) => r.slot[s] = EmptySlot
    BY <1>17, <2>2
  <2>6. \A n \in I : \A s \in Spots(C) :
           Way(C, Home(h, C, q[n]), s) < Way(C, Home(h, C, q[n]), v[n]) =>
              \E p \in I : p < n /\ v[p] = s
    BY <1>18, <2>2
  <2>. QED BY <1>7, <1>10, <2>1, <2>3, <2>4, <2>5, <2>6 DEF Lies
<1>. QED BY <1>1, <1>2, <1>8, <1>10, <1>19

\* The keys of K alone, counted anew.
KeptAt(q, K) == {n \in 1 .. Len(q) : q[n] \in K}

SameOn(o, d, c) == \A n \in 1 .. Len(o) : d[o[n]] = c[o[n]]

LEMMA Thinned ==
    ASSUME NEW h, NEW C, NEW q \in Seq(Keys), NEW K, NEW c, NEW m, NEW w, Lies(m, h, C, q, KeptAt(q, K), c, w),
           NEW o \in Seq(Keys), NEW e, Picks(q, K, Len(q), o, e),
           NEW d, SameOn(o, d, c)
    PROVE  \E u : Lies(m, h, C, o, Upto(Len(o)), d, u)
<1>0. /\ m \in MapSet(C) /\ w \in [1 .. Len(q) -> Spots(C)]
  BY DEF Lies
<1>1. PICK k \in Nat, l \in Nat : k = Len(o) /\ l = Len(q)
  OBVIOUS
<1>2. /\ e \in [1 .. k -> 1 .. l]
      /\ \A i \in 1 .. k : o[i] = q[e[i]] /\ e[i] \in KeptAt(q, K)
      /\ \A i, j \in 1 .. k : i < j => e[i] < e[j]
      /\ \A p \in KeptAt(q, K) : \E i \in 1 .. k : e[i] = p
  <2>1. /\ e \in [1 .. k -> 1 .. l]
        /\ \A i \in 1 .. k : o[i] = q[e[i]] /\ q[e[i]] \in K
        /\ \A i, j \in 1 .. k : i < j => e[i] < e[j]
        /\ \A p \in 1 .. l : q[p] \in K => \E i \in 1 .. k : e[i] = p
    BY <1>1 DEF Picks
  <2>. QED BY <1>1, <2>1 DEF KeptAt
<1>3. PICK J : J = KeptAt(q, K)
  OBVIOUS
<1>4. PICK u : u = [i \in 1 .. k |-> w[e[i]]]
  OBVIOUS
<1>5. u \in [1 .. Len(o) -> Spots(C)] /\ \A i \in 1 .. k : u[i] = w[e[i]]
  BY <1>0, <1>1, <1>2, <1>4
<1>6. \A i, j \in 1 .. k : e[i] = e[j] => i = j
  BY <1>2, Distinct
<1>7. \A i, j \in 1 .. k : u[i] = u[j] => i = j
  <2>. SUFFICES ASSUME NEW i \in 1 .. k, NEW j \in 1 .. k, u[i] = u[j] PROVE i = j
    OBVIOUS
  <2>1. w[e[i]] = w[e[j]] /\ e[i] \in J /\ e[j] \in J
    BY <1>2, <1>3, <1>5
  <2>2. e[i] = e[j]
    BY <1>3, <2>1 DEF Lies
  <2>. QED BY <1>6, <2>2
<1>8. \A i \in 1 .. k : m.slot[u[i]] = Entry(o[i], d[o[i]])
  <2>. SUFFICES ASSUME NEW i \in 1 .. k PROVE m.slot[u[i]] = Entry(o[i], d[o[i]])
    OBVIOUS
  <2>1. m.slot[w[e[i]]] = Entry(q[e[i]], c[q[e[i]]])
    BY <1>2 DEF Lies
  <2>. QED BY <1>1, <1>2, <1>5, <2>1 DEF SameOn
<1>9. ASSUME NEW s \in Spots(C), \A i \in 1 .. k : u[i] # s PROVE m.slot[s] = EmptySlot
  <2>1. ASSUME NEW p \in J PROVE w[p] # s
    <3>1. PICK i \in 1 .. k : e[i] = p
      BY <1>2, <1>3
    <3>. QED BY <1>5, <1>9, <3>1
  <2>. QED BY <1>3, <2>1 DEF Lies
<1>10. ASSUME NEW i \in 1 .. k, NEW s \in Spots(C),
              Way(C, Home(h, C, o[i]), s) < Way(C, Home(h, C, o[i]), u[i])
       PROVE  \E j \in 1 .. k : j < i /\ u[j] = s
  <2>1. PICK n \in J : n = e[i] /\ o[i] = q[n] /\ u[i] = w[n]
    BY <1>2, <1>3, <1>5
  <2>2. Way(C, Home(h, C, q[n]), s) < Way(C, Home(h, C, q[n]), w[n])
    BY <1>10, <2>1
  <2>3. PICK p \in J : p < n /\ w[p] = s
    BY <1>3, <2>2 DEF Lies
  <2>4. PICK j \in 1 .. k : e[j] = p
    BY <1>2, <1>3, <2>3
  <2>5. u[j] = s
    BY <1>5, <2>3, <2>4
  <2>6. j < i
    <3>. SUFFICES ASSUME i <= j PROVE FALSE
      OBVIOUS
    <3>1. e[i] \in Nat /\ e[j] \in Nat /\ e[j] < e[i]
      BY <1>2, <2>1, <2>3, <2>4
    <3>2. i = j \/ i < j
      OBVIOUS
    <3>. QED BY <1>2, <3>1, <3>2
  <2>. QED BY <2>5, <2>6
<1>11. Lies(m, h, C, o, Upto(k), d, u)
  BY <1>0, <1>5, <1>7, <1>8, <1>9, <1>10 DEF Lies, Upto
<1>. QED BY <1>1, <1>11

LEMMA KeptCount ==
    ASSUME NEW S, NEW q \in Seq(S), NEW K, NEW o \in Seq(S), NEW e, Picks(q, K, Len(q), o, e)
    PROVE  Cardinality(KeptAt(q, K)) = Len(o)
<1>1. PICK k \in Nat, l \in Nat : k = Len(o) /\ l = Len(q)
  OBVIOUS
<1>2. /\ e \in [1 .. k -> 1 .. l]
      /\ \A i \in 1 .. k : q[e[i]] \in K
      /\ \A i, j \in 1 .. k : i < j => e[i] < e[j]
      /\ \A p \in 1 .. l : q[p] \in K => \E i \in 1 .. k : e[i] = p
  BY <1>1 DEF Picks
<1>3. \A i, j \in 1 .. k : e[i] = e[j] => i = j
  BY <1>2, Distinct
<1>4. e \in [1 .. k -> KeptAt(q, K)]
  BY <1>1, <1>2 DEF KeptAt
<1>5. \A p \in KeptAt(q, K) : \E i \in 1 .. k : e[i] = p
  BY <1>1, <1>2 DEF KeptAt
<1>6. e \in Bijection(1 .. k, KeptAt(q, K))
  BY <1>3, <1>4, <1>5 DEF Bijection, Injection, IsInjective, Surjection
<1>7. IsFiniteSet(1 .. k) /\ Cardinality(1 .. k) = k
  BY FS_Interval
<1>8. ExistsBijection(1 .. k, KeptAt(q, K))
  BY <1>6 DEF ExistsBijection
<1>9. Cardinality(KeptAt(q, K)) = Cardinality(1 .. k)
  BY <1>7, <1>8, FS_Bijection
<1>. QED BY <1>1, <1>7, <1>9

-----------------------------------------------------------------------------
(* A map under puts and removes: its keys in the order q, their values c.  *)

Sound(h, m, q, c) ==
    /\ h \in [Keys -> Nat] /\ IsCap(m.cap)
    /\ q \in Seq(Keys) /\ NoneTwice(q, Upto(Len(q))) /\ Values(q, c)
    /\ m.count = Len(q) /\ Len(q) * 4 <= m.cap * 3
    /\ \E w : Lies(m, h, m.cap, q, Upto(Len(q)), c, w)

LEMMA SoundIs ==
    ASSUME NEW h, NEW m, NEW q, NEW c, Sound(h, m, q, c)
    PROVE  /\ IsHash(h, m.cap) /\ m \in MapSet(m.cap) /\ Len(q) < m.cap /\ m.cap \in Nat /\ m.cap >= 2
           /\ Len(q) \in Nat /\ Within(Upto(Len(q)), q)
<1>1. h \in [Keys -> Nat] /\ m.cap \in Nat /\ m.cap >= 2 /\ Len(q) \in Nat /\ Len(q) * 4 <= m.cap * 3
  BY DEF Sound, IsCap
<1>2. Len(q) < m.cap
  BY <1>1
<1>3. m \in MapSet(m.cap)
  BY DEF Sound, Lies
<1>. QED BY <1>1, <1>2, <1>3 DEF IsHash, Within, Upto

LEMMA SoundEmpty ==
    ASSUME NEW h \in [Keys -> Nat], NEW n \in Nat, NEW c
    PROVE  Sound(h, EmptyMap(n), <<>>, c)
<1>1. PICK a \in Nat : a = (IF n < 2 THEN 2 ELSE n) /\ a >= 2
  OBVIOUS
<1>2. PICK C : C = RoundPow2(a) /\ IsCap(C)
  BY <1>1, RoundIsCap
<1>3. C \in Nat /\ C >= 2 /\ RoundPow2(C) = C
  BY <1>2 DEF IsCap
<1>4. EmptyMap(n) = EmptyMap(C)
  BY <1>1, <1>2, <1>3 DEF EmptyMap
<1>5. /\ EmptyMap(C) \in MapSet(C) /\ EmptyMap(C).count = 0 /\ EmptyMap(C).cap = C
      /\ \A s \in Spots(C) : EmptyMap(C).slot[s] = EmptySlot
  BY <1>2, EmptyIs DEF MapSet
<1>6. PICK q \in Seq(Keys) : q = <<>> /\ Len(q) = 0
  <2>1. <<>> \in Seq(Keys) /\ Len(<<>>) = 0
    OBVIOUS
  <2>. QED BY <2>1
<1>7. Upto(Len(q)) = {}
  BY <1>6 DEF Upto
<1>8. PICK w : w = [i \in 1 .. Len(q) |-> 0]
  OBVIOUS
<1>9. w \in [1 .. Len(q) -> Spots(C)]
  BY <1>3, <1>6, <1>8 DEF Spots
<1>10. Lies(EmptyMap(C), h, C, q, {}, c, w)
  BY <1>5, <1>9 DEF Lies
<1>11. NoneTwice(q, {}) /\ Values(q, c)
  BY <1>6 DEF NoneTwice, Values
<1>12. Sound(h, EmptyMap(C), q, c)
  <2>1. Len(q) * 4 <= C * 3
    BY <1>3, <1>6
  <2>. QED BY <1>2, <1>5, <1>6, <1>7, <1>10, <1>11, <2>1 DEF Sound
<1>. QED BY <1>4, <1>6, <1>12

LEMMA SoundHas ==
    ASSUME NEW h, NEW m, NEW q, NEW c, Sound(h, m, q, c), NEW k \in Keys
    PROVE  /\ MapHas(m, h, k) = (k \in ToSet(q))
           /\ k \in ToSet(q) => MapGet(m, h, k) = c[k]
<1>0. /\ IsHash(h, m.cap) /\ m \in MapSet(m.cap) /\ Len(q) < m.cap /\ Within(Upto(Len(q)), q)
  BY SoundIs
<1>1. q \in Seq(Keys) /\ NoneTwice(q, Upto(Len(q)))
  BY DEF Sound
<1>2. PICK C, J, w : C = m.cap /\ J = Upto(Len(q)) /\ Lies(m, h, C, q, J, c, w)
  BY DEF Sound
<1>3. PICK i : i = Probe(m, h, k)
  OBVIOUS
<1>4. /\ i \in Spots(C)
      /\ \A n \in J : q[n] = k => i = w[n]
      /\ (\A n \in J : q[n] # k) => \A n \in J : w[n] # i
  BY <1>0, <1>1, <1>2, <1>3, ProbeTells
<1>5. k \in ToSet(q) <=> \E n \in J : q[n] = k
  <2>1. DOMAIN q = J
    BY <1>1, <1>2 DEF Upto
  <2>. QED BY <2>1 DEF ToSet
<1>6. CASE k \in ToSet(q)
  <2>1. PICK n \in J : q[n] = k
    BY <1>5, <1>6
  <2>2. m.slot[i] = Entry(k, c[k])
    BY <1>2, <1>4, <2>1 DEF Lies
  <2>3. m.slot[i].full = TRUE /\ m.slot[i].val = c[k]
    BY <2>2 DEF Entry
  <2>4. (k \in ToSet(q)) = TRUE
    BY <1>6
  <2>. QED BY <1>3, <2>3, <2>4 DEF MapHas, MapGet
<1>7. CASE k \notin ToSet(q)
  <2>1. \A n \in J : w[n] # i
    BY <1>4, <1>5, <1>7
  <2>2. m.slot[i] = EmptySlot
    BY <1>2, <1>4, <2>1 DEF Lies
  <2>3. m.slot[i].full = FALSE
    BY <2>2 DEF EmptySlot
  <2>4. (k \in ToSet(q)) = FALSE
    BY <1>7
  <2>. QED BY <1>3, <1>7, <2>3, <2>4 DEF MapHas
<1>. QED BY <1>6, <1>7

LEMMA SoundRefilled ==
    ASSUME NEW h, NEW m, NEW q, NEW c, Sound(h, m, q, c)
    PROVE  m = Refilled(m.cap, h, [n \in DOMAIN q |-> [key |-> q[n], val |-> c[q[n]]]])
<1>0. /\ IsHash(h, m.cap) /\ Len(q) < m.cap /\ Within(Upto(Len(q)), q)
  BY SoundIs
<1>1. /\ q \in Seq(Keys) /\ NoneTwice(q, Upto(Len(q))) /\ IsCap(m.cap) /\ Values(q, c) /\ m.count = Len(q)
  BY DEF Sound
<1>2. PICK C, J, w : C = m.cap /\ J = Upto(Len(q)) /\ Lies(m, h, C, q, J, c, w)
  BY DEF Sound
<1>3. PICK E : E = [n \in DOMAIN q |-> [key |-> q[n], val |-> c[q[n]]]]
  OBVIOUS
<1>4. Lists(E, q, c)
  <2>1. DOMAIN q = 1 .. Len(q) /\ Len(q) \in Nat
    BY <1>1
  <2>2. Len(E) = Len(q)
    BY <1>3, <2>1
  <2>. QED BY <1>3, <2>1, <2>2 DEF Lists
<1>5. PICK r : r = Refilled(C, h, E)
  OBVIOUS
<1>6. (\E u : Lies(r, h, C, q, J, c, u)) /\ r.count = Len(q)
  BY <1>0, <1>1, <1>2, <1>4, <1>5, RefilledLies
<1>7. PICK u : Lies(r, h, C, q, J, c, u)
  BY <1>6
<1>8. m = r
  BY <1>0, <1>1, <1>2, <1>6, <1>7, OneTable
<1>. QED BY <1>2, <1>3, <1>5, <1>8

LEMMA SoundRewritten ==
    ASSUME NEW h, NEW m, NEW q, NEW c, Sound(h, m, q, c), NEW k \in Keys, k \in ToSet(q),
           NEW d, d[k] \in Stored, \A j \in ToSet(q) : j # k => d[j] = c[j]
    PROVE  Sound(h, MapPut(m, h, k, d[k]), q, d)
<1>0. /\ IsHash(h, m.cap) /\ m \in MapSet(m.cap) /\ Len(q) < m.cap /\ Within(Upto(Len(q)), q)
  BY SoundIs
<1>1. /\ q \in Seq(Keys) /\ NoneTwice(q, Upto(Len(q))) /\ IsCap(m.cap) /\ Values(q, c) /\ m.count = Len(q)
      /\ h \in [Keys -> Nat] /\ Len(q) * 4 <= m.cap * 3
  BY DEF Sound
<1>2. PICK C, J, w : C = m.cap /\ J = Upto(Len(q)) /\ Lies(m, h, C, q, J, c, w)
  BY DEF Sound
<1>3. DOMAIN q = J /\ J = 1 .. Len(q)
  BY <1>1, <1>2 DEF Upto
<1>4. PICK x \in J : q[x] = k
  BY <1>3 DEF ToSet
<1>5. \A n \in J : n # x => d[q[n]] = c[q[n]]
  <2>. SUFFICES ASSUME NEW n \in J, n # x PROVE d[q[n]] = c[q[n]]
    OBVIOUS
  <2>1. q[n] # q[x]
    BY <1>1, <1>2 DEF NoneTwice
  <2>2. q[n] \in ToSet(q)
    BY <1>3 DEF ToSet
  <2>. QED BY <1>4, <2>1, <2>2
<1>6. PICK r : r = Placed(m, h, k, d[k])
  OBVIOUS
<1>7. Lies(r, h, C, q, J, d, w) /\ r.count = m.count
  <2>1. /\ IsHash(h, C) /\ Within(J, q) /\ Lies(m, h, C, q, J, c, w) /\ NoneTwice(q, J) /\ Len(q) < C
        /\ d[q[x]] \in Stored
    BY <1>0, <1>1, <1>2, <1>4
  <2>2. /\ Lies(Placed(m, h, q[x], d[q[x]]), h, C, q, J, d, w)
        /\ Placed(m, h, q[x], d[q[x]]).count = m.count
    BY <1>1, <1>5, <2>1, PlacedOld
  <2>. QED BY <1>4, <1>6, <2>2
<1>8. MapPut(m, h, k, d[k]) = r
  <2>1. MapHas(m, h, k) = (k \in ToSet(q))
    BY SoundHas
  <2>. QED BY <1>6, <2>1 DEF MapPut, NeedsGrowth
<1>9. r.cap = m.cap
  BY <1>2, <1>7 DEF Lies, MapSet
<1>10. Values(q, d)
  <2>. SUFFICES ASSUME NEW n \in 1 .. Len(q) PROVE d[q[n]] \in Stored
    BY DEF Values
  <2>1. CASE n = x
    BY <1>4, <2>1
  <2>2. CASE n # x
    BY <1>1, <1>3, <1>5, <2>2 DEF Values
  <2>. QED BY <2>1, <2>2
<1>11. Sound(h, r, q, d)
  BY <1>1, <1>2, <1>7, <1>9, <1>10 DEF Sound
<1>. QED BY <1>8, <1>11

\* A key that was not there, in a table with room.
LEMMA FreshLies ==
    ASSUME NEW h, NEW C, IsHash(h, C), IsCap(C), NEW m, NEW q \in Seq(Keys), NEW c, NEW w,
           NoneTwice(q, Upto(Len(q))), Values(q, c), m.count = Len(q), (Len(q) + 1) * 4 <= C * 3,
           Lies(m, h, C, q, Upto(Len(q)), c, w), NEW k \in Keys, k \notin ToSet(q),
           NEW d, d[k] \in Stored, \A j \in ToSet(q) : d[j] = c[j]
    PROVE  Sound(h, Placed(m, h, k, d[k]), q \o <<k>>, d)
<1>1. PICK N \in Nat : N = Len(q)
  OBVIOUS
<1>2. PICK r \in Seq(Keys) : /\ r = q \o <<k>> /\ Len(r) = N + 1 /\ r[N + 1] = k
                             /\ \A n \in 1 .. N : r[n] = q[n]
  <2>1. PICK r : r = q \o <<k>>
    OBVIOUS
  <2>2. r \in Seq(Keys) /\ Len(r) = N + 1
    BY <1>1, <2>1
  <2>3. r[N + 1] = k /\ \A n \in 1 .. N : r[n] = q[n]
    BY <1>1, <2>1
  <2>. QED BY <2>1, <2>2, <2>3
<1>3. PICK J : J = Upto(N)
  OBVIOUS
<1>4. DOMAIN q = J /\ J = 1 .. N
  BY <1>1, <1>3 DEF Upto
<1>5. C \in Nat /\ C >= 2 /\ N + 1 < C /\ h \in [Keys -> Nat]
  BY <1>1 DEF IsCap, IsHash
<1>6. \A n \in J : q[n] \in ToSet(q) /\ q[n] # k /\ r[n] = q[n] /\ d[q[n]] = c[q[n]]
  BY <1>2, <1>4 DEF ToSet
<1>7. PICK v : v = [n \in 1 .. N + 1 |-> IF n = N + 1 THEN 0 ELSE w[n]]
  OBVIOUS
<1>8. v \in [1 .. Len(r) -> Spots(C)] /\ \A n \in J : v[n] = w[n]
  <2>1. w \in [1 .. N -> Spots(C)] /\ 0 \in Spots(C)
    BY <1>1, <1>5 DEF Lies, Spots
  <2>2. \A n \in 1 .. N + 1 : n # N + 1 => n \in 1 .. N
    BY <1>1
  <2>. QED BY <1>2, <1>4, <1>7, <2>1, <2>2
<1>9. Lies(m, h, C, r, J, d, v)
  BY <1>1, <1>3, <1>6, <1>8, LiesSame
<1>10. PICK x \in 1 .. Len(r) : x = N + 1 /\ r[x] = k
  BY <1>1, <1>2
<1>11. Within(J, r) /\ NoneTwice(r, J) /\ Beyond(x, r, J) /\ Upto(N + 1) = With(J, x)
  <2>1. Within(J, r)
    BY <1>1, <1>2, <1>4 DEF Within
  <2>2. NoneTwice(r, J)
    BY <1>1, <1>3, <1>6 DEF NoneTwice
  <2>3. Beyond(x, r, J)
    <3>1. \A n \in J : n < x
      BY <1>1, <1>4, <1>10
    <3>. QED BY <1>6, <1>10, <3>1 DEF Beyond
  <2>4. Upto(N + 1) = With(J, x)
    BY <1>1, <1>4, <1>10 DEF Upto, With
  <2>. QED BY <2>1, <2>2, <2>3, <2>4
<1>12. PICK p : p = Placed(m, h, k, d[k])
  OBVIOUS
<1>13. PICK K : K = Upto(N + 1)
  OBVIOUS
<1>14. (\E u : Lies(p, h, C, r, K, d, u)) /\ p.count = N + 1
  <2>1. Len(r) < C /\ d[r[x]] \in Stored /\ K = With(J, x)
    BY <1>2, <1>5, <1>10, <1>11, <1>13
  <2>2. /\ \E u : Lies(Placed(m, h, r[x], d[r[x]]), h, C, r, K, d, u)
        /\ Placed(m, h, r[x], d[r[x]]).count = m.count + 1
    BY <1>9, <1>11, <2>1, PlacedNew
  <2>. QED BY <1>1, <1>10, <1>12, <2>2
<1>15. p.cap = C
  BY <1>14 DEF Lies, MapSet
<1>16. NoneTwice(r, K)
  <2>. SUFFICES ASSUME NEW i \in 1 .. N + 1, NEW j \in 1 .. N + 1, r[i] = r[j] PROVE i = j
    BY <1>13 DEF NoneTwice, Upto
  <2>1. \A n \in 1 .. N + 1 : n = N + 1 \/ n \in J
    BY <1>1, <1>4
  <2>2. CASE i \in J /\ j \in J
    BY <1>11, <2>2 DEF NoneTwice
  <2>. QED BY <1>2, <1>6, <2>1, <2>2
<1>17. Values(r, d)
  <2>. SUFFICES ASSUME NEW n \in 1 .. N + 1 PROVE d[r[n]] \in Stored
    BY <1>2 DEF Values
  <2>1. CASE n = N + 1
    BY <1>2, <2>1
  <2>2. CASE n # N + 1
    <3>1. n \in J /\ n \in 1 .. Len(q)
      BY <1>1, <1>4, <2>2
    <3>2. c[q[n]] \in Stored
      BY <3>1 DEF Values
    <3>. QED BY <1>6, <3>1, <3>2
  <2>. QED BY <2>1, <2>2
<1>18. Sound(h, p, r, d)
  <2>1. Len(r) * 4 <= p.cap * 3 /\ p.count = Len(r) /\ K = Upto(Len(r))
    BY <1>1, <1>2, <1>13, <1>14, <1>15
  <2>. QED BY <1>5, <1>14, <1>15, <1>16, <1>17, <2>1 DEF Sound
<1>. QED BY <1>2, <1>12, <1>18

LEMMA SetOfJoined ==
    ASSUME NEW S, NEW q \in Seq(S), NEW k \in S
    PROVE  ToSet(q \o <<k>>) = ToSet(q) \cup {k}
<1>1. PICK N \in Nat : N = Len(q) /\ DOMAIN q = 1 .. N
  OBVIOUS
<1>2. PICK r : r = q \o <<k>>
  OBVIOUS
<1>3. r \in Seq(S) /\ Len(r) = N + 1 /\ DOMAIN r = 1 .. N + 1
  BY <1>1, <1>2
<1>4. r[N + 1] = k /\ \A n \in 1 .. N : r[n] = q[n]
  BY <1>1, <1>2
<1>5. \A n \in 1 .. N + 1 : n = N + 1 \/ n \in 1 .. N
  BY <1>1
<1>6. N + 1 \in 1 .. N + 1 /\ \A n \in 1 .. N : n \in 1 .. N + 1
  BY <1>1
<1>7. ToSet(r) \subseteq ToSet(q) \cup {k}
  BY <1>1, <1>3, <1>4, <1>5 DEF ToSet
<1>8. ToSet(q) \cup {k} \subseteq ToSet(r)
  BY <1>1, <1>3, <1>4, <1>6 DEF ToSet
<1>. QED BY <1>2, <1>7, <1>8

\* What a put of a new key leaves of the other keys.
Joins(h, m, q, k, o) == o = (IF NeedsGrowth(m, h, k) THEN KeysOf(m) ELSE q) \o <<k>>
Carries(q, c, d) == \A j \in ToSet(q) : d[j] = c[j]

\* A put of a key that was not there, which may rehash.
LEMMA SoundExtended ==
    ASSUME NEW h, NEW m, NEW q, NEW c, Sound(h, m, q, c), NEW k \in Keys, k \notin ToSet(q),
           NEW d, d[k] \in Stored, Carries(q, c, d), NEW o, Joins(h, m, q, k, o)
    PROVE  Sound(h, MapPut(m, h, k, d[k]), o, d) /\ ToSet(o) = ToSet(q) \cup {k}
<1>. \A j \in ToSet(q) : d[j] = c[j]
  BY DEF Carries
<1>0. /\ IsHash(h, m.cap) /\ m \in MapSet(m.cap) /\ Len(q) < m.cap /\ m.cap \in Nat /\ m.cap >= 2 /\ Len(q) \in Nat
  BY SoundIs
<1>1. /\ q \in Seq(Keys) /\ NoneTwice(q, Upto(Len(q))) /\ IsCap(m.cap) /\ Values(q, c) /\ m.count = Len(q)
      /\ h \in [Keys -> Nat]
  BY DEF Sound
<1>2. PICK C, w : C = m.cap /\ Lies(m, h, C, q, Upto(Len(q)), c, w)
  BY DEF Sound
<1>3. ~MapHas(m, h, k)
  <2>1. MapHas(m, h, k) = (k \in ToSet(q))
    BY SoundHas
  <2>. QED BY <2>1
<1>4. CASE NeedsGrowth(m, h, k)
  <2>1. PICK p : p = KeysOf(m)
    OBVIOUS
  <2>2. /\ p \in Seq(Keys) /\ Len(p) <= C /\ NoneTwice(p, Upto(Len(p))) /\ Lists(Entries(m), p, c)
        /\ ToSet(p) = ToSet(q)
    BY <1>0, <1>1, <1>2, <2>1, EntriesTell
  <2>3. PICK B \in Nat : B = 2 * C /\ IsCap(B) /\ Len(p) \in Nat /\ Len(p) < B /\ (Len(p) + 1) * 4 <= B * 3
    <3>1. C \in Nat /\ C >= 2 /\ Len(p) \in Nat /\ IsCap(C)
      BY <1>0, <1>1, <1>2, <2>2
    <3>2. IsCap(2 * C)
      BY <3>1, TwiceIsCap
    <3>. QED BY <2>2, <3>1, <3>2
  <2>4. IsHash(h, B)
    BY <1>1, <2>3 DEF IsHash, IsCap
  <2>5. Values(p, c)
    <3>. SUFFICES ASSUME NEW n \in 1 .. Len(p) PROVE c[p[n]] \in Stored
      BY DEF Values
    <3>1. p[n] \in ToSet(p)
      BY <2>2 DEF ToSet
    <3>2. PICK i \in 1 .. Len(q) : q[i] = p[n]
      <4>1. p[n] \in ToSet(q) /\ DOMAIN q = 1 .. Len(q)
        BY <1>1, <2>2, <3>1
      <4>. QED BY <4>1 DEF ToSet
    <3>. QED BY <1>1, <3>2 DEF Values
  <2>6. PICK g : g = Refilled(B, h, Entries(m))
    OBVIOUS
  <2>7. (\E u : Lies(g, h, B, p, Upto(Len(p)), c, u)) /\ g.count = Len(p)
    BY <2>2, <2>3, <2>4, <2>5, <2>6, RefilledLies
  <2>8. PICK u : Lies(g, h, B, p, Upto(Len(p)), c, u)
    BY <2>7
  <2>9. k \notin ToSet(p) /\ \A j \in ToSet(p) : d[j] = c[j]
    BY <2>2
  <2>10. Sound(h, Placed(g, h, k, d[k]), p \o <<k>>, d)
    BY <2>2, <2>3, <2>4, <2>5, <2>7, <2>8, <2>9, FreshLies
  <2>11. MapPut(m, h, k, d[k]) = Placed(g, h, k, d[k])
    BY <1>2, <1>4, <2>3, <2>6 DEF MapPut, Grown
  <2>12. o = p \o <<k>>
    BY <1>4, <2>1 DEF Joins
  <2>13. ToSet(p \o <<k>>) = ToSet(p) \cup {k}
    BY <2>2, SetOfJoined
  <2>. QED BY <2>2, <2>10, <2>11, <2>12, <2>13
<1>5. CASE ~NeedsGrowth(m, h, k)
  <2>1. (Len(q) + 1) * 4 <= C * 3
    <3>1. ~((m.count + 1) * 4 > m.cap * 3)
      BY <1>3, <1>5 DEF NeedsGrowth
    <3>. QED BY <1>0, <1>1, <1>2, <3>1
  <2>2. Sound(h, Placed(m, h, k, d[k]), q \o <<k>>, d)
    BY <1>0, <1>1, <1>2, <2>1, FreshLies
  <2>3. MapPut(m, h, k, d[k]) = Placed(m, h, k, d[k])
    BY <1>5 DEF MapPut
  <2>4. ToSet(q \o <<k>>) = ToSet(q) \cup {k}
    BY <1>1, SetOfJoined
  <2>. QED BY <1>5, <2>2, <2>3, <2>4 DEF Joins
<1>. QED BY <1>4, <1>5

LEMMA SoundThinned ==
    ASSUME NEW h, NEW m, NEW q, NEW c, Sound(h, m, q, c), NEW k \in Keys,
           NEW d, \A j \in ToSet(q) : j # k => d[j] = c[j],
           NEW o, o = Only(q, Keys \ {k})
    PROVE  Sound(h, MapRemove(m, h, k), o, d) /\ ToSet(o) = ToSet(q) \ {k}
<1>0. /\ IsHash(h, m.cap) /\ m \in MapSet(m.cap) /\ Len(q) < m.cap /\ m.cap \in Nat /\ m.cap >= 2 /\ Len(q) \in Nat
      /\ Within(Upto(Len(q)), q)
  BY SoundIs
<1>1. /\ q \in Seq(Keys) /\ NoneTwice(q, Upto(Len(q))) /\ IsCap(m.cap) /\ Values(q, c) /\ m.count = Len(q)
      /\ h \in [Keys -> Nat] /\ Len(q) * 4 <= m.cap * 3
  BY DEF Sound
<1>2. PICK C, w : C = m.cap /\ Lies(m, h, C, q, Upto(Len(q)), c, w)
  BY DEF Sound
<1>3. PICK N \in Nat : N = Len(q) /\ DOMAIN q = 1 .. N
  BY <1>1
<1>4. PICK K : K = Keys \ {k}
  OBVIOUS
<1>5. PICK e : o \in Seq(Keys) /\ Picks(q, K, Len(q), o, e)
  BY <1>1, <1>4, OnlyFacts
<1>6. PICK l \in Nat : l = Len(o) /\ DOMAIN o = 1 .. l
  BY <1>5
<1>7. /\ e \in [1 .. l -> 1 .. N]
      /\ \A i \in 1 .. l : o[i] = q[e[i]] /\ q[e[i]] \in K
      /\ \A i, j \in 1 .. l : i < j => e[i] < e[j]
      /\ \A p \in 1 .. N : q[p] \in K => \E i \in 1 .. l : e[i] = p
  BY <1>3, <1>5, <1>6 DEF Picks
<1>8. ToSet(o) = ToSet(q) \ {k}
  <2>1. ASSUME NEW i \in 1 .. l PROVE o[i] # k /\ \E p \in 1 .. N : q[p] = o[i]
    BY <1>4, <1>7
  <2>2. ASSUME NEW p \in 1 .. N, q[p] # k PROVE \E i \in 1 .. l : o[i] = q[p]
    <3>1. q[p] \in K
      BY <1>1, <1>3, <1>4, <2>2
    <3>2. PICK i \in 1 .. l : e[i] = p
      BY <1>7, <3>1
    <3>. QED BY <1>7, <3>2
  <2>3. ToSet(o) \subseteq ToSet(q) \ {k}
    <3>. SUFFICES ASSUME NEW y \in ToSet(o) PROVE y \in ToSet(q) \ {k}
      OBVIOUS
    <3>1. PICK i \in 1 .. l : y = o[i]
      BY <1>6 DEF ToSet
    <3>2. y # k /\ \E p \in 1 .. N : q[p] = y
      BY <2>1, <3>1
    <3>. QED BY <1>3, <3>2 DEF ToSet
  <2>4. ToSet(q) \ {k} \subseteq ToSet(o)
    <3>. SUFFICES ASSUME NEW y \in ToSet(q), y # k PROVE y \in ToSet(o)
      OBVIOUS
    <3>1. PICK p \in 1 .. N : y = q[p]
      BY <1>3 DEF ToSet
    <3>2. \E i \in 1 .. l : o[i] = y
      BY <2>2, <3>1
    <3>. QED BY <1>6, <3>2 DEF ToSet
  <2>. QED BY <2>3, <2>4
<1>9. \A i \in 1 .. l : o[i] \in ToSet(o)
  BY <1>6 DEF ToSet
<1>10. \A i \in 1 .. l : d[o[i]] = c[o[i]]
  BY <1>8, <1>9
<1>11. \A i, j \in 1 .. l : e[i] = e[j] => i = j
  BY <1>7, Distinct
<1>12. NoneTwice(o, Upto(Len(o)))
  <2>. SUFFICES ASSUME NEW i \in 1 .. l, NEW j \in 1 .. l, o[i] = o[j] PROVE i = j
    BY <1>6 DEF NoneTwice, Upto
  <2>1. q[e[i]] = q[e[j]] /\ e[i] \in 1 .. N /\ e[j] \in 1 .. N
    BY <1>7
  <2>2. e[i] = e[j]
    BY <1>1, <1>3, <2>1 DEF NoneTwice, Upto
  <2>. QED BY <1>11, <2>2
<1>13. Values(o, d)
  <2>. SUFFICES ASSUME NEW i \in 1 .. l PROVE d[o[i]] \in Stored
    BY <1>6 DEF Values
  <2>1. e[i] \in 1 .. N /\ o[i] = q[e[i]]
    BY <1>7
  <2>2. c[q[e[i]]] \in Stored
    BY <1>1, <1>3, <2>1 DEF Values
  <2>. QED BY <1>10, <2>1, <2>2
<1>14. Cardinality(KeptAt(q, K)) = l
  BY <1>1, <1>5, <1>6, KeptCount
<1>15. PICK r : r = MapRemove(m, h, k)
  OBVIOUS
<1>16. IsFiniteSet(1 .. N) /\ Cardinality(1 .. N) = N
  BY FS_Interval
<1>17. (\E v : Lies(r, h, C, q, KeptAt(q, K), c, v)) /\ r.count = l
  <2>1. CASE k \in ToSet(q)
    <3>1. PICK x \in 1 .. Len(q) : q[x] = k
      BY <1>3, <2>1 DEF ToSet
    <3>2. /\ \E v : Lies(MapRemove(m, h, q[x]), h, C, q, But(Len(q), x), c, v)
          /\ MapRemove(m, h, q[x]).count = Len(q) - 1
      BY <1>0, <1>1, <1>2, RemovedLies
    <3>3. KeptAt(q, K) = But(N, x)
      <4>1. ASSUME NEW n \in 1 .. N PROVE q[n] \in K <=> n # x
        <5>1. q[n] = k <=> n = x
          BY <1>1, <1>3, <3>1 DEF NoneTwice, Upto
        <5>2. q[n] \in Keys
          BY <1>1, <1>3
        <5>. QED BY <1>4, <5>1, <5>2
      <4>. QED BY <1>3, <4>1 DEF KeptAt, But
    <3>4. But(N, x) = (1 .. N) \ {x}
      BY DEF But
    <3>5. Cardinality((1 .. N) \ {x}) = N - 1
      <4>1. x \in 1 .. N
        BY <1>3
      <4>2. PICK S : S = 1 .. N
        OBVIOUS
      <4>3. IsFiniteSet(S) /\ Cardinality(S) = N
        BY <1>16, <4>2
      <4>4. Cardinality(S \ {x}) = N - 1
        <5>1. Cardinality(S \ {x}) = IF x \in S THEN Cardinality(S) - 1 ELSE Cardinality(S)
          BY <4>3, FS_RemoveElement
        <5>. QED BY <4>1, <4>2, <4>3, <5>1
      <4>. QED BY <4>2, <4>4
    <3>6. l = N - 1
      BY <1>14, <3>3, <3>4, <3>5
    <3>. QED BY <1>3, <1>15, <3>1, <3>2, <3>3, <3>6
  <2>2. CASE k \notin ToSet(q)
    <3>1. MapHas(m, h, k) = (k \in ToSet(q))
      BY SoundHas
    <3>2. ~m.slot[Probe(m, h, k)].full
      BY <2>2, <3>1 DEF MapHas
    <3>3. r = m
      BY <1>15, <3>2 DEF MapRemove
    <3>4. KeptAt(q, K) = 1 .. N
      <4>1. \A n \in 1 .. N : q[n] \in ToSet(q) /\ q[n] \in Keys
        BY <1>1, <1>3 DEF ToSet
      <4>. QED BY <1>3, <1>4, <2>2, <4>1 DEF KeptAt
    <3>5. l = N
      BY <1>14, <1>16, <3>4
    <3>6. KeptAt(q, K) = Upto(Len(q))
      BY <1>3, <3>4 DEF Upto
    <3>. QED BY <1>1, <1>2, <1>3, <3>3, <3>5, <3>6
  <2>. QED BY <2>1, <2>2
<1>18. PICK v : Lies(r, h, C, q, KeptAt(q, K), c, v)
  BY <1>17
<1>19. \E u : Lies(r, h, C, o, Upto(Len(o)), d, u)
  <2>1. SameOn(o, d, c)
    BY <1>6, <1>10 DEF SameOn
  <2>. QED BY <1>1, <1>5, <1>18, <2>1, Thinned
<1>20. r.cap = C
  BY <1>18 DEF Lies, MapSet
<1>21. l <= N
  BY <1>7, Distinct
<1>22. Len(o) * 4 <= r.cap * 3
  BY <1>0, <1>1, <1>2, <1>3, <1>6, <1>20, <1>21
<1>23. Sound(h, r, o, d)
  BY <1>1, <1>2, <1>5, <1>6, <1>12, <1>13, <1>17, <1>19, <1>20, <1>22 DEF Sound
<1>. QED BY <1>8, <1>15, <1>23

-----------------------------------------------------------------------------
(* The sorted map.                                                         *)

Ranges(n) == (0 .. n) \X (0 .. n)
Middle(r) == r[1] + (r[2] - r[1]) \div 2

\* c is where a predicate that holds of a beginning of 0 .. n - 1 stops.
Cuts(n, P, c) == \A i \in 0 .. n - 1 : i \in P <=> i < c

LEMMA CutExists ==
    ASSUME NEW n \in Nat, NEW P, \A i, j \in 0 .. n - 1 : i < j /\ j \in P => i \in P
    PROVE  \E c \in 0 .. n : Cuts(n, P, c)
<1>. DEFINE T == {k \in 0 .. n : k = n \/ k \notin P}
<1>1. PICK c \in T : \A m \in T : c <= m
  <2>1. T \subseteq Nat /\ n \in T
    OBVIOUS
  <2>. HIDE DEF T
  <2>. QED BY <2>1, Least
<1>2. \A i \in 0 .. n - 1 : i \in P <=> i < c
  <2>. SUFFICES ASSUME NEW i \in 0 .. n - 1 PROVE i \in P <=> i < c
    OBVIOUS
  <2>1. CASE i < c
    <3>1. i \notin T
      BY <1>1, <2>1
    <3>. QED BY <2>1, <3>1
  <2>2. CASE c <= i
    <3>1. c \in 0 .. n - 1 /\ c \notin P
      BY <1>1, <2>2
    <3>. QED BY <2>2, <3>1
  <2>. QED BY <1>1, <2>1, <2>2
<1>. QED BY <1>1, <1>2 DEF Cuts

\* A search of n places, each telling whether to go on above it: the place where those that do end.
IsSearch(n, P, f) ==
    f = [r \in Ranges(n) |->
            IF r[1] >= r[2] THEN r[1]
            ELSE IF Middle(r) \in P THEN f[<<Middle(r) + 1, r[2]>>] ELSE f[<<r[1], Middle(r)>>]]

\* c, or the end of the range that is nearer.
Clamped(c, lo, hi) == IF lo >= hi \/ c < lo THEN lo ELSE IF c > hi THEN hi ELSE c

LEMMA MiddleIs ==
    ASSUME NEW n \in Nat, NEW lo \in 0 .. n, NEW hi \in 0 .. n, lo < hi
    PROVE  /\ Middle(<<lo, hi>>) \in lo .. hi - 1
           /\ <<lo, hi>> \in Ranges(n) /\ <<lo, Middle(<<lo, hi>>)>> \in Ranges(n)
           /\ <<Middle(<<lo, hi>>) + 1, hi>> \in Ranges(n)
<1>. DEFINE half == (hi - lo) \div 2
            mid == lo + half
<1>1. hi - lo \in Nat /\ lo \in Nat /\ hi \in Nat
  OBVIOUS
<1>2. half \in Nat /\ 2 * half <= hi - lo
  BY <1>1
<1>. HIDE DEF half
<1>3. mid \in lo .. hi - 1 /\ mid \in 0 .. n /\ mid + 1 \in 0 .. n
  BY <1>1, <1>2
<1>4. Middle(<<lo, hi>>) = mid
  BY DEF Middle, half
<1>. QED BY <1>3, <1>4 DEF Ranges

LEMMA SearchFinds ==
    ASSUME NEW n \in Nat, NEW P, NEW c \in 0 .. n, \A i \in 0 .. n - 1 : i \in P <=> i < c
    PROVE  (\E f : IsSearch(n, P, f)) /\ \A f : IsSearch(n, P, f) => f[<<0, n>>] = c
<1>. DEFINE g == [r \in Ranges(n) |-> Clamped(c, r[1], r[2])]
<1>1. ASSUME NEW lo \in 0 .. n, NEW hi \in 0 .. n, lo < hi
      PROVE  Clamped(c, lo, hi) = IF Middle(<<lo, hi>>) \in P
                                  THEN Clamped(c, Middle(<<lo, hi>>) + 1, hi)
                                  ELSE Clamped(c, lo, Middle(<<lo, hi>>))
  <2>1. PICK mid \in lo .. hi - 1 : mid = Middle(<<lo, hi>>)
    BY <1>1, MiddleIs
  <2>2. mid \in P <=> mid < c
    BY <2>1
  <2>3. lo \in Nat /\ hi \in Nat /\ mid \in Nat /\ c \in Nat
    BY <2>1
  <2>4. CASE mid < c
    BY <1>1, <2>1, <2>2, <2>3, <2>4 DEF Clamped
  <2>5. CASE c <= mid
    BY <1>1, <2>1, <2>2, <2>3, <2>5 DEF Clamped
  <2>. QED BY <2>3, <2>4, <2>5
<1>2. IsSearch(n, P, g)
  <2>. DEFINE step(r) == IF r[1] >= r[2] THEN r[1]
                         ELSE IF Middle(r) \in P THEN g[<<Middle(r) + 1, r[2]>>] ELSE g[<<r[1], Middle(r)>>]
  <2>1. ASSUME NEW r \in Ranges(n) PROVE Clamped(c, r[1], r[2]) = step(r)
    <3>1. PICK lo \in 0 .. n, hi \in 0 .. n : r = <<lo, hi>>
      BY DEF Ranges
    <3>2. r[1] = lo /\ r[2] = hi
      BY <3>1
    <3>3. CASE lo >= hi
      BY <3>2, <3>3 DEF Clamped
    <3>4. CASE lo < hi
      <4>1. <<Middle(r) + 1, hi>> \in Ranges(n) /\ <<lo, Middle(r)>> \in Ranges(n)
        BY <3>1, <3>4, MiddleIs
      <4>2. g[<<Middle(r) + 1, hi>>] = Clamped(c, Middle(r) + 1, hi)
            /\ g[<<lo, Middle(r)>>] = Clamped(c, lo, Middle(r))
        BY <4>1
      <4>3. ~(lo >= hi)
        BY <3>4
      <4>. HIDE DEF g
      <4>4. step(r) = IF Middle(r) \in P THEN Clamped(c, Middle(r) + 1, hi) ELSE Clamped(c, lo, Middle(r))
        BY <3>2, <4>2, <4>3
      <4>. HIDE DEF step
      <4>. QED BY <1>1, <3>1, <3>2, <3>4, <4>4
    <3>. QED BY <3>1, <3>3, <3>4
  <2>2. g = [r \in Ranges(n) |-> step(r)]
    BY <2>1
  <2>. HIDE DEF g
  <2>. QED BY <2>2 DEF IsSearch
<1>. HIDE DEF g
<1>. SUFFICES ASSUME NEW f, IsSearch(n, P, f) PROVE f[<<0, n>>] = c
  BY <1>2
<1>4. ASSUME NEW lo \in 0 .. n, NEW hi \in 0 .. n
      PROVE  f[<<lo, hi>>] = IF lo >= hi THEN lo
                             ELSE IF Middle(<<lo, hi>>) \in P THEN f[<<Middle(<<lo, hi>>) + 1, hi>>]
                             ELSE f[<<lo, Middle(<<lo, hi>>)>>]
  <2>1. <<lo, hi>> \in Ranges(n)
    BY DEF Ranges
  <2>. QED BY <2>1 DEF IsSearch
<1>. DEFINE Right(lo, hi) == f[<<lo, hi>>] = Clamped(c, lo, hi)
            T == {w \in 0 .. n : \E lo, hi \in 0 .. n : lo <= hi /\ hi - lo = w /\ ~Right(lo, hi)}
<1>5. T = {}
  <2>. SUFFICES ASSUME T # {} PROVE FALSE
    OBVIOUS
  <2>1. PICK w \in T : \A v \in T : w <= v
    <3>1. T \subseteq Nat
      OBVIOUS
    <3>. HIDE DEF T
    <3>. QED BY <3>1, Least
  <2>2. PICK lo \in 0 .. n : \E hi \in 0 .. n : lo <= hi /\ hi - lo = w /\ ~Right(lo, hi)
    BY <2>1
  <2>3. PICK hi \in 0 .. n : lo <= hi /\ hi - lo = w /\ ~Right(lo, hi)
    BY <2>2
  <2>4. ASSUME NEW a \in 0 .. n, NEW b \in 0 .. n, a <= b, b - a < w PROVE Right(a, b)
    <3>1. PICK v \in 0 .. n : v = b - a
      BY <2>4
    <3>. HIDE DEF Right
    <3>2. v < w /\ w \in 0 .. n
      BY <2>1, <2>4, <3>1
    <3>3. v \notin T
      <4>. HIDE DEF T
      <4>. QED BY <2>1, <3>1, <3>2
    <3>. QED BY <2>4, <3>1, <3>3
  <2>5. lo # hi
    <3>. SUFFICES ASSUME lo = hi PROVE FALSE
      OBVIOUS
    <3>1. lo >= hi
      OBVIOUS
    <3>2. f[<<lo, hi>>] = lo /\ Clamped(c, lo, hi) = lo
      BY <1>4, <3>1 DEF Clamped
    <3>. QED BY <2>3, <3>2
  <2>6. lo < hi
    BY <2>3, <2>5
  <2>7. PICK mid \in lo .. hi - 1 : mid = Middle(<<lo, hi>>)
    BY <2>6, MiddleIs
  <2>8. f[<<lo, hi>>] = IF mid \in P THEN f[<<mid + 1, hi>>] ELSE f[<<lo, mid>>]
    BY <1>4, <2>6, <2>7
  <2>9. Clamped(c, lo, hi) = IF mid \in P THEN Clamped(c, mid + 1, hi) ELSE Clamped(c, lo, mid)
    BY <1>1, <2>6, <2>7
  <2>10. mid + 1 \in 0 .. n /\ mid \in 0 .. n /\ mid + 1 <= hi /\ hi - (mid + 1) < w
         /\ lo <= mid /\ mid - lo < w
    BY <2>3, <2>6, <2>7
  <2>11. Right(mid + 1, hi) /\ Right(lo, mid)
    <3>. HIDE DEF Right
    <3>. QED BY <2>4, <2>10
  <2>. QED BY <2>3, <2>8, <2>9, <2>11
<1>6. 0 \in 0 .. n /\ n \in 0 .. n /\ n - 0 \in 0 .. n /\ n - 0 \notin T
  <2>. HIDE DEF T
  <2>. QED BY <1>5
<1>7. Right(0, n)
  <2>. HIDE DEF Right
  <2>. QED BY <1>6
<1>8. Clamped(c, 0, n) = c
  BY DEF Clamped
<1>. QED BY <1>7, <1>8
\* sorted_lower_bound: how many of the keys are less.
IsLower(ks, k, f) ==
    f = [r \in (0 .. Len(ks)) \X (0 .. Len(ks)) |->
            LET mid == r[1] + (r[2] - r[1]) \div 2
            IN  IF r[1] >= r[2] THEN r[1]
                ELSE IF ks[mid + 1] < k THEN f[<<mid + 1, r[2]>>] ELSE f[<<r[1], mid>>]]
Rising(ks) == \A i, j \in 1 .. Len(ks) : i < j => ks[i] < ks[j]

LEMMA LowerBoundIs ==
    ASSUME NEW ks \in Seq(Int), Rising(ks), NEW k \in Int
    PROVE  \E b \in 0 .. Len(ks) : /\ LowerBound(ks, k) = b
                                   /\ \A i \in 1 .. Len(ks) : ks[i] < k <=> i <= b
<1>1. PICK n \in Nat : n = Len(ks)
  OBVIOUS
<1>2. PICK P : P = {i \in 0 .. n - 1 : ks[i + 1] < k}
  OBVIOUS
<1>3. \A i \in 0 .. n - 1 : i + 1 \in 1 .. n /\ ks[i + 1] \in Int
  BY <1>1
<1>4. \A i, j \in 0 .. n - 1 : i < j /\ j \in P => i \in P
  <2>. SUFFICES ASSUME NEW i \in 0 .. n - 1, NEW j \in 0 .. n - 1, i < j, j \in P PROVE i \in P
    OBVIOUS
  <2>1. ks[i + 1] < ks[j + 1]
    BY <1>1, <1>3 DEF Rising
  <2>2. ks[j + 1] < k
    BY <1>2
  <2>. QED BY <1>2, <1>3, <2>1, <2>2
<1>5. PICK c \in 0 .. n : \A i \in 0 .. n - 1 : i \in P <=> i < c
  BY <1>4, CutExists DEF Cuts
<1>6. (\E f : IsSearch(n, P, f)) /\ \A f : IsSearch(n, P, f) => f[<<0, n>>] = c
  BY <1>5, SearchFinds
<1>7. ASSUME NEW f PROVE IsLower(ks, k, f) <=> IsSearch(n, P, f)
  <2>. DEFINE here(r) == IF r[1] >= r[2] THEN r[1]
                         ELSE IF ks[Middle(r) + 1] < k THEN f[<<Middle(r) + 1, r[2]>>] ELSE f[<<r[1], Middle(r)>>]
              there(r) == IF r[1] >= r[2] THEN r[1]
                          ELSE IF Middle(r) \in P THEN f[<<Middle(r) + 1, r[2]>>] ELSE f[<<r[1], Middle(r)>>]
  <2>1. ASSUME NEW r \in Ranges(n) PROVE here(r) = there(r)
    <3>1. PICK lo \in 0 .. n, hi \in 0 .. n : r = <<lo, hi>> /\ r[1] = lo /\ r[2] = hi
      BY DEF Ranges
    <3>2. CASE lo >= hi
      BY <3>1, <3>2
    <3>3. CASE lo < hi
      <4>1. Middle(r) \in lo .. hi - 1
        BY <3>1, <3>3, MiddleIs
      <4>2. Middle(r) \in 0 .. n - 1
        BY <4>1
      <4>3. ks[Middle(r) + 1] < k <=> Middle(r) \in P
        BY <1>2, <4>2
      <4>. QED BY <4>3
    <3>. QED BY <3>1, <3>2, <3>3
  <2>2. [r \in Ranges(n) |-> here(r)] = [r \in Ranges(n) |-> there(r)]
    <3>. HIDE DEF here, there
    <3>. QED BY <2>1
  <2>3. IsLower(ks, k, f) <=> f = [r \in Ranges(n) |-> here(r)]
    BY <1>1 DEF IsLower, Ranges, Middle
  <2>4. IsSearch(n, P, f) <=> f = [r \in Ranges(n) |-> there(r)]
    BY DEF IsSearch
  <2>. QED BY <2>2, <2>3, <2>4
<1>8. PICK f : f = CHOOSE g : IsLower(ks, k, g)
  OBVIOUS
<1>9. IsLower(ks, k, f)
  BY <1>6, <1>7, <1>8
<1>10. f[<<0, n>>] = c
  BY <1>6, <1>7, <1>9
<1>11. LowerBound(ks, k) = c
  BY <1>1, <1>8, <1>10 DEF LowerBound, IsLower
<1>12. ASSUME NEW i \in 1 .. n PROVE ks[i] < k <=> i <= c
  <2>1. i - 1 \in 0 .. n - 1 /\ (i - 1) + 1 = i
    OBVIOUS
  <2>2. i - 1 \in P <=> i - 1 < c
    BY <1>5, <2>1
  <2>3. i - 1 \in P <=> ks[i] < k
    BY <1>2, <2>1
  <2>. QED BY <2>2, <2>3
<1>. QED BY <1>1, <1>11, <1>12

\* A sequence with one element less.
Drops(s, at, r) ==
    /\ Len(r) = Len(s) - 1 /\ DOMAIN r = 1 .. Len(s) - 1
    /\ \A i \in 1 .. at - 1 : r[i] = s[i]
    /\ \A i \in at .. Len(s) - 1 : r[i] = s[i + 1]

LEMMA RemoveAtIs ==
    ASSUME NEW S, NEW s \in Seq(S), NEW at \in 1 .. Len(s)
    PROVE  RemoveAt(s, at) \in Seq(S) /\ Drops(s, at, RemoveAt(s, at))
<1>. DEFINE a == SubSeq(s, 1, at - 1)
            b == SubSeq(s, at + 1, Len(s))
            r == a \o b
<1>1. Len(s) \in Nat /\ at \in Nat /\ DOMAIN s = 1 .. Len(s)
  OBVIOUS
<1>2. a \in Seq(S) /\ Len(a) = at - 1 /\ \A i \in 1 .. at - 1 : a[i] = s[i]
  BY <1>1
<1>3. b \in Seq(S) /\ Len(b) = Len(s) - at /\ \A i \in 1 .. Len(s) - at : b[i] = s[at + i]
  <2>1. PICK p \in 1 .. Len(s) + 1 : p = at + 1
    BY <1>1
  <2>2. PICK t : t = SubSeq(s, p, Len(s))
    OBVIOUS
  <2>3. t \in Seq(S) /\ Len(t) = Len(s) + 1 - p /\ \A i \in 1 .. Len(s) + 1 - p : t[i] = s[p + i - 1]
    BY <1>1, <2>2
  <2>4. Len(s) + 1 - p = Len(s) - at /\ \A i \in 1 .. Len(s) - at : p + i - 1 = at + i
    <3>1. PICK n \in Nat : n = Len(s)
      BY <1>1
    <3>2. p = at + 1 /\ at \in Nat /\ p \in Nat
      BY <1>1, <2>1
    <3>3. n + 1 - p = n - at
      BY <3>2
    <3>4. \A i \in Int : p + i - 1 = at + i
      BY <3>2
    <3>. QED BY <3>1, <3>3, <3>4
  <2>5. b = t
    BY <2>1, <2>2
  <2>. HIDE DEF b
  <2>. QED BY <2>3, <2>4, <2>5
<1>. HIDE DEF a, b
<1>4. r \in Seq(S) /\ Len(r) = Len(s) - 1
  <2>1. r \in Seq(S) /\ Len(r) = Len(a) + Len(b)
    BY <1>2, <1>3, ConcatProperties
  <2>. HIDE DEF r
  <2>. QED BY <1>1, <1>2, <1>3, <2>1
<1>5. \A i \in 1 .. at - 1 : r[i] = s[i]
  BY <1>1, <1>2, <1>3
<1>6. \A i \in at .. Len(s) - 1 : r[i] = s[i + 1]
  <2>. SUFFICES ASSUME NEW i \in at .. Len(s) - 1 PROVE r[i] = s[i + 1]
    OBVIOUS
  <2>1. r[i] = b[i - (at - 1)] /\ i - (at - 1) \in 1 .. Len(s) - at
    BY <1>1, <1>2, <1>3
  <2>2. PICK j \in 1 .. Len(s) - at : j = i - (at - 1) /\ at + j = i + 1
    BY <1>1, <2>1
  <2>. QED BY <1>3, <2>1, <2>2
<1>7. DOMAIN r = 1 .. Len(s) - 1
  BY <1>4
<1>8. RemoveAt(s, at) = r
  BY DEF RemoveAt, a, b
<1>. HIDE DEF r
<1>. QED BY <1>4, <1>5, <1>6, <1>7, <1>8 DEF Drops

\* A sorted map of the keys D with the values c.
Neat(s, c, D) ==
    /\ s \in [keys : Seq(Keys), vals : Seq(Stored)] /\ Len(s.keys) = Len(s.vals)
    /\ Rising(s.keys) /\ ToSet(s.keys) = D
    /\ \A i \in 1 .. Len(s.keys) : s.vals[i] = c[s.keys[i]]

\* Where the binary search of k ends, and what that tells.
LowerAt(s, D, k, b, n) ==
    /\ LowerBound(s.keys, k) = b /\ n = Len(s.keys) /\ b <= n
    /\ s.keys \in Seq(Keys) /\ s.vals \in Seq(Stored) /\ Len(s.vals) = n
    /\ \A i \in 1 .. n : s.keys[i] \in Int /\ (s.keys[i] < k <=> i <= b)
    /\ k \in Int
    /\ SortedHas(s, k) = (k \in D)
    /\ k \in D <=> b < n /\ s.keys[b + 1] = k

LEMMA NeatIs ==
    ASSUME NEW s, NEW c, NEW D, Neat(s, c, D), NEW k \in Keys
    PROVE  \E b, n \in Nat : LowerAt(s, D, k, b, n)
<1>0. s.keys \in Seq(Keys) /\ s.vals \in Seq(Stored) /\ Len(s.keys) = Len(s.vals) /\ Rising(s.keys) /\ ToSet(s.keys) = D
  BY DEF Neat
<1>1. Keys \subseteq Int
  BY RegistryAssumption
<1>2. s.keys \in Seq(Int) /\ k \in Int
  <2>1. s.keys \in Seq(Int)
    <3>0. PICK t \in Seq(Keys) : t = s.keys
      BY <1>0
    <3>1. PICK l \in Nat : l = Len(t) /\ t \in [1 .. l -> Keys]
      OBVIOUS
    <3>2. t \in [1 .. l -> Int]
      BY <1>1, <3>1
    <3>. QED BY <3>0, <3>1, <3>2
  <2>. QED BY <1>1, <2>1
<1>3. PICK n \in Nat : n = Len(s.keys) /\ DOMAIN s.keys = 1 .. n
  BY <1>0
<1>4. PICK b \in 0 .. n : LowerBound(s.keys, k) = b /\ \A i \in 1 .. n : s.keys[i] < k <=> i <= b
  BY <1>0, <1>2, <1>3, LowerBoundIs
<1>5. \A i \in 1 .. n : s.keys[i] \in Int
  BY <1>2, <1>3
<1>6. k \in D => b < n /\ s.keys[b + 1] = k
  <2>. SUFFICES ASSUME k \in D PROVE b < n /\ s.keys[b + 1] = k
    OBVIOUS
  <2>1. PICK i \in 1 .. n : s.keys[i] = k
    BY <1>0, <1>3 DEF ToSet
  <2>2. ~(i <= b)
    BY <1>2, <1>4, <2>1
  <2>3. b < n /\ b + 1 \in 1 .. n /\ b \in Nat
    BY <1>3, <1>4, <2>2
  <2>4. ~(s.keys[b + 1] < k)
    BY <1>4, <2>3
  <2>5. i = b + 1
    <3>. SUFFICES ASSUME i # b + 1 PROVE FALSE
      OBVIOUS
    <3>1. b + 1 < i
      BY <2>2, <2>3
    <3>2. s.keys[b + 1] < s.keys[i]
      BY <1>0, <1>3, <2>3, <3>1 DEF Rising
    <3>. QED BY <2>1, <2>4, <3>2
  <2>. QED BY <2>1, <2>3, <2>5
<1>7. b < n /\ s.keys[b + 1] = k => k \in D
  <2>1. b < n => b + 1 \in 1 .. n
    BY <1>3, <1>4
  <2>. QED BY <1>0, <1>3, <2>1 DEF ToSet
<1>8. SortedHas(s, k) <=> b < n /\ s.keys[b + 1] = k
  BY <1>3, <1>4 DEF SortedHas
<1>9. SortedHas(s, k) = (k \in D)
  BY <1>6, <1>7, <1>8 DEF SortedHas
<1>10. b \in Nat /\ b <= n
  BY <1>3, <1>4
<1>11. s.keys \in Seq(Keys) /\ s.vals \in Seq(Stored) /\ Len(s.vals) = n
  BY <1>0, <1>3
<1>12. \A i \in 1 .. n : s.keys[i] \in Int /\ (s.keys[i] < k <=> i <= b)
  BY <1>4, <1>5
<1>13. k \in D <=> b < n /\ s.keys[b + 1] = k
  BY <1>6, <1>7
<1>14. LowerBound(s.keys, k) = b /\ n = Len(s.keys) /\ k \in Int
  BY <1>2, <1>3, <1>4
<1>15. LowerAt(s, D, k, b, n)
  BY <1>9, <1>10, <1>11, <1>12, <1>13, <1>14 DEF LowerAt
<1>. QED BY <1>10, <1>15

LEMMA NeatPut ==
    ASSUME NEW s, NEW c, NEW D, Neat(s, c, D), NEW k \in Keys,
           NEW d, d[k] \in Stored, \A j \in D : j # k => d[j] = c[j]
    PROVE  Neat(SortedPut(s, k, d[k]), d, D \cup {k})
<1>0. PICK b, n \in Nat : LowerAt(s, D, k, b, n)
  BY NeatIs
<1>1.
  /\ LowerBound(s.keys, k) = b /\ n = Len(s.keys) /\ b <= n
  /\ s.keys \in Seq(Keys) /\ s.vals \in Seq(Stored) /\ Len(s.vals) = n
  /\ \A i \in 1 .. n : s.keys[i] \in Int /\ (s.keys[i] < k <=> i <= b)
  /\ k \in Int
  /\ SortedHas(s, k) = (k \in D)
  /\ k \in D <=> b < n /\ s.keys[b + 1] = k
  BY <1>0 DEF LowerAt
<1>2. PICK r : r = SortedPut(s, k, d[k])
  OBVIOUS
<1>3. PICK ks \in Seq(Keys), vs \in Seq(Stored) : ks = s.keys /\ vs = s.vals /\ Len(ks) = n /\ Len(vs) = n
  BY <1>1
<1>4. s = [keys |-> ks, vals |-> vs]
  BY <1>3 DEF Neat
<1>5. Rising(ks) /\ ToSet(ks) = D /\ \A i \in 1 .. n : vs[i] = c[ks[i]]
  BY <1>1, <1>3 DEF Neat
<1>6. DOMAIN ks = 1 .. n /\ DOMAIN vs = 1 .. n
  BY <1>3
<1>7. \A i \in 1 .. n : ks[i] \in D
  BY <1>5, <1>6 DEF ToSet
<1>8. CASE k \in D
  <2>1. b + 1 \in 1 .. n /\ ks[b + 1] = k
    BY <1>1, <1>3, <1>8
  <2>2. r = [s EXCEPT !.vals[b + 1] = d[k]]
    BY <1>1, <1>2, <1>8 DEF SortedPut
  <2>3. PICK us : us = [vs EXCEPT ![b + 1] = d[k]]
    OBVIOUS
  <2>4. r = [keys |-> ks, vals |-> us]
    BY <1>4, <2>2, <2>3
  <2>5. us \in Seq(Stored) /\ Len(us) = n /\ us[b + 1] = d[k] /\ \A i \in 1 .. n : i # b + 1 => us[i] = vs[i]
    BY <1>3, <2>1, <2>3
  <2>6. ASSUME NEW i \in 1 .. n PROVE us[i] = d[ks[i]]
    <3>1. CASE i = b + 1
      BY <2>1, <2>5, <3>1
    <3>2. CASE i # b + 1
      <4>1. ks[i] # k
        <5>1. i < b + 1 \/ b + 1 < i
          BY <3>2
        <5>2. ks[i] < ks[b + 1] \/ ks[b + 1] < ks[i]
          BY <1>3, <1>5, <2>1, <5>1 DEF Rising
        <5>. QED BY <1>1, <1>3, <2>1, <5>2
      <4>. QED BY <1>5, <1>7, <2>5, <3>2, <4>1
    <3>. QED BY <3>1, <3>2
  <2>7. D \cup {k} = D
    BY <1>8
  <2>8. r.keys = ks /\ r.vals = us /\ r \in [keys : Seq(Keys), vals : Seq(Stored)]
    BY <1>3, <2>4, <2>5
  <2>. QED BY <1>2, <1>3, <1>5, <2>5, <2>6, <2>7, <2>8 DEF Neat
<1>9. CASE k \notin D
  <2>1. PICK a \in 1 .. n + 1 : a = b + 1
    BY <1>1
  <2>2. PICK ls, us : ls = InsertAt(ks, a, k) /\ us = InsertAt(vs, a, d[k])
    OBVIOUS
  <2>3. r = [keys |-> ls, vals |-> us]
    BY <1>1, <1>2, <1>3, <1>9, <2>1, <2>2 DEF SortedPut
  <2>4. ls \in Seq(Keys) /\ Inserts(ks, a, k, ls)
    BY <1>3, <2>1, <2>2, InsertAtIs
  <2>5. us \in Seq(Stored) /\ Inserts(vs, a, d[k], us)
    BY <1>3, <2>1, <2>2, InsertAtIs
  <2>6. /\ Len(ls) = n + 1 /\ Len(us) = n + 1 /\ DOMAIN ls = 1 .. n + 1 /\ ls[a] = k /\ us[a] = d[k]
        /\ \A i \in 1 .. a - 1 : ls[i] = ks[i] /\ us[i] = vs[i]
        /\ \A i \in a + 1 .. n + 1 : ls[i] = ks[i - 1] /\ us[i] = vs[i - 1]
    BY <1>3, <2>4, <2>5 DEF Inserts
  <2>7. \A i \in 1 .. n : ks[i] \in Int /\ ks[i] # k /\ (ks[i] < k <=> i < a)
    BY <1>1, <1>3, <1>7, <1>9, <2>1
  <2>8. Rising(ls)
    <3>. SUFFICES ASSUME NEW i \in 1 .. n + 1, NEW j \in 1 .. n + 1, i < j PROVE ls[i] < ls[j]
      BY <2>6 DEF Rising
    <3>1. CASE j < a
      <4>1. i \in 1 .. a - 1 /\ j \in 1 .. a - 1 /\ i \in 1 .. n /\ j \in 1 .. n
        BY <2>1, <3>1
      <4>. QED BY <1>3, <1>5, <2>6, <4>1 DEF Rising
    <3>2. CASE j = a
      <4>1. i \in 1 .. a - 1 /\ i \in 1 .. n /\ i < a
        BY <2>1, <3>2
      <4>. QED BY <2>6, <2>7, <3>2, <4>1
    <3>3. CASE a < j /\ i = a
      <4>1. j \in a + 1 .. n + 1 /\ j - 1 \in 1 .. n /\ ~(j - 1 < a)
        BY <2>1, <3>3
      <4>2. ls[j] = ks[j - 1] /\ ks[j - 1] \in Int /\ ks[j - 1] # k /\ ~(ks[j - 1] < k)
        BY <2>6, <2>7, <4>1
      <4>. QED BY <1>1, <2>6, <3>3, <4>2
    <3>4. CASE a < j /\ i < a
      <4>1. j \in a + 1 .. n + 1 /\ j - 1 \in 1 .. n /\ i \in 1 .. n /\ i \in 1 .. a - 1 /\ i < j - 1
        BY <2>1, <3>4
      <4>2. ls[j] = ks[j - 1] /\ ls[i] = ks[i]
        BY <2>6, <4>1
      <4>. QED BY <1>3, <1>5, <4>1, <4>2 DEF Rising
    <3>5. CASE a < i
      <4>1. j \in a + 1 .. n + 1 /\ j - 1 \in 1 .. n /\ i - 1 \in 1 .. n /\ i \in a + 1 .. n + 1 /\ i - 1 < j - 1
        BY <2>1, <3>5
      <4>2. ls[j] = ks[j - 1] /\ ls[i] = ks[i - 1]
        BY <2>6, <4>1
      <4>. QED BY <1>3, <1>5, <4>1, <4>2 DEF Rising
    <3>. QED BY <2>1, <3>1, <3>2, <3>3, <3>4, <3>5
  <2>9. ASSUME NEW i \in 1 .. n + 1
        PROVE  us[i] = d[ls[i]] /\ ls[i] \in D \cup {k}
    <3>1. CASE i < a
      <4>1. i \in 1 .. a - 1 /\ i \in 1 .. n
        BY <2>1, <3>1
      <4>. QED BY <1>5, <1>7, <2>6, <2>7, <4>1
    <3>2. CASE i = a
      BY <2>6, <3>2
    <3>3. CASE a < i
      <4>1. i \in a + 1 .. n + 1 /\ i - 1 \in 1 .. n
        BY <2>1, <3>3
      <4>2. ls[i] = ks[i - 1] /\ us[i] = vs[i - 1]
        BY <2>6, <4>1
      <4>. QED BY <1>5, <1>7, <2>7, <4>1, <4>2
    <3>. QED BY <2>1, <3>1, <3>2, <3>3
  <2>10. ASSUME NEW j \in D PROVE \E i \in 1 .. n + 1 : ls[i] = j
    <3>1. PICK i \in 1 .. n : ks[i] = j
      BY <1>5, <1>6 DEF ToSet
    <3>2. CASE i < a
      <4>1. i \in 1 .. a - 1 /\ i \in 1 .. n + 1
        BY <2>1, <3>2
      <4>. QED BY <2>6, <3>1, <4>1
    <3>3. CASE a <= i
      <4>1. i + 1 \in a + 1 .. n + 1 /\ i + 1 \in 1 .. n + 1 /\ (i + 1) - 1 = i
        BY <2>1, <3>3
      <4>2. ls[i + 1] = ks[(i + 1) - 1]
        BY <2>6, <4>1
      <4>. QED BY <3>1, <4>1, <4>2
    <3>. QED BY <2>1, <3>2, <3>3
  <2>11. ToSet(ls) = D \cup {k}
    <3>1. ToSet(ls) \subseteq D \cup {k}
      BY <2>6, <2>9 DEF ToSet
    <3>2. a \in 1 .. n + 1
      BY <2>1
    <3>3. D \cup {k} \subseteq ToSet(ls)
      BY <2>6, <2>10, <3>2 DEF ToSet
    <3>. QED BY <3>1, <3>3
  <2>12. r.keys = ls /\ r.vals = us /\ r \in [keys : Seq(Keys), vals : Seq(Stored)]
    BY <2>3, <2>4, <2>5
  <2>. QED BY <1>2, <2>6, <2>8, <2>9, <2>11, <2>12 DEF Neat
<1>. QED BY <1>8, <1>9

LEMMA NeatRemove ==
    ASSUME NEW s, NEW c, NEW D, Neat(s, c, D), NEW k \in Keys, NEW d, \A j \in D : j # k => d[j] = c[j]
    PROVE  Neat(SortedRemove(s, k), d, D \ {k})
<1>0. PICK b, n \in Nat : LowerAt(s, D, k, b, n)
  BY NeatIs
<1>1.
  /\ LowerBound(s.keys, k) = b /\ n = Len(s.keys) /\ b <= n
  /\ s.keys \in Seq(Keys) /\ s.vals \in Seq(Stored) /\ Len(s.vals) = n
  /\ \A i \in 1 .. n : s.keys[i] \in Int /\ (s.keys[i] < k <=> i <= b)
  /\ k \in Int
  /\ SortedHas(s, k) = (k \in D)
  /\ k \in D <=> b < n /\ s.keys[b + 1] = k
  BY <1>0 DEF LowerAt
<1>2. PICK r : r = SortedRemove(s, k)
  OBVIOUS
<1>3. PICK ks \in Seq(Keys), vs \in Seq(Stored) : ks = s.keys /\ vs = s.vals /\ Len(ks) = n /\ Len(vs) = n
  BY <1>1
<1>4. Rising(ks) /\ ToSet(ks) = D /\ \A i \in 1 .. n : vs[i] = c[ks[i]]
  BY <1>1, <1>3 DEF Neat
<1>5. DOMAIN ks = 1 .. n /\ DOMAIN vs = 1 .. n
  BY <1>3
<1>6. \A i \in 1 .. n : ks[i] \in D
  BY <1>4, <1>5 DEF ToSet
<1>7. CASE k \notin D
  <2>1. r = s
    BY <1>1, <1>2, <1>7 DEF SortedRemove
  <2>2. \A i \in 1 .. n : vs[i] = d[ks[i]]
    BY <1>4, <1>6, <1>7
  <2>3. D \ {k} = D
    BY <1>7
  <2>. QED BY <1>1, <1>2, <1>3, <2>1, <2>2, <2>3 DEF Neat
<1>8. CASE k \in D
  <2>1. PICK a \in 1 .. n : a = b + 1 /\ ks[a] = k
    BY <1>1, <1>3, <1>8
  <2>2. PICK ls, us : ls = RemoveAt(ks, a) /\ us = RemoveAt(vs, a)
    OBVIOUS
  <2>3. r = [keys |-> ls, vals |-> us]
    BY <1>1, <1>2, <1>3, <1>8, <2>1, <2>2 DEF SortedRemove
  <2>4. ls \in Seq(Keys) /\ Drops(ks, a, ls)
    BY <1>3, <2>1, <2>2, RemoveAtIs
  <2>5. us \in Seq(Stored) /\ Drops(vs, a, us)
    BY <1>3, <2>1, <2>2, RemoveAtIs
  <2>6. /\ Len(ls) = n - 1 /\ Len(us) = n - 1 /\ DOMAIN ls = 1 .. n - 1
        /\ \A i \in 1 .. a - 1 : ls[i] = ks[i] /\ us[i] = vs[i]
        /\ \A i \in a .. n - 1 : ls[i] = ks[i + 1] /\ us[i] = vs[i + 1]
    BY <1>3, <2>4, <2>5 DEF Drops
  <2>7. ASSUME NEW i \in 1 .. n - 1
        PROVE  \E p \in 1 .. n : /\ ls[i] = ks[p] /\ us[i] = vs[p] /\ p # a
                                 /\ p = IF i < a THEN i ELSE i + 1
    <3>1. CASE i < a
      <4>1. i \in 1 .. a - 1 /\ i \in 1 .. n /\ i # a
        BY <2>1, <3>1
      <4>. QED BY <2>6, <3>1, <4>1
    <3>2. CASE ~(i < a)
      <4>1. i \in a .. n - 1 /\ i + 1 \in 1 .. n /\ i + 1 # a
        BY <2>1, <3>2
      <4>. QED BY <2>6, <3>2, <4>1
    <3>. QED BY <3>1, <3>2
  <2>8. \A i, j \in 1 .. n : i < j => ks[i] < ks[j]
    BY <1>3, <1>4 DEF Rising
  <2>9. Rising(ls)
    <3>. SUFFICES ASSUME NEW i \in 1 .. n - 1, NEW j \in 1 .. n - 1, i < j PROVE ls[i] < ls[j]
      BY <2>6 DEF Rising
    <3>1. PICK p \in 1 .. n : ls[i] = ks[p] /\ p = IF i < a THEN i ELSE i + 1
      BY <2>7
    <3>2. PICK q \in 1 .. n : ls[j] = ks[q] /\ q = IF j < a THEN j ELSE j + 1
      BY <2>7
    <3>3. p < q
      BY <2>1, <3>1, <3>2
    <3>. QED BY <2>8, <3>1, <3>2, <3>3
  <2>10. \A i \in 1 .. n : i # a => ks[i] # k
    <3>. SUFFICES ASSUME NEW i \in 1 .. n, i # a PROVE ks[i] # k
      OBVIOUS
    <3>1. ks[i] < ks[a] \/ ks[a] < ks[i]
      <4>1. i < a \/ a < i
        BY <2>1
      <4>. QED BY <2>1, <2>8, <4>1
    <3>. QED BY <1>1, <2>1, <3>1
  <2>11. \A i \in 1 .. n - 1 : ls[i] \in D \ {k} /\ us[i] = d[ls[i]]
    <3>. SUFFICES ASSUME NEW i \in 1 .. n - 1 PROVE ls[i] \in D \ {k} /\ us[i] = d[ls[i]]
      OBVIOUS
    <3>1. PICK p \in 1 .. n : ls[i] = ks[p] /\ us[i] = vs[p] /\ p # a
      BY <2>7
    <3>. QED BY <1>4, <1>6, <2>10, <3>1
  <2>12. ASSUME NEW j \in D \ {k} PROVE \E i \in 1 .. n - 1 : ls[i] = j
    <3>1. PICK p \in 1 .. n : ks[p] = j
      BY <1>4, <1>5 DEF ToSet
    <3>2. p # a
      BY <2>1, <3>1
    <3>3. CASE p < a
      <4>1. p \in 1 .. a - 1 /\ p \in 1 .. n - 1
        BY <2>1, <3>3
      <4>. QED BY <2>6, <3>1, <4>1
    <3>4. CASE a < p
      <4>1. p - 1 \in a .. n - 1 /\ p - 1 \in 1 .. n - 1 /\ (p - 1) + 1 = p
        BY <2>1, <3>4
      <4>2. ls[p - 1] = ks[(p - 1) + 1]
        BY <2>6, <4>1
      <4>. QED BY <3>1, <4>1, <4>2
    <3>. QED BY <2>1, <3>2, <3>3, <3>4
  <2>13. ToSet(ls) = D \ {k}
    <3>1. ToSet(ls) \subseteq D \ {k}
      BY <2>6, <2>11 DEF ToSet
    <3>2. D \ {k} \subseteq ToSet(ls)
      BY <2>6, <2>12 DEF ToSet
    <3>. QED BY <3>1, <3>2
  <2>14. r.keys = ls /\ r.vals = us /\ r \in [keys : Seq(Keys), vals : Seq(Stored)]
    BY <2>3, <2>4, <2>5
  <2>. QED BY <1>2, <2>6, <2>9, <2>11, <2>13, <2>14 DEF Neat
<1>. QED BY <1>7, <1>8


LEMMA NeatEmpty == ASSUME NEW c PROVE Neat(EmptySorted, c, {})
<1>1. <<>> \in Seq(Keys) /\ <<>> \in Seq(Stored) /\ Len(<<>>) = 0
  OBVIOUS
<1>2. ToSet(<<>>) = {}
  BY <1>1 DEF ToSet
<1>3. EmptySorted.keys = <<>> /\ EmptySorted.vals = <<>> /\ EmptySorted \in [keys : Seq(Keys), vals : Seq(Stored)]
  BY <1>1 DEF EmptySorted
<1>. QED BY <1>1, <1>2, <1>3 DEF Neat, Rising

LEMMA NeatGives ==
    ASSUME NEW s, NEW c, NEW D, Neat(s, c, D), NEW k \in Keys, k \in D
    PROVE  SortedGet(s, k) = c[k]
<1>0. PICK b, n \in Nat : LowerAt(s, D, k, b, n)
  BY NeatIs
<1>1. LowerBound(s.keys, k) = b /\ n = Len(s.keys) /\ b < n /\ s.keys[b + 1] = k
  BY <1>0 DEF LowerAt
<1>2. s.vals[b + 1] = c[s.keys[b + 1]]
  BY <1>1 DEF Neat
<1>. QED BY <1>1, <1>2 DEF SortedGet

-----------------------------------------------------------------------------
(* The registry: both containers hold the content, at any moment.          *)

RegistryIInv ==
    /\ grows \in BOOLEAN
    /\ Sound(hash, map, since, content)
    /\ ToSet(since) = DOMAIN content
    /\ Neat(sorted, content, DOMAIN content)

LEMMA RegistryStarts == RegistryInit => RegistryIInv
<1>. SUFFICES ASSUME NEW h \in Hashes, NEW g \in BOOLEAN, RegistryOf(h, g) PROVE RegistryIInv
  BY DEF RegistryInit
<1>1. /\ hash = h /\ grows = g /\ map = EmptyMap(FirstCap[g]) /\ sorted = EmptySorted
      /\ content = <<>> /\ since = <<>>
  BY DEF RegistryOf
<1>2. h \in [Keys -> Nat] /\ FirstCap[g] \in Nat
  BY RegistryAssumption
<1>3. Sound(hash, map, since, content)
  BY <1>1, <1>2, SoundEmpty
<1>4. ToSet(since) = {} /\ DOMAIN content = {}
  BY <1>1 DEF ToSet
<1>5. Neat(sorted, content, {})
  BY <1>1, NeatEmpty
<1>. QED BY <1>1, <1>3, <1>4, <1>5 DEF RegistryIInv

LEMMA PutStays ==
    ASSUME RegistryIInv, NEW k \in Keys, NEW v \in Vals[k], PutBoth(k, v)
    PROVE  RegistryIInv'
<1>0. /\ grows \in BOOLEAN /\ Sound(hash, map, since, content) /\ ToSet(since) = DOMAIN content
      /\ Neat(sorted, content, DOMAIN content)
  BY DEF RegistryIInv
<1>1. hash' = hash /\ grows' = grows
  BY DEF PutBoth
<1>2. CASE overflowed'
  <2>1. map' = map /\ sorted' = sorted /\ content' = content /\ since' = since
    BY <1>2 DEF PutBoth
  <2>. QED BY <1>0, <1>1, <2>1 DEF RegistryIInv
<1>3. CASE ~overflowed'
  <2>1. /\ map' = MapPut(map, hash, k, v) /\ sorted' = SortedPut(sorted, k, v)
        /\ content' = [j \in DOMAIN content \cup {k} |-> IF j = k THEN v ELSE content[j]]
        /\ since' = (IF NeedsGrowth(map, hash, k) THEN KeysOf(map) ELSE since)
                    \o (IF k \in DOMAIN content THEN <<>> ELSE <<k>>)
    BY <1>3 DEF PutBoth
  <2>2. /\ content'[k] = v /\ v \in Stored /\ DOMAIN (content') = DOMAIN content \cup {k}
        /\ \A j \in DOMAIN content : j # k => content'[j] = content[j]
    BY <2>1 DEF Stored
  <2>3. Neat(sorted', content', DOMAIN (content'))
    BY <1>0, <2>1, <2>2, NeatPut
  <2>4. CASE k \in DOMAIN content
    <3>0. MapHas(map, hash, k) = (k \in ToSet(since))
      BY <1>0, SoundHas
    <3>1. ~NeedsGrowth(map, hash, k)
      <4>1. MapHas(map, hash, k)
        BY <1>0, <2>4, <3>0, Zenon
      <4>. QED BY <4>1, Zenon DEF NeedsGrowth
    <3>2. since \in Seq(Keys)
      BY <1>0 DEF Sound
    <3>3. since' = since \o <<>>
      BY <2>1, <2>4, <3>1
    <3>4. since' = since
      BY <3>2, <3>3
    <3>5. Sound(hash, map', since, content')
      BY <1>0, <2>1, <2>2, <2>4, SoundRewritten
    <3>6. DOMAIN (content') = DOMAIN content
      BY <2>2, <2>4
    <3>. QED BY <1>0, <1>1, <2>3, <3>4, <3>5, <3>6 DEF RegistryIInv
  <2>5. CASE k \notin DOMAIN content
    <3>1. since' = (IF NeedsGrowth(map, hash, k) THEN KeysOf(map) ELSE since) \o <<k>>
      BY <2>1, <2>5
    <3>2. \A j \in ToSet(since) : content'[j] = content[j]
      BY <1>0, <2>2, <2>5
    <3>3. Sound(hash, MapPut(map, hash, k, content'[k]), since', content') /\ ToSet(since') = ToSet(since) \cup {k}
      <4>1. PICK d : d = content'
        OBVIOUS
      <4>2. PICK o : o = since'
        OBVIOUS
      <4>3. d[k] \in Stored /\ k \notin ToSet(since)
        BY <1>0, <2>2, <2>5, <4>1
      <4>4. Carries(since, content, d) /\ Joins(hash, map, since, k, o)
        BY <3>1, <3>2, <4>1, <4>2 DEF Carries, Joins
      <4>5. Sound(hash, MapPut(map, hash, k, d[k]), o, d) /\ ToSet(o) = ToSet(since) \cup {k}
        <5>1. Sound(hash, map, since, content)
          BY <1>0
        <5>. QED BY <5>1, <4>3, <4>4, SoundExtended
      <4>. QED BY <4>1, <4>2, <4>5
    <3>. QED BY <1>0, <1>1, <2>1, <2>2, <2>3, <3>3 DEF RegistryIInv
  <2>. QED BY <2>4, <2>5
<1>. QED BY <1>2, <1>3

LEMMA RemoveStays ==
    ASSUME RegistryIInv, NEW k \in Keys, RemoveBoth(k)
    PROVE  RegistryIInv'
<1>0. /\ grows \in BOOLEAN /\ Sound(hash, map, since, content) /\ ToSet(since) = DOMAIN content
      /\ Neat(sorted, content, DOMAIN content)
  BY DEF RegistryIInv
<1>1. /\ hash' = hash /\ grows' = grows
      /\ map' = MapRemove(map, hash, k) /\ sorted' = SortedRemove(sorted, k)
      /\ content' = [j \in DOMAIN content \ {k} |-> content[j]]
      /\ since' = Only(since, Keys \ {k})
  BY DEF RemoveBoth
<1>2. DOMAIN (content') = DOMAIN content \ {k} /\ \A j \in DOMAIN content : j # k => content'[j] = content[j]
  BY <1>1
<1>3. \A j \in ToSet(since) : j # k => content'[j] = content[j]
  BY <1>0, <1>2
<1>4. Sound(hash, map', since', content') /\ ToSet(since') = ToSet(since) \ {k}
  BY <1>0, <1>1, <1>3, SoundThinned
<1>5. Neat(sorted', content', DOMAIN (content'))
  BY <1>0, <1>1, <1>2, NeatRemove
<1>. QED BY <1>0, <1>1, <1>2, <1>4, <1>5 DEF RegistryIInv

LEMMA RegistryAnswers == RegistryIInv => RegistryInv
<1>. SUFFICES ASSUME RegistryIInv PROVE RegistryInv
  OBVIOUS
<1>0. /\ Sound(hash, map, since, content) /\ ToSet(since) = DOMAIN content
      /\ Neat(sorted, content, DOMAIN content)
  BY DEF RegistryIInv
<1>1. LookupsAgree
  <2>. SUFFICES ASSUME NEW k \in Keys
                PROVE  /\ MapHas(map, hash, k) = (k \in DOMAIN content)
                       /\ SortedHas(sorted, k) = (k \in DOMAIN content)
                       /\ k \in DOMAIN content =>
                             MapGet(map, hash, k) = content[k] /\ SortedGet(sorted, k) = content[k]
    BY DEF LookupsAgree
  <2>1. MapHas(map, hash, k) = (k \in ToSet(since)) /\ (k \in ToSet(since) => MapGet(map, hash, k) = content[k])
    BY <1>0, SoundHas
  <2>2. SortedHas(sorted, k) = (k \in DOMAIN content)
    <3>1. PICK b, n \in Nat : LowerAt(sorted, DOMAIN content, k, b, n)
      BY <1>0, NeatIs
    <3>. QED BY <3>1 DEF LowerAt
  <2>3. k \in DOMAIN content => SortedGet(sorted, k) = content[k]
    BY <1>0, NeatGives
  <2>. QED BY <1>0, <2>1, <2>2, <2>3
<1>2. DeletionsLeaveNoTrace
  BY <1>0, SoundRefilled DEF DeletionsLeaveNoTrace
<1>3. OrderIsOfTheKeys
  <2>1. ToSet(sorted.keys) = DOMAIN content /\ Rising(sorted.keys) /\ sorted.keys \in Seq(Keys)
    BY <1>0 DEF Neat
  <2>2. \A i \in 2 .. Len(sorted.keys) : sorted.keys[i - 1] < sorted.keys[i]
    BY <2>1 DEF Rising
  <2>. QED BY <2>1, <2>2 DEF OrderIsOfTheKeys
<1>. QED BY <1>1, <1>2, <1>3 DEF RegistryInv

\* For any keys, any hash of them and any capacity asked for: a Map and a SortedMap under
\* the same puts and removes answer every lookup as if nothing but the last put of each key
\* had happened, a Map's bytes keep no trace of what was removed, and a SortedMap's order
\* is that of its keys (map.h, sorted.h).
THEOREM RegistryIsExact == RegistrySpec => []RegistryInv
<1>1. RegistryInit => RegistryIInv
  BY RegistryStarts
<1>2. RegistryIInv /\ [RegistryNext]_registry_vars => RegistryIInv'
  <2>. SUFFICES ASSUME RegistryIInv, [RegistryNext]_registry_vars PROVE RegistryIInv'
    OBVIOUS
  <2>1. ASSUME NEW k \in Keys, NEW v \in Vals[k], PutBoth(k, v) PROVE RegistryIInv'
    BY <2>1, PutStays
  <2>2. ASSUME NEW k \in Keys, RemoveBoth(k) PROVE RegistryIInv'
    BY <2>2, RemoveStays
  <2>3. CASE UNCHANGED registry_vars
    BY <2>3 DEF registry_vars, RegistryIInv
  <2>. QED BY <2>1, <2>2, <2>3 DEF RegistryNext
<1>3. RegistryIInv => RegistryInv
  BY RegistryAnswers
<1>. QED BY <1>1, <1>2, <1>3, PTL DEF RegistrySpec

-----------------------------------------------------------------------------
(* The radix sort.                                                         *)

\* What division leaves is the only such remainder.
LEMMA RemainderIs ==
    ASSUME NEW c \in Nat \ {0}, NEW u \in Nat, NEW b \in 0 .. c - 1
    PROVE  (c * u + b) % c = b /\ (c * u + b) \div c = u
<1>. DEFINE x == c * u + b
            q == x \div c
            r == x % c
<1>1. c * u \in Nat
  OBVIOUS
<1>2. x \in Nat /\ q \in Nat /\ r \in 0 .. c - 1 /\ x = c * q + r
  BY <1>1
<1>. HIDE DEF q, r
<1>3. ~(q < u)
  <2>. SUFFICES ASSUME q < u PROVE FALSE
    OBVIOUS
  <2>1. PICK e \in Nat : u = q + 1 + e
    <3>1. u - q - 1 \in Nat /\ u = q + 1 + (u - q - 1)
      BY <1>2
    <3>. QED BY <3>1
  <2>2. c * (q + 1 + e) = c * q + c + c * e /\ c * e \in Nat /\ c * q \in Nat
    BY <1>2, <2>1
  <2>3. c * u = c * q + c + c * e
    BY <2>1, <2>2
  <2>. QED BY <1>1, <1>2, <2>2, <2>3
<1>4. ~(u < q)
  <2>. SUFFICES ASSUME u < q PROVE FALSE
    OBVIOUS
  <2>1. PICK e \in Nat : q = u + 1 + e
    <3>1. q - u - 1 \in Nat /\ q = u + 1 + (q - u - 1)
      BY <1>2
    <3>. QED BY <3>1
  <2>2. c * (u + 1 + e) = c * u + c + c * e /\ c * e \in Nat
    BY <1>2, <2>1
  <2>3. c * q = c * u + c + c * e
    BY <2>1, <2>2
  <2>. QED BY <1>1, <1>2, <2>2, <2>3
<1>5. q = u
  BY <1>2, <1>3, <1>4
<1>6. c * q = c * u
  BY <1>5
<1>. QED BY <1>1, <1>2, <1>5, <1>6 DEF q, r

LEMMA DivisionIs ==
    ASSUME NEW x \in Nat, NEW c \in Nat \ {0}
    PROVE  x \div c \in Nat /\ x % c \in 0 .. c - 1 /\ x = c * (x \div c) + (x % c)
<1>. DEFINE q == x \div c
            r == x % c
<1>1. q \in Nat /\ r \in 0 .. c - 1 /\ x = c * q + r
  OBVIOUS
<1>. QED BY <1>1

\* A digit more of a key.
LEMMA OneDigitMore ==
    ASSUME NEW x \in Nat, NEW W \in Nat \ {0}, NEW R \in Nat \ {0}
    PROVE  /\ R * W \in Nat \ {0} /\ x % W \in 0 .. W - 1 /\ (x \div W) % R \in 0 .. R - 1
           /\ x % (R * W) = W * ((x \div W) % R) + (x % W)
<1>1. PICK q, a \in Nat : q = x \div W /\ a = x % W /\ a \in 0 .. W - 1 /\ x = W * q + a
  BY DivisionIs
<1>2. PICK u, d \in Nat : u = q \div R /\ d = q % R /\ d \in 0 .. R - 1 /\ q = R * u + d
  <2>1. q \div R \in Nat /\ q % R \in 0 .. R - 1 /\ q = R * (q \div R) + (q % R)
    BY DivisionIs
  <2>2. PICK u, d \in Nat : u = q \div R /\ d = q % R
    BY <2>1
  <2>. QED BY <2>1, <2>2
<1>3. PICK c \in Nat \ {0} : c = R * W
  OBVIOUS
<1>4. PICK b \in Nat : b = W * d + a
  <2>1. W * d \in Nat
    OBVIOUS
  <2>. QED BY <2>1
<1>5. b < c
  <2>1. PICK e \in Nat : R = d + 1 + e
    <3>1. R - d - 1 \in Nat /\ R = d + 1 + (R - d - 1)
      BY <1>2
    <3>. QED BY <3>1
  <2>2. (d + 1 + e) * W = W * d + W + e * W /\ e * W \in Nat /\ W * d \in Nat
    OBVIOUS
  <2>3. c = W * d + W + e * W
    BY <1>3, <2>1, <2>2
  <2>. QED BY <1>1, <1>4, <2>2, <2>3
<1>6. x = c * u + b
  <2>1. W * (R * u + d) = (R * W) * u + W * d
    OBVIOUS
  <2>2. W * q = c * u + W * d
    BY <1>2, <1>3, <2>1
  <2>3. c * u \in Nat /\ W * d \in Nat /\ W * q \in Nat
    OBVIOUS
  <2>. QED BY <1>1, <1>4, <2>2, <2>3
<1>7. b \in 0 .. c - 1
  BY <1>5
<1>8. x % c = b
  <2>1. (c * u + b) % c = b
    BY <1>7, RemainderIs
  <2>. QED BY <1>6, <2>1
<1>9. c \in Nat \ {0} /\ a \in 0 .. W - 1 /\ d \in 0 .. R - 1 /\ x % c = W * d + a
  BY <1>1, <1>2, <1>4, <1>8
<1>10. c = R * W /\ a = x % W /\ d = (x \div W) % R
  BY <1>1, <1>2, <1>3
<1>11. W * d = W * ((x \div W) % R) /\ x % c = x % (R * W)
  BY <1>10
<1>. QED BY <1>9, <1>10, <1>11

\* Entries in the order of the keys' low digits, and of their places where these agree.
Before(a, b, w) == a[1] % w < b[1] % w \/ (a[1] % w = b[1] % w /\ a[2] < b[2])
DigitOf(e, w) == (e[1] \div w) % Radix
Entries2 == Nat \X Nat

LEMMA BeforeByDigit ==
    ASSUME NEW a \in Entries2, NEW b \in Entries2, NEW w \in Nat \ {0},
           \/ DigitOf(a, w) < DigitOf(b, w)
           \/ DigitOf(a, w) = DigitOf(b, w) /\ Before(a, b, w)
    PROVE  Before(a, b, Radix * w)
<1>0. Radix \in Nat \ {0} /\ a[1] \in Nat /\ b[1] \in Nat /\ a[2] \in Nat /\ b[2] \in Nat
  BY SortAssumption DEF Entries2
<1>1. PICK d, i \in Nat : d = (a[1] \div w) % Radix /\ i = a[1] % w
  BY <1>0
<1>2. PICK e, j \in Nat : e = (b[1] \div w) % Radix /\ j = b[1] % w
  BY <1>0
<1>3. i \in 0 .. w - 1 /\ a[1] % (Radix * w) = w * d + i
  <2>1. a[1] % w \in 0 .. w - 1 /\ a[1] % (Radix * w) = w * ((a[1] \div w) % Radix) + (a[1] % w)
    BY <1>0, OneDigitMore
  <2>2. w * ((a[1] \div w) % Radix) = w * d
    BY <1>1
  <2>. QED BY <1>1, <2>1, <2>2
<1>4. j \in 0 .. w - 1 /\ b[1] % (Radix * w) = w * e + j
  <2>1. b[1] % w \in 0 .. w - 1 /\ b[1] % (Radix * w) = w * ((b[1] \div w) % Radix) + (b[1] % w)
    BY <1>0, OneDigitMore
  <2>2. w * ((b[1] \div w) % Radix) = w * e
    BY <1>2
  <2>. QED BY <1>2, <2>1, <2>2
<1>5. w * d \in Nat /\ w * e \in Nat
  OBVIOUS
<1>6. CASE d < e
  <2>1. PICK g \in Nat : e = d + 1 + g
    <3>1. e - d - 1 \in Nat /\ e = d + 1 + (e - d - 1)
      BY <1>6
    <3>. QED BY <3>1
  <2>2. w * (d + 1 + g) = w * d + w + w * g /\ w * g \in Nat
    OBVIOUS
  <2>3. w * e = w * d + w + w * g
    BY <2>1, <2>2
  <2>4. w * d + i < w * e + j
    BY <1>3, <1>4, <1>5, <2>2, <2>3
  <2>. QED BY <1>3, <1>4, <2>4 DEF Before
<1>7. CASE d = e /\ Before(a, b, w)
  <2>1. w * d = w * e
    BY <1>7
  <2>2. i < j \/ (i = j /\ a[2] < b[2])
    BY <1>1, <1>2, <1>7 DEF Before
  <2>3. w * d + i < w * e + j \/ (w * d + i = w * e + j /\ a[2] < b[2])
    BY <1>3, <1>4, <1>5, <2>1, <2>2
  <2>. QED BY <1>3, <1>4, <2>3 DEF Before
<1>. QED BY <1>1, <1>2, <1>6, <1>7 DEF DigitOf

\* The places up to one's own: of smaller digit, or of the same and not later.
Rank(N, d, i) == {j \in 1 .. N : d[j] < d[i] \/ (d[j] = d[i] /\ j <= i)}
Sooner(d, i, j) == d[i] < d[j] \/ (d[i] = d[j] /\ i < j)

LEMMA RankFacts ==
    ASSUME NEW N \in Nat, NEW d \in [1 .. N -> Nat], NEW i \in 1 .. N
    PROVE  IsFiniteSet(Rank(N, d, i)) /\ Cardinality(Rank(N, d, i)) \in 1 .. N
<1>1. IsFiniteSet(1 .. N) /\ Cardinality(1 .. N) = N
  BY FS_Interval
<1>2. Rank(N, d, i) \in SUBSET (1 .. N) /\ {i} \in SUBSET Rank(N, d, i)
  BY DEF Rank
<1>3. IsFiniteSet(Rank(N, d, i)) /\ Cardinality(Rank(N, d, i)) <= N
  BY <1>1, <1>2, FS_Subset
<1>4. Cardinality({i}) <= Cardinality(Rank(N, d, i)) /\ Cardinality({i}) = 1
  BY <1>2, <1>3, FS_Subset, FS_Singleton
<1>5. Cardinality(Rank(N, d, i)) \in Nat
  BY <1>3, FS_CardinalityType
<1>. QED BY <1>3, <1>4, <1>5

LEMMA RankGrows ==
    ASSUME NEW N \in Nat, NEW d \in [1 .. N -> Nat], NEW i \in 1 .. N, NEW j \in 1 .. N, Sooner(d, i, j)
    PROVE  Cardinality(Rank(N, d, i)) < Cardinality(Rank(N, d, j))
<1>1. Rank(N, d, i) \in SUBSET Rank(N, d, j)
  BY DEF Rank, Sooner
<1>2. j \in Rank(N, d, j) /\ j \notin Rank(N, d, i)
  BY DEF Rank, Sooner
<1>3. /\ IsFiniteSet(Rank(N, d, j))
      /\ Cardinality(Rank(N, d, i)) \in Nat /\ Cardinality(Rank(N, d, j)) \in Nat
  <2>1. Cardinality(Rank(N, d, i)) \in 1 .. N
    BY RankFacts
  <2>2. IsFiniteSet(Rank(N, d, j)) /\ Cardinality(Rank(N, d, j)) \in 1 .. N
    BY RankFacts
  <2>. QED BY <2>1, <2>2
<1>4. /\ Cardinality(Rank(N, d, i)) <= Cardinality(Rank(N, d, j))
      /\ Cardinality(Rank(N, d, j)) = Cardinality(Rank(N, d, i)) => Rank(N, d, j) = Rank(N, d, i)
  BY <1>1, <1>3, FS_Subset
<1>. QED BY <1>2, <1>3, <1>4

\* Each place of the result is some entry's, and the result is in the order of digits.
Turns(N, d, v) ==
    /\ v \in [1 .. N -> 1 .. N]
    /\ \A i \in 1 .. N : \E n \in 1 .. N : v[n] = i
    /\ \A n, p \in 1 .. N : n < p => Sooner(d, v[n], v[p])

LEMMA RanksTurn ==
    ASSUME NEW N \in Nat, NEW d \in [1 .. N -> Nat]
    PROVE  Turns(N, d, [n \in 1 .. N |-> CHOOSE i \in 1 .. N : Cardinality(Rank(N, d, i)) = n])
<1>1. PICK t : t = [i \in 1 .. N |-> Cardinality(Rank(N, d, i))]
  OBVIOUS
<1>2. t \in [1 .. N -> 1 .. N]
  BY <1>1, RankFacts
<1>3. \A i, j \in 1 .. N : Sooner(d, i, j) => t[i] < t[j]
  BY <1>1, RankGrows
<1>4. \A i, j \in 1 .. N : i = j \/ Sooner(d, i, j) \/ Sooner(d, j, i)
  BY DEF Sooner
<1>5. t \in Injection(1 .. N, 1 .. N)
  <2>. SUFFICES ASSUME NEW i \in 1 .. N, NEW j \in 1 .. N, t[i] = t[j] PROVE i = j
    BY <1>2 DEF Injection, IsInjective
  <2>1. t[i] \in 1 .. N /\ t[j] \in 1 .. N
    BY <1>2
  <2>. QED BY <1>3, <1>4, <2>1
<1>6. IsFiniteSet(1 .. N)
  BY FS_Interval
<1>7. t \in Surjection(1 .. N, 1 .. N)
  BY <1>5, <1>6, FS_Injection
<1>8. \A n \in 1 .. N : \E i \in 1 .. N : t[i] = n
  BY <1>7 DEF Surjection
<1>9. PICK v : v = [n \in 1 .. N |-> CHOOSE i \in 1 .. N : Cardinality(Rank(N, d, i)) = n]
  OBVIOUS
<1>10. \A n \in 1 .. N : v[n] \in 1 .. N /\ t[v[n]] = n
  <2>. SUFFICES ASSUME NEW n \in 1 .. N PROVE v[n] \in 1 .. N /\ t[v[n]] = n
    OBVIOUS
  <2>1. \E i \in 1 .. N : Cardinality(Rank(N, d, i)) = n
    BY <1>1, <1>8
  <2>2. v[n] = CHOOSE i \in 1 .. N : Cardinality(Rank(N, d, i)) = n
    BY <1>9
  <2>. QED BY <1>1, <2>1, <2>2
<1>11. v \in [1 .. N -> 1 .. N]
  BY <1>9, <1>10
<1>12. \A i \in 1 .. N : \E n \in 1 .. N : v[n] = i
  <2>. SUFFICES ASSUME NEW i \in 1 .. N PROVE v[t[i]] = i /\ t[i] \in 1 .. N
    OBVIOUS
  <2>1. t[i] \in 1 .. N
    BY <1>2
  <2>2. v[t[i]] \in 1 .. N /\ t[v[t[i]]] = t[i]
    BY <1>10, <2>1
  <2>3. ~Sooner(d, i, v[t[i]]) /\ ~Sooner(d, v[t[i]], i)
    BY <1>3, <2>1, <2>2
  <2>. QED BY <1>4, <2>1, <2>2, <2>3
<1>13. \A n, p \in 1 .. N : n < p => Sooner(d, v[n], v[p])
  <2>. SUFFICES ASSUME NEW n \in 1 .. N, NEW p \in 1 .. N, n < p PROVE Sooner(d, v[n], v[p])
    OBVIOUS
  <2>1. v[n] \in 1 .. N /\ v[p] \in 1 .. N /\ t[v[n]] = n /\ t[v[p]] = p
    BY <1>10
  <2>2. v[n] # v[p] /\ ~Sooner(d, v[p], v[n])
    BY <1>3, <2>1
  <2>. QED BY <1>4, <2>1, <2>2
<1>. QED BY <1>9, <1>11, <1>12, <1>13 DEF Turns

\* What the invariant asks of the buffer in use: the entries of the input, in the order of the
\* keys' digits so far.
Rows(s, N) == s \in Seq(Entries2) /\ Len(s) = N
InOrder(s, N, w) == \A i, j \in 1 .. N : i < j => Before(s[i], s[j], w)

LEMMA ScatteredIs ==
    ASSUME NEW N \in Nat, NEW s, Rows(s, N), NEW w \in Nat \ {0}, w = Weight[pass], InOrder(s, N, w)
    PROVE  /\ Rows(Scattered(s), N) /\ InOrder(Scattered(s), N, Radix * w)
           /\ ToSet(Scattered(s)) = ToSet(s)
<1>0. DOMAIN s = 1 .. N /\ \A i \in 1 .. N : s[i] \in Entries2
  BY DEF Rows
<1>1. PICK d : d = [i \in 1 .. N |-> DigitOf(s[i], w)]
  OBVIOUS
<1>2. d \in [1 .. N -> Nat]
  <2>. SUFFICES ASSUME NEW i \in 1 .. N PROVE DigitOf(s[i], w) \in Nat
    BY <1>1
  <2>1. s[i][1] \in Nat /\ Radix \in Nat \ {0}
    BY <1>0, SortAssumption DEF Entries2
  <2>2. s[i][1] \div w \in Nat
    BY <2>1, DivisionIs
  <2>. QED BY <2>1, <2>2 DEF DigitOf
<1>3. \A i \in 1 .. N : Digit(s[i]) = d[i]
  BY <1>1 DEF Digit, DigitOf
<1>4. \A i \in 1 .. N : Target(s, i) = Cardinality(Rank(N, d, i))
  <2>. SUFFICES ASSUME NEW i \in 1 .. N
                PROVE  {j \in DOMAIN s : Digit(s[j]) < Digit(s[i]) \/ (Digit(s[j]) = Digit(s[i]) /\ j <= i)}
                         = Rank(N, d, i)
    BY DEF Target
  <2>. QED BY <1>0, <1>3 DEF Rank
<1>5. PICK v : v = [n \in 1 .. N |-> CHOOSE i \in 1 .. N : Cardinality(Rank(N, d, i)) = n]
  OBVIOUS
<1>6. Turns(N, d, v)
  BY <1>2, <1>5, RanksTurn
<1>7. PICK r : r = Scattered(s)
  OBVIOUS
<1>8. r = [n \in 1 .. N |-> s[v[n]]]
  <2>1. \A n \in 1 .. N : (CHOOSE i \in DOMAIN s : Target(s, i) = n) = v[n]
    <3>. SUFFICES ASSUME NEW n \in 1 .. N PROVE (CHOOSE i \in DOMAIN s : Target(s, i) = n) = v[n]
      OBVIOUS
    <3>1. v[n] = CHOOSE i \in 1 .. N : Cardinality(Rank(N, d, i)) = n
      BY <1>5
    <3>. QED BY <1>0, <1>4, <3>1
  <2>2. r = [n \in DOMAIN s |-> s[CHOOSE i \in DOMAIN s : Target(s, i) = n]]
    BY <1>7 DEF Scattered
  <2>3. DOMAIN s = 1 .. N
    BY <1>0
  <2>4. r = [n \in 1 .. N |-> s[CHOOSE i \in DOMAIN s : Target(s, i) = n]]
    BY <2>2, <2>3
  <2>5. \A n \in 1 .. N : s[CHOOSE i \in DOMAIN s : Target(s, i) = n] = s[v[n]]
    BY <2>1
  <2>. QED BY <2>4, <2>5
<1>9. v \in [1 .. N -> 1 .. N]
  BY <1>6 DEF Turns
<1>10. Rows(r, N)
  <2>1. \A n \in 1 .. N : r[n] \in Entries2
    BY <1>0, <1>8, <1>9
  <2>2. r \in [1 .. N -> Entries2]
    BY <1>8, <2>1
  <2>. QED BY <2>2 DEF Rows
<1>11. InOrder(r, N, Radix * w)
  <2>. SUFFICES ASSUME NEW n \in 1 .. N, NEW p \in 1 .. N, n < p PROVE Before(r[n], r[p], Radix * w)
    BY DEF InOrder
  <2>1. PICK i \in 1 .. N : i = v[n]
    BY <1>9
  <2>2. PICK j \in 1 .. N : j = v[p]
    BY <1>9
  <2>3. Sooner(d, i, j)
    BY <1>6, <2>1, <2>2 DEF Turns
  <2>4. DigitOf(s[i], w) < DigitOf(s[j], w) \/ (DigitOf(s[i], w) = DigitOf(s[j], w) /\ i < j)
    BY <1>1, <2>3 DEF Sooner
  <2>5. i < j => Before(s[i], s[j], w)
    BY DEF InOrder
  <2>6. s[i] \in Entries2 /\ s[j] \in Entries2
    BY <1>0
  <2>7. Before(s[i], s[j], Radix * w)
    BY <2>4, <2>5, <2>6, BeforeByDigit
  <2>. QED BY <1>8, <2>1, <2>2, <2>7
<1>12. ToSet(r) = ToSet(s)
  <2>1. DOMAIN r = 1 .. N
    BY <1>8
  <2>2. \A n \in 1 .. N : v[n] \in 1 .. N /\ r[n] = s[v[n]]
    BY <1>8, <1>9
  <2>3. \A i \in 1 .. N : \E n \in 1 .. N : v[n] = i
    BY <1>6 DEF Turns
  <2>4. \A x : x \in ToSet(r) <=> \E n \in 1 .. N : x = r[n]
    BY <2>1 DEF ToSet
  <2>5. \A x : x \in ToSet(s) <=> \E n \in 1 .. N : x = s[n]
    BY <1>0 DEF ToSet
  <2>6. \A x : x \in ToSet(r) => x \in ToSet(s)
    BY <2>2, <2>4, <2>5
  <2>7. \A x : x \in ToSet(s) => x \in ToSet(r)
    BY <2>2, <2>3, <2>4, <2>5
  <2>. QED BY <2>6, <2>7
<1>. QED BY <1>7, <1>10, <1>11, <1>12

\* A pass left out, since all the entries have one digit.
LEMMA OneBucketIs ==
    ASSUME NEW N \in Nat, NEW s, Rows(s, N), NEW w \in Nat \ {0}, w = Weight[pass], InOrder(s, N, w), OneBucket(s)
    PROVE  InOrder(s, N, Radix * w)
<1>. SUFFICES ASSUME NEW i \in 1 .. N, NEW j \in 1 .. N, i < j PROVE Before(s[i], s[j], Radix * w)
  BY DEF InOrder
<1>1. s[i] \in Entries2 /\ s[j] \in Entries2 /\ DOMAIN s = 1 .. N
  BY DEF Rows
<1>2. Digit(s[i]) = Digit(s[j])
  BY <1>1 DEF OneBucket
<1>3. DigitOf(s[i], w) = DigitOf(s[j], w)
  BY <1>2 DEF Digit, DigitOf
<1>4. Before(s[i], s[j], w)
  BY DEF InOrder
<1>. QED BY <1>1, <1>3, <1>4, BeforeByDigit

\* Between two passes: the buffer in use holds the entries in the order of the digits so far.
SortIInv ==
    LET N == Len(input) IN
    /\ N \in Nat /\ pass \in 0 .. PassCount /\ src \in {"keys", "tmp"} /\ finished \in BOOLEAN
    /\ \A e \in ToSet(input) : e[1] \in KeyRange
    /\ Rows(Source, N) /\ ToSet(Source) = ToSet(input) /\ InOrder(Source, N, Weight[pass])
    /\ finished => keys = Source /\ (N < 2 \/ pass = PassCount)

LEMMA WeightIs ==
    /\ Radix \in Nat \ {0} /\ PassCount \in Nat
    /\ \A e \in 0 .. PassCount : Weight[e] \in Nat \ {0}
    /\ Weight[0] = 1
    /\ \A e \in 1 .. PassCount : Weight[e] = Radix * Weight[e - 1]
<1>1. Radix \in Nat \ {0} /\ PassCount \in Nat
  BY SortAssumption
<1>2. /\ Weight \in [0 .. PassCount -> Nat] /\ Weight[0] = 1
      /\ \A e \in 1 .. PassCount : Weight[e] = Radix * Weight[e - 1]
  BY <1>1, PowersFacts DEF Weight
<1>3. \A e \in 0 .. PassCount : Weight[e] # 0
  <2>. SUFFICES ASSUME \E e \in 0 .. PassCount : Weight[e] = 0 PROVE FALSE
    OBVIOUS
  <2>1. PICK T : T = {e \in 0 .. PassCount : Weight[e] = 0}
    OBVIOUS
  <2>2. T \subseteq Nat /\ T # {}
    BY <1>1, <2>1
  <2>3. PICK e \in T : \A f \in T : e <= f
    BY <2>2, Least
  <2>4. e \in 1 .. PassCount /\ e - 1 \in 0 .. PassCount /\ Weight[e] = 0
    BY <1>1, <1>2, <2>1, <2>3
  <2>5. Weight[e - 1] \in Nat /\ Weight[e - 1] # 0
    BY <1>2, <2>1, <2>3, <2>4
  <2>6. Weight[e] = Radix * Weight[e - 1]
    BY <1>2, <2>4
  <2>7. Radix * Weight[e - 1] # 0
    BY <1>1, <2>5
  <2>. QED BY <2>4, <2>6, <2>7
<1>. QED BY <1>1, <1>2, <1>3

LEMMA SortStarts == SortInit => SortIInv
<1>. SUFFICES ASSUME NEW x \in Inputs, SortOf(x) PROVE SortIInv
  BY DEF SortInit
<1>0. PICK n \in 0 .. MaxLen : x \in {[i \in 1 .. n |-> <<g[i], i>>] : g \in [1 .. n -> KeyRange]}
  BY DEF Inputs
<1>1. PICK f \in [1 .. n -> KeyRange] : x = [i \in 1 .. n |-> <<f[i], i>>]
  BY <1>0
<1>2. /\ input = x /\ keys = x /\ src = "keys" /\ pass = 0 /\ finished = FALSE
  BY DEF SortOf
<1>3. n \in Nat /\ \A i \in 1 .. n : f[i] \in Nat /\ f[i] \in KeyRange
  <2>1. KeyRange \subseteq Nat
    BY WeightIs DEF KeyRange
  <2>2. \A i \in 1 .. n : f[i] \in KeyRange
    OBVIOUS
  <2>3. n \in Nat
    BY SortAssumption
  <2>. QED BY <2>1, <2>2, <2>3
<1>4. x \in Seq(Entries2) /\ Len(x) = n
  <2>1. x \in [1 .. n -> Entries2]
    BY <1>1, <1>3 DEF Entries2
  <2>. QED BY <1>3, <2>1
<1>5. Source = x /\ Rows(Source, n)
  BY <1>2, <1>4 DEF Source, Rows
<1>6. InOrder(x, n, 1)
  <2>. SUFFICES ASSUME NEW i \in 1 .. n, NEW j \in 1 .. n, i < j PROVE Before(x[i], x[j], 1)
    BY DEF InOrder
  <2>1. x[i] = <<f[i], i>> /\ x[j] = <<f[j], j>>
    BY <1>1
  <2>2. f[i] % 1 = 0 /\ f[j] % 1 = 0
    BY <1>3
  <2>. QED BY <2>1, <2>2 DEF Before
<1>7. InOrder(Source, n, Weight[pass])
  BY <1>2, <1>5, <1>6, WeightIs
<1>8. \A e \in ToSet(input) : e[1] \in KeyRange
  <2>. SUFFICES ASSUME NEW e \in ToSet(input) PROVE e[1] \in KeyRange
    OBVIOUS
  <2>1. PICK i \in 1 .. n : e = <<f[i], i>>
    BY <1>1, <1>2 DEF ToSet
  <2>. QED BY <1>3, <2>1
<1>9. pass \in 0 .. PassCount /\ src \in {"keys", "tmp"} /\ finished = FALSE
  BY <1>2, SortAssumption
<1>10. n = Len(input) /\ ToSet(Source) = ToSet(input)
  BY <1>2, <1>4, <1>5
<1>. QED BY <1>3, <1>5, <1>7, <1>8, <1>9, <1>10 DEF SortIInv

LEMMA PassStays == SortIInv /\ RadixPass => SortIInv'
<1>. SUFFICES ASSUME SortIInv, RadixPass PROVE SortIInv'
  OBVIOUS
<1>1. PICK N : N = Len(input)
  OBVIOUS
<1>2. /\ N \in Nat /\ pass \in 0 .. PassCount /\ src \in {"keys", "tmp"}
      /\ \A e \in ToSet(input) : e[1] \in KeyRange
      /\ Rows(Source, N) /\ ToSet(Source) = ToSet(input) /\ InOrder(Source, N, Weight[pass])
  BY <1>1 DEF SortIInv
<1>3. /\ ~finished /\ pass < PassCount /\ pass' = pass + 1 /\ input' = input /\ finished' = finished
  BY DEF RadixPass
<1>4. PICK w \in Nat \ {0} : w = Weight[pass] /\ Weight[pass + 1] = Radix * w
  <2>1. pass + 1 \in 1 .. PassCount /\ (pass + 1) - 1 = pass
    BY <1>2, <1>3, SortAssumption
  <2>. QED BY <1>2, <2>1, WeightIs
<1>5. PICK s : s = Source
  OBVIOUS
<1>6. Rows(s, N) /\ InOrder(s, N, w)
  BY <1>2, <1>4, <1>5
<1>7. PICK r : r = IF OneBucket(s) THEN s ELSE Scattered(s)
  OBVIOUS
<1>8. /\ Rows(r, N) /\ ToSet(r) = ToSet(s) /\ InOrder(r, N, Radix * w)
  <2>1. CASE OneBucket(s)
    BY <1>2, <1>4, <1>6, <1>7, <2>1, OneBucketIs
  <2>2. CASE ~OneBucket(s)
    BY <1>2, <1>4, <1>6, <1>7, <2>2, ScatteredIs
  <2>. QED BY <2>1, <2>2
<1>9. Source' = r /\ src' \in {"keys", "tmp"}
  <2>1. CASE OneBucket(s)
    <3>1. keys' = keys /\ tmp' = tmp /\ src' = src
      BY <1>5, <2>1 DEF RadixPass
    <3>. QED BY <1>2, <1>5, <1>7, <2>1, <3>1 DEF Source
  <2>2. CASE ~OneBucket(s) /\ src = "keys"
    <3>1. tmp' = Scattered(keys) /\ src' = "tmp" /\ s = keys
      BY <1>5, <2>2 DEF RadixPass, Source
    <3>. QED BY <1>7, <2>2, <3>1 DEF Source
  <2>3. CASE ~OneBucket(s) /\ src # "keys"
    <3>1. keys' = Scattered(tmp) /\ src' = "keys" /\ s = tmp
      BY <1>5, <2>3 DEF RadixPass, Source
    <3>. QED BY <1>7, <2>3, <3>1 DEF Source
  <2>. QED BY <2>1, <2>2, <2>3
<1>10. Weight' = Weight /\ KeyRange' = KeyRange
  BY DEF Weight, KeyRange, Powers
<1>11. InOrder(Source, N, Weight[pass])'
  BY <1>3, <1>4, <1>8, <1>9, <1>10 DEF InOrder, Before
<1>12. pass' \in 0 .. PassCount /\ finished' = FALSE
  BY <1>2, <1>3, SortAssumption
<1>. QED BY <1>1, <1>2, <1>3, <1>5, <1>8, <1>9, <1>10, <1>11, <1>12 DEF SortIInv, Rows

LEMMA CopyStays == SortIInv /\ CopyBack => SortIInv'
<1>. SUFFICES ASSUME SortIInv, CopyBack PROVE SortIInv'
  OBVIOUS
<1>1. /\ keys' = Source /\ finished' = TRUE /\ input' = input /\ tmp' = tmp /\ src' = src /\ pass' = pass
      /\ (Len(input) < 2 \/ pass = PassCount)
  BY DEF CopyBack
<1>2. Source' = Source
  BY <1>1 DEF Source
<1>3. Weight' = Weight /\ KeyRange' = KeyRange
  BY DEF Weight, KeyRange, Powers
<1>. QED BY <1>1, <1>2, <1>3 DEF SortIInv, Rows, InOrder, Before

LEMMA SortedAtTheEnd == SortIInv => SortedStably
<1>. SUFFICES ASSUME SortIInv, finished PROVE
        /\ ToSet(keys) = ToSet(input) /\ Len(keys) = Len(input)
        /\ \A i \in 2 .. Len(keys) :
              \/ keys[i - 1][1] < keys[i][1]
              \/ keys[i - 1][1] = keys[i][1] /\ keys[i - 1][2] < keys[i][2]
  BY DEF SortedStably
<1>1. PICK N : N = Len(input)
  OBVIOUS
<1>2. /\ N \in Nat /\ (\A e \in ToSet(input) : e[1] \in KeyRange)
      /\ Rows(keys, N) /\ ToSet(keys) = ToSet(input) /\ InOrder(keys, N, Weight[pass])
      /\ (N < 2 \/ pass = PassCount)
  BY <1>1 DEF SortIInv
<1>3. Len(keys) = N /\ DOMAIN keys = 1 .. N
  BY <1>2 DEF Rows
<1>4. ASSUME NEW i \in 2 .. N
      PROVE  \/ keys[i - 1][1] < keys[i][1]
             \/ keys[i - 1][1] = keys[i][1] /\ keys[i - 1][2] < keys[i][2]
  <2>1. pass = PassCount /\ i - 1 \in 1 .. N /\ i \in 1 .. N /\ i - 1 < i
    BY <1>2
  <2>2. PICK w \in Nat \ {0} : w = Weight[PassCount]
    BY WeightIs
  <2>3. Before(keys[i - 1], keys[i], w)
    BY <1>2, <2>1, <2>2 DEF InOrder
  <2>4. keys[i - 1] \in ToSet(input) /\ keys[i] \in ToSet(input)
    BY <1>2, <1>3, <2>1 DEF ToSet
  <2>5. keys[i - 1][1] \in 0 .. w - 1 /\ keys[i][1] \in 0 .. w - 1
    BY <1>2, <2>2, <2>4 DEF KeyRange
  <2>6. keys[i - 1][1] % w = keys[i - 1][1] /\ keys[i][1] % w = keys[i][1]
    BY <2>2, <2>5
  <2>. QED BY <2>3, <2>6 DEF Before
<1>. QED BY <1>1, <1>2, <1>3, <1>4

\* For any radix, any number of digits and any length: sort_kv puts the entries in the order of
\* their keys and leaves those of one key in the order they had, whichever passes it leaves
\* out, and the result lies in the caller's buffer (sort.cpp).
THEOREM RadixSortsStably == SortSpec => []SortedStably
<1>1. SortInit => SortIInv
  BY SortStarts
<1>2. SortIInv /\ [SortNext]_sort_vars => SortIInv'
  <2>. SUFFICES ASSUME SortIInv, [SortNext]_sort_vars PROVE SortIInv'
    OBVIOUS
  <2>1. CASE RadixPass
    BY <2>1, PassStays
  <2>2. CASE CopyBack
    BY <2>2, CopyStays
  <2>3. CASE UNCHANGED sort_vars
    <3>1. Weight' = Weight /\ KeyRange' = KeyRange
      BY DEF Weight, KeyRange, Powers
    <3>2. Source' = Source
      BY <2>3 DEF sort_vars, Source
    <3>. QED BY <2>3, <3>1, <3>2 DEF sort_vars, SortIInv, Rows, InOrder, Before
  <2>. QED BY <2>1, <2>2, <2>3 DEF SortNext
<1>3. SortIInv => SortedStably
  BY SortedAtTheEnd
<1>. QED BY <1>1, <1>2, <1>3, PTL DEF SortSpec

\* What the runtime promises of its containers and tables, of every size at once.
THEOREM ContainersAreExact == RegistrySpec /\ SortSpec /\ HSpec => []ContainersInv
<1>1. RegistrySpec => []RegistryInv
  BY RegistryIsExact
<1>2. SortSpec => []SortedStably
  BY RadixSortsStably
<1>3. HSpec => []HandlesInv
  BY HandlesTellTheirPrimitive
<1>4. RegistryInv /\ SortedStably /\ HandlesInv => ContainersInv
  BY DEF ContainersInv
<1>. QED BY <1>1, <1>2, <1>3, <1>4, PTL
=============================================================================

--------------------------- MODULE ArenaRegistry ---------------------------
(***************************************************************************)
(* Registered arenas and their snapshot: foundation/vmem_arena.cpp and     *)
(* foundation/arena_registry.cpp, byte by byte.  An arena reserves address *)
(* space, commits it by granules, and reuses what was cut off its end; a   *)
(* snapshot packs the arenas, in the order of their registration, into one *)
(* blob.  A byte that was never written, or whose page went back to the    *)
(* system, reads 0.                                                        *)
(***************************************************************************)
EXTENDS Integers, SequencesExt

CONSTANTS
    Ids,         \* the arenas of a world
    Registered,  \* ArenaRegistry.e: the arenas in the order of their registration
    Snapshotted, \* choices of the arenas with ARENA_SNAPSHOT
    Ask,         \* of an arena: the bytes asked of vmem_arena_init
    Granule,     \* COMMIT_GRANULE
    SegAlign,    \* alignment of a segment of a blob
    BlobCap,     \* bytes of a blob
    Grows        \* bound: the (bytes, alignment) pairs that are pushed

ASSUME SizesAssumption ==
    /\ Granule \in Nat \ {0} /\ SegAlign \in Nat \ {0} /\ BlobCap \in Nat
    /\ Registered \in Seq(Ids) /\ Snapshotted \subseteq SUBSET Ids
    /\ \A a \in Ids : \E n \in DOMAIN Registered : Registered[n] = a
    /\ Ask \in [Ids -> Nat \ {0}]
    /\ Grows \subseteq (Nat \X (Nat \ {0}))

VARIABLES
    snapshotted, \* the arenas with ARENA_SNAPSHOT, once the registry is sealed
    arena,       \* VMemArena of each: committed, used, high_water, and the bytes
    snapshot,    \* one Snapshot: fingerprint, count, used, blob
    stopped      \* a TL_FATAL

vars == <<snapshotted, arena, snapshot, stopped>>

AlignUp(v, align) == ((v + align - 1) \div align) * align
Lesser(m, n) == IF m < n THEN m ELSE n
Greater(m, n) == IF m < n THEN n ELSE m

Reserved == [a \in Ids |-> AlignUp(Ask[a], Granule)]
Offsets(a) == 0 .. Reserved[a] - 1

\* vmem_arena_init: nothing is committed.
EmptyArena(a) ==
    [committed |-> 0, used |-> 0, high_water |-> 0, bytes |-> [i \in Offsets(a) |-> 0]]

-----------------------------------------------------------------------------
\* arena_push and ensure_committed.
Start(v, align) == AlignUp(v.used, align)
Bug_Committed(a, v, end) == Greater(v.committed, end)
Committed(a, v, end) ==
    IF end > v.committed THEN AlignUp(end, Granule) ELSE v.committed
Overruns(a, v, end) == end > v.committed /\ AlignUp(end, Granule) > Reserved[a]

Bug_Zeroed(v, align, end) == Start(v, align) .. Lesser(end, v.high_water) - 1

\* ARENA_ZERO_ON_PUSH: what is pushed again and was dirty, the gap included.
Zeroed(v, align, end) == v.used .. Lesser(end, v.high_water) - 1

Pushed(a, v, bytes, align) ==
    LET end == Start(v, align) + bytes
    IN  [committed |-> Committed(a, v, end), used |-> end,
         high_water |-> Greater(v.high_water, end),
         bytes |-> [i \in Offsets(a) |-> IF i \in Zeroed(v, align, end) THEN 0 ELSE v.bytes[i]]]

Bug_Decommitted(a, v, mark) ==
    LET keep == AlignUp(mark, Granule)
    IN  IF keep < v.committed
        THEN [committed |-> keep, used |-> Lesser(v.used, mark),
              high_water |-> Lesser(v.high_water, mark),
              bytes |-> [i \in Offsets(a) |-> IF i >= keep THEN 0 ELSE v.bytes[i]]]
        ELSE [v EXCEPT !.used = Lesser(@, mark)]

\* arena_decommit_above: whole granules go back, and read zero when they return.
Decommitted(a, v, mark) ==
    LET keep == AlignUp(mark, Granule)
    IN  IF keep < v.committed
        THEN [committed |-> keep, used |-> Lesser(v.used, mark),
              high_water |-> Lesser(v.high_water, keep),
              bytes |-> [i \in Offsets(a) |-> IF i >= keep THEN 0 ELSE v.bytes[i]]]
        ELSE [v EXCEPT !.used = Lesser(@, mark)]

-----------------------------------------------------------------------------
\* Blobs.  Where the segments end when the arenas have these extents, arena by
\* arena in registry order, and where an arena's begins.
NoBlob == [i \in 0 .. BlobCap - 1 |-> 0]
Extents(used) ==
    LET end[n \in 0 .. Len(Registered)] ==
            IF n = 0 THEN 0
            ELSE IF Registered[n] \in snapshotted
            THEN AlignUp(end[n - 1], SegAlign) + used[Registered[n]]
            ELSE end[n - 1]
    IN  end
Offset(used, a) ==
    LET n == CHOOSE m \in DOMAIN Registered : Registered[m] = a
    IN  AlignUp(Extents(used)[n - 1], SegAlign)
Need(used) == Extents(used)[Len(Registered)]

UsedOf == [a \in Ids |-> arena[a].used]

\* What arena a has in a blob laid out for these extents.
Segment(blob, used, a) == [i \in 0 .. used[a] - 1 |-> blob[Offset(used, a) + i]]

Covers(a, i) ==
    a \in snapshotted /\ i \in Offset(UsedOf, a) .. Offset(UsedOf, a) + arena[a].used - 1

\* The blob the segments are copied into; what is between them is left out.
Packed ==
    [i \in DOMAIN NoBlob |->
        IF \E a \in Ids : Covers(a, i)
        THEN LET a == CHOOSE a \in Ids : Covers(a, i)
             IN  arena[a].bytes[i - Offset(UsedOf, a)]
        ELSE 0]

NoSnapshot ==
    [fingerprint |-> <<>>, count |-> 0, used |-> [a \in Ids |-> 0], blob |-> NoBlob]

-----------------------------------------------------------------------------
Init ==
    /\ snapshotted \in Snapshotted
    /\ arena = [a \in Ids |-> EmptyArena(a)]
    /\ snapshot = NoSnapshot
    /\ stopped = FALSE

Push(a, bytes, align) ==
    LET end == Start(arena[a], align) + bytes
    IN  /\ stopped' = Overruns(a, arena[a], end)
        /\ arena' = IF stopped' THEN arena
                    ELSE [arena EXCEPT ![a] = Pushed(a, @, bytes, align)]
        /\ UNCHANGED <<snapshotted, snapshot>>

\* The owner of a block writes into it; bound: one written byte at a time.
Write(a, i) ==
    /\ i < arena[a].used /\ \A b \in Ids : \A j \in Offsets(b) : arena[b].bytes[j] = 0
    /\ arena' = [arena EXCEPT ![a].bytes[i] = 1]
    /\ UNCHANGED <<snapshotted, snapshot, stopped>>

ArenaResetTo(a, mark) ==
    /\ mark <= arena[a].used
    /\ arena' = [arena EXCEPT ![a].used = mark]
    /\ UNCHANGED <<snapshotted, snapshot, stopped>>

ArenaDecommitAbove(a, mark) ==
    /\ arena' = [arena EXCEPT ![a] = Decommitted(a, @, mark)]
    /\ UNCHANGED <<snapshotted, snapshot, stopped>>

\* registry_snapshot: refused before a byte moves, and the slot then holds nothing.
RegistrySnapshot ==
    /\ snapshot' =
          IF Need(UsedOf) > BlobCap
          THEN NoSnapshot
          ELSE [fingerprint |-> Registered, count |-> Len(Registered), used |-> UsedOf,
                blob |-> Packed]
    /\ UNCHANGED <<snapshotted, arena, stopped>>

\* The fingerprint folds the ids in order (registry_seal).
Matches == snapshot.count = Len(Registered) /\ snapshot.fingerprint = Registered

Restored(a) == Segment(snapshot.blob, snapshot.used, a)

\* registry_restore of an arena: commit what is missing, copy, and keep the
\* boundary of what was ever dirty.
RestoredArena(a) ==
    LET v == arena[a]
        want == snapshot.used[a]
    IN  [committed |-> Committed(a, v, want), used |-> want,
         high_water |-> Greater(v.high_water, want),
         bytes |-> [i \in Offsets(a) |-> IF i < want THEN Restored(a)[i] ELSE v.bytes[i]]]

RegistryRestore ==
    /\ Matches
    /\ arena' = [a \in Ids |-> IF a \in snapshotted THEN RestoredArena(a) ELSE arena[a]]
    /\ UNCHANGED <<snapshotted, snapshot, stopped>>

\* Another process that was handed a snapshot (rejoin): its own session's, or one
\* of a build that registers the same arenas in another order.
Rejoin ==
    /\ arena' = [a \in Ids |-> EmptyArena(a)]
    /\ \E fingerprint \in {snapshot.fingerprint, Reverse(Registered)} :
          snapshot' = [snapshot EXCEPT !.fingerprint = fingerprint]
    /\ UNCHANGED <<snapshotted, stopped>>

Next ==
    /\ ~stopped
    /\ \/ \E a \in Ids, g \in Grows : Push(a, g[1], g[2])
       \/ \E a \in Ids : \E i \in Offsets(a) : Write(a, i) \/ ArenaResetTo(a, i)
                                               \/ ArenaDecommitAbove(a, i)
       \/ RegistrySnapshot \/ RegistryRestore \/ Rejoin

Spec == Init /\ [][Next]_vars

-----------------------------------------------------------------------------
\* Types, and "used <= committed <= reserved, all page-tracked" (vmem_arena.h).
TypeOK ==
    /\ snapshotted \in Snapshotted
    /\ \A a \in Ids :
          /\ arena[a].used <= arena[a].high_water
          /\ arena[a].high_water <= arena[a].committed
          /\ arena[a].committed <= Reserved[a] /\ arena[a].committed % Granule = 0
          /\ arena[a].bytes \in [Offsets(a) -> 0 .. 1]

\* The dirty/clean boundary (vmem_arena.h): what was never below the mark since its
\* page was committed reads zero, so that zeroing up to high_water is enough.
CleanAboveHighWater ==
    \A a \in Ids : \A i \in Offsets(a) : i >= arena[a].high_water => arena[a].bytes[i] = 0

\* The arenas, between any two calls.
ArenasInv == TypeOK /\ CleanAboveHighWater

\* "hashed bytes are a pure function of state, never of allocation history"
\* (vmem_arena.h): the arenas are stacks of bytes that begin as zeros, cut off and
\* restored, and a blown budget is exactly one byte past the reserve.
AsSeq(f, n) == [i \in 1 .. n |-> f[i - 1]]
SavedImage ==
    IF Matches
    THEN [a \in snapshotted |->
             AsSeq(Segment(snapshot.blob, snapshot.used, a), snapshot.used[a])]
    ELSE <<>>

Stack == INSTANCE ByteStack WITH
    Room <- Reserved, saved <- SavedImage,
    contents <- [a \in Ids |-> AsSeq(arena[a].bytes, arena[a].used)]
PureFunctionOfState == Stack!Spec
=============================================================================

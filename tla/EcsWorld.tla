------------------------------ MODULE EcsWorld ------------------------------
(***************************************************************************)
(* Entities and their components: core/commands.cpp on foundation/         *)
(* slotmap.h and core/column.cpp, with the snapshot and post_restore of    *)
(* rollback (core/world.cpp).  Structure never changes where it is asked   *)
(* for: the verbs append records to the chunk of the running system, and   *)
(* apply_commands performs them at a barrier, chunk by chunk.  One         *)
(* apply_commands is one ApplyBegin, an Apply step per record, ApplyEnd.   *)
(***************************************************************************)
EXTENDS Integers, SequencesExt

CONSTANTS
    MaxIdx,         \* Entity::IDX_MASK
    GenMax,         \* Entity::GEN_MAX
    Comps,          \* component types
    Values,         \* what a component can hold
    Systems,        \* systems in a phase, in schedule order 1 .. Systems
    MaxRecords,     \* bound: records of a command window
    MaxSpawns,      \* bound: spawns in the life of a world
    Rollback        \* whether snapshots are taken and restored

ASSUME EcsBounds ==
    /\ MaxIdx \in Nat /\ GenMax \in Nat \ {0, 1} /\ Systems \in Nat
    /\ IsFiniteSet(Comps) /\ Values # {}

Idx == 0 .. MaxIdx
Entities == [idx : Idx, gen : 1 .. GenMax]
External == Systems + 1     \* the chunk of recorders outside any system
Chunks == 1 .. External
None == -1                  \* ECS_SPARSE_NONE

SpawnKind == "spawn_realize"
Records == [kind : {SpawnKind, "destroy"}, e : Entities]
           \cup [kind : {"add", "set_field"}, e : Entities, comp : Comps, v : Values]
           \cup [kind : {"remove"}, e : Entities, comp : Comps]

VARIABLES
    \* the bytes of the registered arenas: what is hashed and snapshotted
    gen,            \* the u16 generation column; 0 is a slot never allocated
    live,           \* the live bitset
    free,           \* the free list's storage, by position
    comp_count,     \* EntityRecord.comp_count
    rows,           \* per component, its dense rows and their entities
    sparse,         \* per component, entity index -> row
    \* counts kept beside the arenas, rebuilt by world_post_restore
    slot_count, live_count, quarantined, free_count,
    \* transients
    pending_fresh, reserved_free, window_popped,
    chunks,         \* the command chunks
    running,        \* whose chunk the verbs record into
    todo,           \* records apply_commands has still to perform
    pc,             \* "record", "apply", or why the process stopped
    saved,          \* what a snapshot copied
    \* history
    issued,         \* handles world_spawn has returned on this timeline
    realized,       \* those that have been alive
    want            \* what each component of each entity should hold

arenas == <<gen, live, free, comp_count, rows, sparse>>
counts == <<slot_count, live_count, quarantined, free_count>>
window == <<pending_fresh, reserved_free, window_popped, chunks>>
history == <<issued, realized, want>>
vars == <<arenas, counts, window, running, todo, pc, saved, history>>

Fatal == {"destroy of a pending entity", "check failed", "domain exhausted"}
Pos == 0 .. MaxIdx
RowsOf(c) == DOMAIN rows[c]

TypeOK ==
    /\ gen \in [Idx -> 0 .. GenMax] /\ live \subseteq Idx /\ free \in [Pos -> Idx]
    /\ comp_count \in [Idx -> 0 .. Cardinality(Comps)]
    /\ \A c \in Comps : rows[c] \in Seq([e : Entities, v : Values])
    /\ sparse \in [Comps -> [Idx -> Nat \cup {None}]]
    /\ slot_count \in 0 .. MaxIdx + 1 /\ live_count \in 0 .. MaxIdx + 1
    /\ quarantined \in 0 .. MaxIdx + 1 /\ free_count \in 0 .. MaxIdx + 1
    /\ pending_fresh \in 0 .. MaxIdx + 1 /\ reserved_free \in 0 .. MaxIdx + 1
    /\ window_popped \subseteq Idx
    /\ \A i \in Chunks : chunks[i] \in Seq(Records)
    /\ running \in Chunks /\ todo \in Seq(Records)
    /\ pc \in {"record", "apply"} \cup Fatal
    /\ issued \subseteq Entities /\ realized \subseteq issued
    /\ want \in [Comps -> [Entities -> Values]]

Nothing == CHOOSE v \in Values : TRUE

Init ==
    /\ gen = [i \in Idx |-> 0] /\ live = {} /\ free = [p \in Pos |-> 0]
    /\ comp_count = [i \in Idx |-> 0]
    /\ rows = [c \in Comps |-> <<>>]
    /\ sparse = [c \in Comps |-> [i \in Idx |-> None]]
    /\ slot_count = 0 /\ live_count = 0 /\ quarantined = 0 /\ free_count = 0
    /\ pending_fresh = 0 /\ reserved_free = 0 /\ window_popped = {}
    /\ chunks = [i \in Chunks |-> <<>>] /\ running = External
    /\ todo = <<>> /\ pc = "record"
    /\ saved = <<>>
    /\ issued = {} /\ realized = {}
    /\ want = [c \in Comps |-> [e \in Entities |-> Nothing]]

-----------------------------------------------------------------------------
(* The slot map and the columns.                                           *)

\* slotmap_alive.
Alive(e) == e.idx < slot_count /\ e.idx \in live /\ gen[e.idx] = e.gen

\* column_get finds a row.
HasRow(c, e) == sparse[c][e.idx] # None /\ rows[c][sparse[c][e.idx]].e = e

\* column_remove: the last row moves into the hole.
Bug_RowsWithout(c, e) ==
    LET d == sparse[c][e.idx]
        last == Len(rows[c])
    IN [p \in 1 .. last - 1 |-> IF p = d THEN [rows[c][last] EXCEPT !.v = rows[c][d].v]
                                         ELSE rows[c][p]]
RowsWithout(c, e) ==
    LET d == sparse[c][e.idx]
        last == Len(rows[c])
    IN [p \in 1 .. last - 1 |-> IF p = d THEN rows[c][last] ELSE rows[c][p]]

Bug_SparseWithout(c, e) == [sparse[c] EXCEPT ![e.idx] = None]
SparseWithout(c, e) ==
    LET moved == rows[c][Len(rows[c])].e
    IN [sparse[c] EXCEPT ![moved.idx] = sparse[c][e.idx], ![e.idx] = None]

-----------------------------------------------------------------------------
(* The verbs: they reserve and record, and touch no arena.                 *)

Recorded == FoldSeq(LAMBDA c, n : Len(c) + n, 0, chunks)

Record(r) == chunks' = [chunks EXCEPT ![running] = Append(@, r)]

\* The slot the next spawn reads off the free list, below those already
\* reserved in this window.
Bug_NextFree == free[free_count - 1]
NextFree == free[free_count - 1 - reserved_free]

Reserve(e) ==
    /\ Record([kind |-> SpawnKind, e |-> e])
    /\ issued' = issued \cup {e}
    /\ UNCHANGED <<arenas, counts, window_popped, running, todo, pc, saved, realized, want>>

CanRecord == pc = "record" /\ Recorded < MaxRecords

SpawnReused ==
    /\ CanRecord /\ Cardinality(issued) < MaxSpawns
    /\ reserved_free < free_count
    /\ reserved_free' = reserved_free + 1 /\ UNCHANGED pending_fresh
    /\ Reserve([idx |-> NextFree, gen |-> gen[NextFree]])

SpawnFresh ==
    /\ CanRecord /\ Cardinality(issued) < MaxSpawns
    /\ reserved_free >= free_count
    /\ slot_count + pending_fresh <= MaxIdx
    /\ pending_fresh' = pending_fresh + 1 /\ UNCHANGED reserved_free
    /\ Reserve([idx |-> slot_count + pending_fresh, gen |-> 1])

SpawnExhausted ==
    /\ CanRecord /\ Cardinality(issued) < MaxSpawns
    /\ reserved_free >= free_count
    /\ slot_count + pending_fresh > MaxIdx
    /\ pc' = "domain exhausted"
    /\ UNCHANGED <<arenas, counts, window, running, todo, saved, history>>

\* world_destroy, world_add_raw, world_remove, world_set_field_cmd.
RecordVerb(r) ==
    /\ CanRecord /\ r.kind # SpawnKind /\ r.e \in issued
    /\ Record(r)
    /\ UNCHANGED <<arenas, counts, pending_fresh, reserved_free, window_popped, running, todo,
                   pc, saved, history>>

\* run_phase publishes the next system of the schedule.
NextSystem ==
    /\ pc = "record" /\ running # Systems
    /\ running' = IF running = External THEN 1 ELSE running + 1
    /\ UNCHANGED <<arenas, counts, window, todo, pc, saved, history>>

-----------------------------------------------------------------------------
(* apply_commands.                                                         *)

\* The reserved entries come off the free list before any record can push.
\* From the last system it is the phase barrier; from another, world_flush.
ApplyBegin ==
    /\ pc = "record"
    /\ window_popped' = {free[free_count - 1 - n] : n \in 0 .. reserved_free - 1}
    /\ free_count' = free_count - reserved_free
    /\ reserved_free' = 0
    /\ todo' = FlattenSeq(chunks) /\ chunks' = [i \in Chunks |-> <<>>]
    /\ pc' = "apply"
    /\ running' \in {running} \cup (IF running = Systems THEN {External} ELSE {})
    /\ UNCHANGED <<arenas, slot_count, live_count, quarantined, pending_fresh, saved, history>>

Applying(kind) == pc = "apply" /\ todo # <<>> /\ Head(todo).kind = kind
Target == Head(todo).e
Done == todo' = Tail(todo)

CheckFails ==
    /\ pc' = "check failed"
    /\ UNCHANGED <<arenas, counts, window, running, todo, saved, history>>

\* apply_spawn_realize.  A fresh slot beyond the table pushes the slots below
\* it too: their own realizes may still be to come.
Allocated(e) == IF e.gen = 1 /\ e.idx >= slot_count THEN e.idx + 1 ELSE slot_count
ApplySpawn ==
    /\ Applying(SpawnKind)
    /\ slot_count' = Allocated(Target)
    /\ gen' = [i \in Idx |-> IF i \in slot_count .. slot_count' - 1 THEN 1 ELSE gen[i]]
    /\ IF Target.idx < slot_count' /\ gen'[Target.idx] = Target.gen
          /\ Target.idx \notin live /\ (Target.gen = 1 => pending_fresh > 0)
       THEN /\ live' = live \cup {Target.idx} /\ live_count' = live_count + 1
            /\ pending_fresh' = IF Target.gen = 1 THEN pending_fresh - 1 ELSE pending_fresh
            /\ realized' = realized \cup {Target}
            /\ Done /\ UNCHANGED pc
       ELSE pc' = "check failed" /\ UNCHANGED <<live, live_count, pending_fresh, realized, todo>>
    /\ UNCHANGED <<free, comp_count, rows, sparse, quarantined, free_count, reserved_free,
                   window_popped, chunks, running, saved, issued, want>>

\* spawn_pending: the handle is reserved and its realize is still to come.
Bug_SpawnPending(e) ==
    \/ e.gen = 1 /\ e.idx >= slot_count
    \/ e.idx < slot_count /\ e.idx \notin live /\ gen[e.idx] = e.gen
SpawnPending(e) ==
    \/ e.gen = 1 /\ e.idx >= slot_count
    \/ /\ e.idx < slot_count /\ e.idx \notin live /\ gen[e.idx] = e.gen
       /\ e.gen = 1 \/ e.idx \in window_popped

\* slotmap_remove: a slot at GEN_MAX is never reissued.
Bug_Retire(i) ==
    /\ gen' = [gen EXCEPT ![i] = IF @ = GenMax THEN 1 ELSE @ + 1]
    /\ free' = [free EXCEPT ![free_count] = i] /\ free_count' = free_count + 1
    /\ UNCHANGED quarantined
Bug_RetireNoQuarantine(i) ==
    /\ gen' = [gen EXCEPT ![i] = @ + 1]
    /\ free' = [free EXCEPT ![free_count] = i] /\ free_count' = free_count + 1
    /\ UNCHANGED quarantined
Retire(i) ==
    IF gen[i] = GenMax
    THEN quarantined' = quarantined + 1 /\ UNCHANGED <<gen, free, free_count>>
    ELSE /\ gen' = [gen EXCEPT ![i] = @ + 1]
         /\ free' = [free EXCEPT ![free_count] = i] /\ free_count' = free_count + 1
         /\ UNCHANGED quarantined

ApplyDestroy ==
    /\ Applying("destroy") /\ Alive(Target)
    /\ rows' = [c \in Comps |-> IF HasRow(c, Target) THEN RowsWithout(c, Target) ELSE rows[c]]
    /\ sparse' = [c \in Comps |-> IF HasRow(c, Target) THEN SparseWithout(c, Target)
                                                      ELSE sparse[c]]
    /\ comp_count' = [comp_count EXCEPT ![Target.idx] = 0]
    /\ live' = live \ {Target.idx} /\ live_count' = live_count - 1
    /\ Retire(Target.idx)
    /\ Done
    /\ UNCHANGED <<slot_count, window, running, pc, saved, history>>

ApplyDestroyDead ==
    /\ Applying("destroy") /\ ~Alive(Target)
    /\ IF SpawnPending(Target)
       THEN pc' = "destroy of a pending entity" /\ UNCHANGED todo
       ELSE Done /\ UNCHANGED pc
    /\ UNCHANGED <<arenas, counts, window, running, saved, history>>

ApplyAdd ==
    LET c == Head(todo).comp
        v == Head(todo).v
    IN
    /\ Applying("add")
    /\ IF Alive(Target) /\ sparse[c][Target.idx] = None
       THEN /\ rows' = [rows EXCEPT ![c] = Append(@, [e |-> Target, v |-> v])]
            /\ sparse' = [sparse EXCEPT ![c][Target.idx] = Len(rows[c]) + 1]
            /\ comp_count' = [comp_count EXCEPT ![Target.idx] = @ + 1]
            /\ want' = [want EXCEPT ![c][Target] = v]
            /\ Done
            /\ UNCHANGED <<gen, live, free, counts, window, running, pc, saved, issued,
                           realized>>
       ELSE CheckFails

ApplyRemove ==
    LET c == Head(todo).comp IN
    /\ Applying("remove")
    /\ IF Alive(Target) /\ HasRow(c, Target) /\ comp_count[Target.idx] > 0
       THEN /\ rows' = [rows EXCEPT ![c] = RowsWithout(c, Target)]
            /\ sparse' = [sparse EXCEPT ![c] = SparseWithout(c, Target)]
            /\ comp_count' = [comp_count EXCEPT ![Target.idx] = @ - 1]
            /\ Done
            /\ UNCHANGED <<gen, live, free, counts, window, running, pc, saved, history>>
       ELSE CheckFails

ApplySetField ==
    LET c == Head(todo).comp
        v == Head(todo).v
    IN
    /\ Applying("set_field")
    /\ IF Alive(Target) /\ HasRow(c, Target)
       THEN /\ rows' = [rows EXCEPT ![c][sparse[c][Target.idx]].v = v]
            /\ want' = [want EXCEPT ![c][Target] = v]
            /\ Done
            /\ UNCHANGED <<gen, live, free, comp_count, sparse, counts, window, running, pc,
                           saved, issued, realized>>
       ELSE CheckFails

ApplyEnd ==
    /\ pc = "apply" /\ todo = <<>>
    /\ window_popped' = {} /\ pc' = "record"
    /\ UNCHANGED <<arenas, counts, pending_fresh, reserved_free, chunks, running, todo, saved,
                   history>>

-----------------------------------------------------------------------------
(* Rollback: a snapshot copies the arenas, between ticks, whatever is      *)
(* still reserved or recorded; a restore copies them back and rebuilds the *)
(* counts from their bytes.                                                *)

Save ==
    /\ Rollback /\ pc = "record" /\ running = External
    /\ saved' = [gen |-> gen, live |-> live, free |-> free, comp_count |-> comp_count,
                 rows |-> rows, sparse |-> sparse,
                 counts |-> counts, realized |-> realized, want |-> want]
    /\ UNCHANGED <<arenas, counts, window, running, todo, pc, history>>

\* world_post_restore's derivations from the bytes of the slot map.
Bug_SlotCount(g) == Cardinality({i \in Idx : \A j \in 0 .. i - 1 : g[j] # 0})
SlotCount(g) == Cardinality({i \in Idx : \A j \in 0 .. i : g[j] # 0})
Quarantined(g, alive) == Cardinality({i \in 0 .. SlotCount(g) - 1 : i \notin alive /\ g[i] = GenMax})

\* commands_discard: pending commands and reservations are cursors, and go.
Bug_DiscardKeepsFresh ==
    /\ chunks' = [i \in Chunks |-> <<>>]
    /\ reserved_free' = 0 /\ window_popped' = {}
    /\ UNCHANGED pending_fresh
CommandsDiscard ==
    /\ chunks' = [i \in Chunks |-> <<>>]
    /\ pending_fresh' = 0 /\ reserved_free' = 0 /\ window_popped' = {}

\* registry_restore, then world_post_restore.
Restore ==
    /\ Rollback /\ pc = "record" /\ running = External /\ saved # <<>>
    /\ gen' = saved.gen /\ live' = saved.live /\ free' = saved.free
    /\ comp_count' = saved.comp_count /\ rows' = saved.rows /\ sparse' = saved.sparse
    /\ slot_count' = SlotCount(gen')
    /\ live_count' = Cardinality(live')
    /\ quarantined' = Quarantined(gen', live')
    /\ free_count' = slot_count' - live_count' - quarantined'
    /\ CommandsDiscard
    /\ issued' = saved.realized /\ realized' = saved.realized /\ want' = saved.want
    /\ UNCHANGED <<running, todo, pc, saved>>

-----------------------------------------------------------------------------
Verb ==
    \/ SpawnReused \/ SpawnFresh \/ SpawnExhausted
    \/ \E r \in Records : RecordVerb(r)

Apply ==
    \/ ApplySpawn \/ ApplyDestroy \/ ApplyDestroyDead
    \/ ApplyAdd \/ ApplyRemove \/ ApplySetField

Next ==
    \/ Verb \/ NextSystem
    \/ ApplyBegin \/ Apply \/ ApplyEnd
    \/ Save \/ Restore

Spec == Init /\ [][Next]_vars

-----------------------------------------------------------------------------
(* Correctness.                                                            *)

SpawnsIn(s) == {s[n].e : n \in {m \in DOMAIN s : s[m].kind = SpawnKind}}
\* Handles returned by world_spawn and not yet realized.
PendingEntities == SpawnsIn(todo) \cup UNION {SpawnsIn(chunks[i]) : i \in Chunks}
FreeSlots == {free[p] : p \in 0 .. free_count - 1}

\* world_spawn never returns a handle it has returned before: a stale handle
\* cannot become the name of another entity, however slots are reused,
\* retired at GEN_MAX, or reserved several to a window.
SpawnIsNew ==
    [][reserved_free' + pending_fresh' > reserved_free + pending_fresh => issued' # issued]_vars

\* A slot is live, pending, free or quarantined, and only one of these; the
\* four counts the code keeps agree with the arenas.
SlotsPartitioned ==
    LET reserved == {free[free_count - 1 - n] : n \in 0 .. reserved_free - 1}
        pending == {e.idx : e \in PendingEntities}
    IN
    /\ live_count = Cardinality(live)
    /\ Cardinality(FreeSlots) = free_count
    /\ live \cap (FreeSlots \cup pending) = {}
    /\ Cardinality(pending) = Cardinality(PendingEntities)
    /\ pc = "record" =>
          /\ FreeSlots \cap pending = reserved
          /\ slot_count = live_count + free_count + quarantined
          /\ Cardinality(pending) = pending_fresh + reserved_free

\* A window that has been applied leaves no reservation behind
\* (apply_commands' last assertion), and every realize finds its slot as the
\* reservation left it.
ReservationsSettle ==
    /\ pc = "apply" /\ todo = <<>> => pending_fresh = 0 /\ reserved_free = 0
    /\ pc = "check failed" => Head(todo).kind # SpawnKind

\* Entity slots, between any two steps of any system or barrier.
EntitiesInv == TypeOK /\ SlotsPartitioned /\ ReservationsSettle

\* Dense rows are packed, belong to live entities, and the sparse table and
\* EntityRecord.comp_count agree with them.
ColumnsConsistent ==
    /\ \A c \in Comps :
          /\ \A p \in RowsOf(c) : Alive(rows[c][p].e) /\ sparse[c][rows[c][p].e.idx] = p
          /\ \A i \in Idx : sparse[c][i] # None => sparse[c][i] \in RowsOf(c)
                                                   /\ rows[c][sparse[c][i]].e.idx = i
    /\ \A i \in Idx : comp_count[i] = Cardinality({c \in Comps : sparse[c][i] # None})

\* A row holds what was last written to that entity's component, wherever
\* swap-removes have moved it.
RowsHoldLastWrite ==
    \A c \in Comps : \A p \in RowsOf(c) : rows[c][p].v = want[c][rows[c][p].e]

\* Component columns, between any two steps of any system or barrier.
ColumnsInv == ColumnsConsistent /\ RowsHoldLastWrite

\* "Destroying an already-dead entity applies as a no-op": only a handle still
\* to be realized stops the process.  One dead handle does too: that of the
\* last generation of a slot reissued and destroyed in the same window.
OnlyRecentDestroyIsFatal ==
    pc = "destroy of a pending entity" =>
        \/ Target \in PendingEntities
        \/ Target.gen = GenMax /\ Target.idx \in window_popped

\* world_post_restore rebuilds "every derived non-arena count from the
\* restored bytes": the counts are those the snapshotted world had.
RestoreIsFaithful == [][Restore => counts' = saved.counts]_vars

\* The same, while no slot on the snapshot's free list has reached GEN_MAX.
RestoreIsFaithfulBelowGenMax ==
    [][Restore /\ (\A p \in 0 .. saved.counts[4] - 1 : saved.gen[saved.free[p]] < GenMax)
          => counts' = saved.counts /\ PendingEntities' = {}]_vars
=============================================================================

----------------------------- MODULE ArenaGuard -----------------------------
(***************************************************************************)
(* The dev builds' arena-offset guard, foundation/arena_guard.cpp, at the  *)
(* places engine_tick_once and apply_commands call it.  An arena is its    *)
(* `extent` alone; anything may move it at any time.                       *)
(***************************************************************************)
EXTENDS Integers

CONSTANTS
    Arenas,
    GrowsAtBarrier,   \* those with ARENA_GROWS_AT_BARRIER
    MaxUsed           \* bound

ASSUME GuardAssumption == GrowsAtBarrier \subseteq Arenas /\ MaxUsed \in Nat

VARIABLES
    extent,           \* VMemArena.used of each
    used_at_start, in_barrier,   \* ArenaGuard
    in_tick,          \* between guard_tick_begin and guard_tick_end
    guard_fatal,      \* the guard stopped the process
    start,            \* history: `extent` as the tick began
    sanctioned        \* history: net movement inside windows, where it is allowed

guard_vars == <<extent, used_at_start, in_barrier, in_tick, guard_fatal, start, sanctioned>>

GuardExtents == [Arenas -> 0 .. MaxUsed]

GInit ==
    /\ extent \in GuardExtents /\ used_at_start = extent /\ start = extent
    /\ sanctioned = [a \in Arenas |-> 0]
    /\ in_barrier = FALSE /\ in_tick = FALSE /\ guard_fatal = FALSE

\* A push, a reset, a restore.
Moves(a, n) ==
    /\ extent' = [extent EXCEPT ![a] = n]
    /\ sanctioned' = IF in_barrier /\ a \in GrowsAtBarrier
                     THEN [sanctioned EXCEPT ![a] = @ + n - extent[a]] ELSE sanctioned
    /\ UNCHANGED <<used_at_start, in_barrier, in_tick, guard_fatal, start>>

GuardTickBegin ==
    /\ ~in_tick
    /\ used_at_start' = extent /\ in_barrier' = FALSE /\ in_tick' = TRUE
    /\ start' = extent /\ sanctioned' = [a \in Arenas |-> 0]
    /\ UNCHANGED <<extent, guard_fatal>>

Bug_MovedBefore == {a \in GrowsAtBarrier : extent[a] > used_at_start[a]}
MovedBefore == {a \in GrowsAtBarrier : extent[a] # used_at_start[a]}

\* apply_commands, at a phase's end or flushed by a system, opens the window.
GuardBarrierBegin ==
    /\ in_tick /\ ~in_barrier
    /\ guard_fatal' = (MovedBefore # {})
    /\ in_barrier' = ~guard_fatal'
    /\ UNCHANGED <<extent, used_at_start, in_tick, start, sanctioned>>

Bug_GuardBarrierEnd ==
    /\ in_barrier
    /\ in_barrier' = FALSE
    /\ UNCHANGED <<extent, used_at_start, in_tick, guard_fatal, start, sanctioned>>

\* Growth in the window is the new baseline, of the arenas that may grow there.
GuardBarrierEnd ==
    /\ in_barrier
    /\ used_at_start' = [a \in Arenas |-> IF a \in GrowsAtBarrier THEN extent[a] ELSE used_at_start[a]]
    /\ in_barrier' = FALSE
    /\ UNCHANGED <<extent, in_tick, guard_fatal, start, sanctioned>>

GuardTickEnd ==
    /\ in_tick /\ ~in_barrier
    /\ guard_fatal' = (\E a \in Arenas : extent[a] # used_at_start[a])
    /\ in_tick' = FALSE
    /\ UNCHANGED <<extent, used_at_start, in_barrier, start, sanctioned>>

GNext ==
    /\ ~guard_fatal
    /\ \/ \E a \in Arenas, n \in 0 .. MaxUsed : Moves(a, n)
       \/ GuardTickBegin \/ GuardBarrierBegin \/ GuardBarrierEnd \/ GuardTickEnd

GSpec == GInit /\ [][GNext]_guard_vars

-----------------------------------------------------------------------------
\* docs/MEMORY.md section 2: in a tick, registered arenas move only inside its
\* windows, and only those that may grow there.
Stray == \E a \in Arenas : extent[a] # start[a] + sanctioned[a]

\* No tick ends that did otherwise, in whichever of its windows, and none is stopped
\* that did not.
GuardVerdict ==
    [][/\ guard_fatal' => Stray
       /\ in_tick /\ ~in_tick' /\ ~guard_fatal' => ~Stray]_guard_vars
=============================================================================

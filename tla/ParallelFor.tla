---------------------------- MODULE ParallelFor -----------------------------
(***************************************************************************)
(* What foundation/jobs.h promises of parallel_for, with no thread in it:  *)
(* between a call and its return every chunk is run exactly once, in any   *)
(* order, and calls never overlap.                                         *)
(***************************************************************************)
EXTENDS Naturals

CONSTANT Counts         \* the chunk counts a call can have

VARIABLES busy,         \* a call is in progress
          runs          \* how often each of its chunks has run

Init == busy = FALSE /\ runs = [n \in {} |-> 0]

Call(c) ==
    /\ ~busy /\ busy' = TRUE
    /\ runs' = [n \in 0 .. c - 1 |-> 0]

Execute(n) ==
    /\ busy /\ runs[n] = 0
    /\ runs' = [runs EXCEPT ![n] = 1]
    /\ UNCHANGED busy

Return ==
    /\ busy /\ \A n \in DOMAIN runs : runs[n] = 1
    /\ busy' = FALSE /\ UNCHANGED runs

Next ==
    \/ \E c \in Counts \ {0} : Call(c)
    \/ \E n \in DOMAIN runs : Execute(n)
    \/ Return

Spec == Init /\ [][Next]_<<busy, runs>>
=============================================================================

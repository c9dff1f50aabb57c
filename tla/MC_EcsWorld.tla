---------------------------- MODULE MC_EcsWorld -----------------------------
(***************************************************************************)
(* Three ways of using one world, each kept small where the others are     *)
(* large: many reservations, reuses and retirements of slots; rows of a    *)
(* component; snapshots and restores.                                      *)
(***************************************************************************)
EXTENDS EcsWorld

VARIABLE focus
mc_vars == <<vars, focus>>

Recordable ==
    CASE focus = "columns" -> [records |-> 2, spawns |-> 3]
      [] focus = "slots" -> [records |-> 3, spawns |-> 5]
      [] focus = "rollback" -> [records |-> 2, spawns |-> 3]

MCInit == Init /\ focus \in {"slots", "columns", "rollback"}

MCNext ==
    /\ UNCHANGED focus
    /\ \/ /\ Recorded < Recordable.records
          /\ \/ Cardinality(issued) < Recordable.spawns /\ (SpawnReused \/ SpawnFresh)
             \/ Cardinality(issued) < Recordable.spawns /\ SpawnExhausted
             \/ \E r \in Records : (focus = "columns" \/ r.kind = "destroy") /\ RecordVerb(r)
       \/ NextSystem
       \/ ApplyBegin \/ Apply \/ ApplyEnd
       \/ focus = "rollback" /\ (Save \/ Restore)

MCSpec == MCInit /\ [][MCNext]_mc_vars
=============================================================================

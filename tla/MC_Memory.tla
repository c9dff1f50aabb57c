----------------------------- MODULE MC_Memory -----------------------------
(***************************************************************************)
(* The registered arenas, the guard over their extents and the vendored    *)
(* libraries' heap and a script VM in one state space: `focus` says which  *)
(* of them is used (of the VM, which of its calls), and the rest stay as   *)
(* they began.                                                             *)
(***************************************************************************)
EXTENDS ArenaRegistry, ArenaGuard, MemPool, ScriptVm

VARIABLE focus

MCAsk == [a \in {"gen", "free"} |-> IF a = "gen" THEN 3 ELSE 2]
MCRegistered == <<"gen", "free">>
MCSnapshotted == {{"gen", "free"}, {"free"}}
MCGrows == {<<1, 1>>, <<1, 2>>}

MCInit ==
    /\ focus \in {"registry", "guard", "pool", "compiling", "ticking", "reading"}
    /\ Init /\ GInit /\ PInit /\ SInit
    /\ focus # "registry" => snapshotted = {"free"}
    /\ focus # "guard" => \A a \in DOMAIN extent : extent[a] = 0

MCNext ==
    /\ UNCHANGED focus
    /\ \/ focus = "registry" /\ Next /\ UNCHANGED <<guard_vars, pool_vars, svars>>
       \/ focus = "guard" /\ GNext /\ UNCHANGED <<vars, pool_vars, svars>>
       \/ focus = "pool" /\ PNext /\ UNCHANGED <<vars, guard_vars, svars>>
       \/ /\ UNCHANGED <<vars, guard_vars, pool_vars>>
          /\ \/ focus \in {"compiling", "ticking", "reading"} /\ Lifecycle
             \/ focus = "compiling" /\ Compiling
             \/ focus = "ticking" /\ Ticking
             \/ focus = "reading" /\ Reading
          /\ focus = "reading" => vm'.kind = "sim" /\ atom_interner' = "none"

MCSpec == MCInit /\ [][MCNext]_<<focus, vars, guard_vars, pool_vars, svars>>
=============================================================================

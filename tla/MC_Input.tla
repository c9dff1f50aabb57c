------------------------------ MODULE MC_Input ------------------------------
(***************************************************************************)
(* Both producers in one state space: `producer` says which one the engine *)
(* was given, and the other one stays as it began.                         *)
(***************************************************************************)
EXTENDS LiveInput, ScriptInput

VARIABLES
    producer

ScriptActions == {"jump", "duck"}
MCDeflections == {-3, 1}
MCActions == {"save", "walk", "fire", "x_last", "x_first", "look", "jump"}
MCKind ==
    [a \in MCActions |-> IF a \in {"x_last", "x_first", "look"} THEN "analog" ELSE "digital"]

Button(a, c, mods, ctx) ==
    [action |-> a, dev |-> c[1], modifiers |-> mods, neg |-> c, pos |-> c,
     context |-> ctx, socd |-> "neutral", dz |-> "none", radius |-> 0, sensitivity |-> 1]
KeysAxis(a, neg, pos, socd, ctx) ==
    [Button(a, pos, {}, ctx) EXCEPT !.dev = "keys_axis", !.neg = neg, !.socd = socd]
Stick(dev, dz, sensitivity) ==
    [Button("look", <<dev, 0>>, {}, 0) EXCEPT
        !.dz = dz, !.radius = 2, !.sensitivity = sensitivity]

S == <<"key", "s">>
A == <<"key", "a">>
D == <<"key", "d">>
\* Four binding tables: a chord in two contexts, a mouse button beside a pad
\* button, two keys on an axis with either policy, and two sticks on one action.
MCActionMaps ==
    {<<Button("save", S, {"ctrl"}, 0), Button("walk", S, {}, 0), Button("walk", S, {}, 1)>>,
     <<Button("fire", <<"mouse_button", 1>>, {}, 0), Button("jump", <<"pad_button", "south">>, {}, 0)>>,
     <<KeysAxis("x_last", A, D, "last", 0), KeysAxis("x_first", A, D, "first", 1)>>,
     <<Stick("pad_axis", "radial", 2), Stick("mouse_axis", "none", 1),
       Button("jump", <<"pad_button", "south">>, {}, 0)>>}

MCInit ==
    /\ producer \in {"live", "script"} /\ Init /\ ScriptInit
    /\ producer = "script" => Kind[bindings[1].action] = "analog" /\ bindings[1].dev = "pad_axis"

MCNext ==
    /\ UNCHANGED producer
    /\ \/ producer = "live" /\ Next /\ UNCHANGED script_vars
       \/ producer = "script" /\ ScriptNext /\ UNCHANGED vars

MCSpec == MCInit /\ [][MCNext]_<<producer, vars, script_vars>>
=============================================================================

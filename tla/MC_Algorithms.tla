--------------------------- MODULE MC_Algorithms ----------------------------
(***************************************************************************)
(* The sequential algorithms in one state space: `focus` says which one is *)
(* at work, and the others stay as they began.                             *)
(***************************************************************************)
EXTENDS JobsShuffle, Schedule, Containers, Bitwise

VARIABLES
    focus,
    call, got,
    packet, fields, world, answer,
    format, walk

numeric_vars == <<call, got>>
reflect_vars == <<packet, fields, world, answer>>
sandbox_vars == <<format, walk>>

-----------------------------------------------------------------------------
\* Every (n, grain) of a 4-bit u32, up to its largest n.
MCJobs == [n : 0 .. U32 - 1, grain : {1, 2, 3, 5}]

MCXor(a, b) == a ^^ b

\* All round functions of a 1-bit half; of a 2-bit half, the same function in
\* each round.
MCRoundFunctions(half) ==
    IF half = 1 THEN [0 .. 3 -> [0 .. 1 -> 0 .. 1]]
    ELSE {[i \in 0 .. 3 |-> f] : f \in [0 .. 3 -> 0 .. 3]}

\* Systems labelled in the order of their registration.
Program(phases, before, after) ==
    [i \in DOMAIN after |->
        [label |-> i, phase |-> phases[i], before |-> before[i], after |-> after[i]]]
NoLabels(n) == [i \in 1 .. n |-> {}]
\* Every graph of four systems of one phase; every graph of three with one system's
\* `before` beside it, in one phase and in two, with a label that nobody has; a label
\* given twice; and one system too many.
MCPrograms ==
    {Program(<<0, 0, 0, 0>>, NoLabels(4), after) :
        after \in {f \in [1 .. 4 -> SUBSET (1 .. 4)] : \A i \in 1 .. 4 : i \notin f[i]}}
    \cup {Program(p, [NoLabels(3) EXCEPT ![i] = before], after) :
        p \in {<<0, 0, 0>>, <<1, 0, 1>>}, i \in 1 .. 3, before \in {{1}, {2, 3}, {4}},
        after \in [1 .. 3 -> SUBSET (1 .. 3)]}
    \cup {Program(<<0, 0>>, NoLabels(2), NoLabels(2)) \o Program(<<1>>, NoLabels(1), NoLabels(1)),
          Program(<<1, 0, 1, 0, 0>>, NoLabels(5), NoLabels(5))}
MCLabels == 1 .. 5

MCKeys == 1 .. 5
\* Up to renaming of the keys.
MCHashes == {h \in [MCKeys -> {0, 1, 7}] : \A k \in 1 .. 4 : h[k] <= h[k + 1]}
MCVals == [k \in MCKeys |-> IF k = 1 THEN {1, 6} ELSE {k}]
MCFirstCap == [g \in BOOLEAN |-> IF g THEN 1 ELSE 3]

\* Rows of six bits, the tables of det_math.cpp in Q8.
Numerics == INSTANCE FixedPoint WITH
    W <- 6, WideW <- 6, InvH <- 3, TrigFrac <- 8, Places <- 3, StrPlaces <- 1,
    Frac <- [pos |-> 2, vel |-> 3, q |-> 4, scalar |-> 1, dt |-> 4],
    SinPoly <- <<0, -1, 20, -165, 402>>,
    AtanTable <- [s \in 0 .. 8 |-> <<
        <<8, 0, -14, 0, 41, 0>>, <<5, 2, -14, 0, 41, 0>>, <<0, 7, -17, 1, 41, 0>>,
        <<-2, 12, -21, 2, 40, 0>>, <<-3, 15, -23, 3, 40, 0>>, <<-3, 14, -21, 2, 40, 0>>,
        <<-2, 10, -17, -1, 42, 0>>, <<-1, 7, -10, -7, 44, -1>>, <<0, 0, 0, 0, 0, 32>>>>[s + 1]]

\* Fields of every width, and one that is wrong in each of the ways there are.
Field(name, kind, count, default) ==
    [name |-> name, kind |-> kind, count |-> count, default |-> default]
MCDeclarable ==
    {Field("a", "u8", 1, 0), Field("b", "u16", 3, 258), Field("c", "pos", 1, 7), Field("d", "u64", 1, 0),
     Field("e", "bool", 2, 1), Field("g", "Entity", 1, 0), Field("a", "StrId", 1, 0),
     Field("f", "bool", 1, 2), Field("g", "Tex", 1, 1), Field("_pad0", "u8", 1, 0), Field("", "u8", 1, 0),
     Field("i", "u8", 0, 0), Field("i", "u8", 256, 0), Field("i", "f32", 1, 0), Field("i", "i8", 2, 256)}
Structs == INSTANCE Reflect WITH
    Declarable <- MCDeclarable, MaxFields <- 3, MaxComponents <- 2, MaxEvents <- 1, MaxArenas <- 9,
    MaxDeclared <- 3, MaxLines <- 2

\* Numbers, strings of which one begins another, and a key that is neither.
MCKeyOf ==
    [i0 |-> [kind |-> 0, num |-> -1, str |-> <<>>], i1 |-> [kind |-> 0, num |-> 2, str |-> <<>>],
     s0 |-> [kind |-> 1, num |-> 0, str |-> <<>>], s1 |-> [kind |-> 1, num |-> 0, str |-> <<97>>],
     s2 |-> [kind |-> 1, num |-> 0, str |-> <<97, 98>>], bad |-> [kind |-> 2, num |-> 0, str |-> <<>>]]
Sandbox == INSTANCE ScriptSandbox WITH
    Alphabet <- {"%", "*", "s", "d", "-", ".", "1"}, MaxFormat <- 5,
    ArgTypes <- {"nil", "number", "table", "lightuserdata", "vector"},
    Keys <- DOMAIN MCKeyOf, KeyOf <- MCKeyOf, MaxKeys <- 4

-----------------------------------------------------------------------------
MCInit ==
    /\ focus \in {"shuffle", "schedule", "containers", "sort", "arithmetic", "geometry", "packets",
                 "declaring", "format", "walk", "handles"}
    /\ HInit /\ Numerics!NInit /\ Sandbox!XInit
    /\ IF focus = "packets" THEN Structs!RInit ELSE Structs!InitOf({Structs!NoPacket})
    /\ IF focus = "shuffle" THEN ShuffleInit ELSE ShuffleOf([n |-> 0, grain |-> 1], <<>>)
    /\ IF focus = "schedule" THEN ScheduleInit ELSE ScheduleOf(<<>>)
    /\ IF focus = "containers" THEN RegistryInit ELSE RegistryOf([k \in MCKeys |-> 0], TRUE)
    /\ IF focus = "sort" THEN SortInit ELSE SortOf(<<>>)

MCNext ==
    /\ UNCHANGED focus
    /\ \/ focus = "shuffle" /\ RunOne /\ UNCHANGED <<schedule_vars, registry_vars, sort_vars, numeric_vars, reflect_vars, sandbox_vars, hvars>>
       \/ focus = "schedule" /\ ScheduleNext /\ UNCHANGED <<shuffle_vars, registry_vars, sort_vars, numeric_vars, reflect_vars, sandbox_vars, hvars>>
       \/ focus = "containers" /\ RegistryNext /\ UNCHANGED <<shuffle_vars, schedule_vars, sort_vars, numeric_vars, reflect_vars, sandbox_vars, hvars>>
       \/ focus = "sort" /\ SortNext /\ UNCHANGED <<shuffle_vars, schedule_vars, registry_vars, numeric_vars, reflect_vars, sandbox_vars, hvars>>
       \/ /\ UNCHANGED <<shuffle_vars, schedule_vars, registry_vars, sort_vars, reflect_vars, sandbox_vars, hvars>> /\ call.op = "none"
          /\ \/ focus = "arithmetic" /\ Numerics!Arithmetic
             \/ focus = "geometry" /\ Numerics!Geometry
       \/ /\ UNCHANGED <<shuffle_vars, schedule_vars, registry_vars, sort_vars, numeric_vars, sandbox_vars, hvars>>
          /\ \/ focus = "packets" /\ Structs!Rows
             \/ focus = "declaring" /\ Structs!Declarations
       \/ /\ UNCHANGED <<shuffle_vars, schedule_vars, registry_vars, sort_vars, numeric_vars, reflect_vars, hvars>>
          /\ \/ focus = "format" /\ Sandbox!Write
             \/ focus = "walk" /\ Sandbox!Walking
       \/ focus = "handles" /\ HNext /\ UNCHANGED <<shuffle_vars, schedule_vars, registry_vars, sort_vars, numeric_vars, reflect_vars, sandbox_vars>>

MCSpec == MCInit /\ [][MCNext]_<<focus, shuffle_vars, schedule_vars, registry_vars, sort_vars, numeric_vars, reflect_vars, sandbox_vars, hvars>>

\* Fixed point and the scripts' fx table (fx.h, det_math.cpp, bind_fx.cpp, rng.h).
NumericsInv == Numerics!NumericsInv

\* Rows on the wire, their difference, and the structs that scripts declare (reflect.h, bytes.h, wire.h,
\* diff.cpp, luacomp.cpp).
ReflectInv == focus \in {"packets", "declaring"} => Structs!ReflectInv

\* What scripts see of the sandbox's own functions (sandbox.cpp).
SandboxInv == focus \in {"format", "walk"} => Sandbox!SandboxInv
=============================================================================

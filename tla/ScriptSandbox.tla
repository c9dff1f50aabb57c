---------------------------- MODULE ScriptSandbox ----------------------------
(***************************************************************************)
(* What the sandbox puts in the place of Luau's own functions (script/     *)
(* sandbox.cpp): string.format and tostring, which may not show a script   *)
(* an address, and sortedpairs, whose order may not depend on how a table  *)
(* came to hold its keys.                                                  *)
(***************************************************************************)
EXTENDS Integers, Sequences, SequencesExt, FiniteSetsExt

CONSTANTS
    Alphabet,       \* the characters of a format
    MaxFormat,      \* bound: its length
    ArgTypes,       \* the types of its arguments, of which there are at most two
    Keys,           \* keys of tables, by the name the walk has for them
    KeyOf,          \* what they are: [kind, num, str]
    MaxKeys         \* bound: keys of a table

VARIABLES
    format,         \* a script's format, as a sequence of characters
    walk            \* a generic for over sortedpairs: the table, the iterator's state, and what it gave

xvars == <<format, walk>>

-----------------------------------------------------------------------------
(* tostring *)

AddressKinds == {"table", "function", "userdata", "lightuserdata", "thread", "buffer"}
Value(type) == [type |-> type, text |-> type]

\* luaL_tolstring: a value's own text, or its address.
Address == "address"
Stock(v) == [type |-> "string", text |-> IF v.type \in AddressKinds THEN Address ELSE v.text]

\* push_tostring: a reference is the name of its type, and so is a vector.
PushToString(v) ==
    IF v.type = "lightuserdata" THEN [type |-> "string", text |-> "handle"]
    ELSE IF v.type \in AddressKinds \cup {"vector"} THEN [type |-> "string", text |-> v.type]
    ELSE Stock(v)

-----------------------------------------------------------------------------
(* string.format *)

Raised == <<"raised">>
Flags == {"-", "+", " ", "#", "0"}
Digit == {"0", "1", "2"}
Past(f, p, set) == Min({q \in p .. Len(f) + 1 : q > Len(f) \/ f[q] \notin set})
At(f, p) == IF p <= Len(f) THEN f[p] ELSE "end"

\* format_impl's reading of a format: the conversion of each argument in turn.
Form(f, p) ==
    LET q == Past(f, Past(f, p, Flags), Digit)
    IN IF At(f, q) = "." THEN Past(f, q + 1, Digit) ELSE q
Bug_Conversions(f) ==
    LET from[p \in 1 .. Len(f) + 2] ==
            IF p > Len(f) THEN <<>>
            ELSE IF f[p] # "%" THEN from[p + 1]
            ELSE IF At(f, p + 1) = "*" THEN <<"*">> \o from[p + 2]
            ELSE LET q == Form(f, p + 1)
                 IN IF q > Len(f) THEN <<>> ELSE <<f[q]>> \o from[q + 1]
    IN from[1]
Conversions(f) ==
    LET from[p \in 1 .. Len(f) + 2] ==
            IF p > Len(f) THEN <<>>
            ELSE IF f[p] # "%" THEN from[p + 1]
            ELSE IF At(f, p + 1) = "%" THEN from[p + 2]
            ELSE IF At(f, p + 1) = "*" THEN <<"*">> \o from[p + 2]
            ELSE LET q == Form(f, p + 1)
                 IN IF q > Len(f) THEN <<>> ELSE <<f[q]>> \o from[q + 1]
    IN from[1]

\* str_format and scanformat of the library, which read it on their own: at most five flags, and two
\* digits of each kind.
TwoDigits(f, p) == IF At(f, p) \notin Digit THEN p ELSE IF At(f, p + 1) \in Digit THEN p + 2 ELSE p + 1
StockForm(f, p) ==
    LET flags == Past(f, p, Flags)
        width == TwoDigits(f, flags)
        end == IF At(f, width) = "." THEN TwoDigits(f, width + 1) ELSE width
    IN [at |-> end, bad |-> flags - p >= 6 \/ At(f, end) \in Digit]
StockConversions(f) ==
    LET from[p \in 1 .. Len(f) + 2] ==
            IF p > Len(f) THEN <<>>
            ELSE IF f[p] # "%" THEN from[p + 1]
            ELSE IF At(f, p + 1) = "%" THEN from[p + 2]
            ELSE IF At(f, p + 1) = "*" THEN <<"any">> \o from[p + 2]
            ELSE LET form == StockForm(f, p + 1)
                 IN IF form.bad \/ form.at > Len(f) THEN <<"end">>
                    ELSE <<f[form.at]>> \o from[form.at + 1]
    IN from[1]
Takes(conversion, v) ==
    \/ conversion = "any"
    \/ conversion = "s" /\ v.type \in {"string", "number"}
    \/ conversion = "d" /\ v.type = "number"
StockFormat(f, args) ==
    LET c == StockConversions(f)
    IN IF Len(c) > Len(args) \/ \E i \in DOMAIN c : ~Takes(c[i], args[i]) THEN Raised
       ELSE [i \in DOMAIN c |-> Stock(args[i]).text]

\* The sandbox's string.format: %s and %* get the sandbox's text, which in the data VM a reference
\* does not have.
Rendered(f, args) ==
    LET c == Conversions(f) IN {i \in DOMAIN args : i <= Len(c) /\ c[i] \in {"s", "*"}}
Format(f, args, strict) ==
    LET shown == Rendered(f, args)
    IN IF strict /\ \E i \in shown : args[i].type \in AddressKinds THEN Raised
       ELSE StockFormat(f, [i \in DOMAIN args |->
                IF i \notin shown THEN args[i] ELSE IF strict THEN Stock(args[i]) ELSE PushToString(args[i])])

-----------------------------------------------------------------------------
(* sortedpairs *)

\* key_less: numbers before strings, numbers by value, strings by their bytes.
StringLess(a, b) ==
    LET n == Min({Len(a), Len(b)})
        differ == {i \in 1 .. n : a[i] # b[i]}
    IN IF differ # {} THEN a[Min(differ)] < b[Min(differ)] ELSE Len(a) < Len(b)
Bug_KeyLess(a, b) ==
    IF a.kind # b.kind THEN a.kind < b.kind
    ELSE IF a.kind = 0 THEN a.num < b.num
    ELSE \E i \in 1 .. Min({Len(a.str), Len(b.str)}) :
            a.str[i] < b.str[i] /\ SubSeq(a.str, 1, i - 1) = SubSeq(b.str, 1, i - 1)
KeyLess(a, b) ==
    IF a.kind # b.kind THEN a.kind < b.kind
    ELSE IF a.kind = 0 THEN a.num < b.num ELSE StringLess(a.str, b.str)

\* sort_keys: a merge from the bottom up, stable.
Merge(a, b) ==
    LET from[i \in 1 .. Len(a) + 1, j \in 1 .. Len(b) + 1] ==
            IF i > Len(a) THEN SubSeq(b, j, Len(b))
            ELSE IF j > Len(b) THEN SubSeq(a, i, Len(a))
            ELSE IF KeyLess(KeyOf[b[j]], KeyOf[a[i]]) THEN <<b[j]>> \o from[i, j + 1]
            ELSE <<a[i]>> \o from[i + 1, j]
    IN from[1, 1]
Slice(a, from, n) == SubSeq(a, from + 1, Min({from + n, Len(a)}))
Round(a, width) ==
    FlattenSeq([b \in 1 .. (Len(a) + 2 * width - 1) \div (2 * width) |->
        Merge(Slice(a, 2 * width * (b - 1), width), Slice(a, 2 * width * (b - 1) + width, width))])
SortKeys(a) ==
    LET after[width \in {1, 2, 4}] == Round(IF width = 1 THEN a ELSE after[width \div 2], width)
    IN IF Len(a) <= 1 THEN a ELSE after[Max({w \in {1, 2, 4} : w < Len(a)})]

\* sandbox_sortedpairs collects the keys as lua_next meets them; one that is no whole number and no
\* string raises.
NoWalk == [phase |-> "none", began |-> {}, present |-> {}, keys |-> <<>>, cursor |-> 0, gave |-> <<>>,
           removed |-> {}]
Begin ==
    /\ walk.phase = "none"
    /\ \E n \in 0 .. MaxKeys : \E met \in [1 .. n -> Keys] :
          /\ IsInjective(met)
          /\ walk' = [NoWalk EXCEPT
                !.phase = IF \E i \in 1 .. n : KeyOf[met[i]].kind > 1 THEN "raised" ELSE "walking",
                !.began = Range(met), !.present = Range(met), !.keys = SortKeys(met)]
    /\ UNCHANGED format

\* sortedpairs_iter: the next key that still has a value.
Left(w) == {i \in w.cursor + 1 .. Len(w.keys) : w.keys[i] \in w.present}
Step ==
    /\ walk.phase = "walking"
    /\ walk' = IF Left(walk) = {} THEN [walk EXCEPT !.phase = "done", !.cursor = Len(walk.keys)]
               ELSE [walk EXCEPT !.cursor = Min(Left(walk)),
                                 !.gave = Append(@, walk.keys[Min(Left(walk))])]
    /\ UNCHANGED format

\* The loop's body takes a key away, or gives the table a new one.
Assign ==
    /\ walk.phase = "walking" /\ walk.gave # <<>>
    /\ \E k \in Keys :
          \/ /\ k \in walk.present
             /\ walk' = [walk EXCEPT !.present = @ \ {k},
                                     !.removed = @ \cup ({k} \ Range(walk.gave))]
          \/ /\ k \notin walk.began \cup walk.present /\ walk.present \subseteq walk.began
             /\ walk' = [walk EXCEPT !.present = @ \cup {k}]
    /\ UNCHANGED format

-----------------------------------------------------------------------------
\* A script writes a format.
Write ==
    /\ Len(format) < MaxFormat
    /\ \E c \in Alphabet : format' = Append(format, c)
    /\ UNCHANGED walk

XInit == format = <<>> /\ walk = NoWalk
Walking == Begin \/ Step \/ Assign
XNext == Write \/ Walking

-----------------------------------------------------------------------------
\* No format shows an address, though the sandbox and the library each read the format for themselves:
\* in the sim VM a reference is the name of its type, in the data VM it raises, and whatever else the
\* library would have printed is printed unchanged (sandbox.cpp:163-301, docs/LUAU-LAYER.md 10.2).
ArgLists == {<<>>} \cup {<<Value(a)>> : a \in ArgTypes} \cup {<<Value(a), Value(b)>> : a, b \in ArgTypes}
Shown(text, v) == IF text = Address \/ v.type = "vector" THEN PushToString(v).text ELSE text
NoAddressShown ==
    \A args \in ArgLists :
        \E stock \in {StockFormat(format, args)} :
            /\ \A strict \in BOOLEAN : \E r \in {Format(format, args, strict)} :
                  /\ Address \notin Range(r)
                  /\ strict /\ stock # Raised =>
                        r = IF Address \in Range(stock) THEN Raised ELSE stock
                  /\ ~strict /\ stock # Raised => r = [i \in DOMAIN stock |-> Shown(stock[i], args[i])]

\* A walk gives each key of the table once, in ascending order, wherever it was met: all that were there
\* when it began but those taken away before their turn, and none that was added.
Before(a, b) ==
    LET x == KeyOf[a] y == KeyOf[b]
    IN \/ x.kind < y.kind
       \/ x.kind = y.kind /\ x.kind = 0 /\ x.num < y.num
       \/ x.kind = y.kind /\ x.kind = 1 /\ x.str # y.str
            /\ (IsPrefix(x.str, y.str)
                \/ \E i \in DOMAIN x.str \cap DOMAIN y.str :
                      x.str[i] < y.str[i] /\ SubSeq(x.str, 1, i - 1) = SubSeq(y.str, 1, i - 1))
WalkIsSorted ==
    /\ (walk.phase = "raised") <=> (\E k \in walk.began : KeyOf[k].kind > 1)
    /\ walk.phase \in {"walking", "done"} =>
          /\ \A i, j \in DOMAIN walk.gave : i < j => Before(walk.gave[i], walk.gave[j])
          /\ \A k \in walk.began : k \notin Range(walk.gave) \cup walk.removed =>
                walk.phase = "walking" /\ \A g \in Range(walk.gave) : Before(g, k)
          /\ Range(walk.gave) \subseteq walk.began \ walk.removed

SandboxInv == NoAddressShown /\ WalkIsSorted
=============================================================================

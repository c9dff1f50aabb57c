------------------------------- MODULE Console -------------------------------
(***************************************************************************)
(* The doors through which a developer reaches a running engine: the cvar  *)
(* table (core/cvar.cpp), the console (editor/console.cpp), dot paths      *)
(* (editor/dotpath.cpp) and the inspector (editor/inspector.cpp).  What    *)
(* the simulation reads changes only where apply_commands performs a       *)
(* sealed command (core/commands.cpp), which a lockstep session refuses.   *)
(*                                                                         *)
(* i32 and u32 have W bits and i64 and u64 WideW; an f32 is a multiple of  *)
(* 1 / 2^FBits, or NaN, or beyond 9.2e18, printed with Places decimals.    *)
(***************************************************************************)
EXTENDS Integers, SequencesExt

CONSTANTS
    W, WideW, FBits, Places,
    Descs,          \* CvarDesc rows: key (the hash of the name), kind, flags, def
    Program,        \* those the program registers, in its order
    CvarCap,        \* CVAR_TABLE_CAP
    Names,          \* names of commands, as sequences of letters
    CmdCap,         \* CONSOLE_TABLE_CAP
    Shown,          \* the 32 completions
    MaxTokens, UnescapeCap, ReplyCap, HistoryCap,
    Letters,        \* characters without a meaning
    LineLen,        \* bound: characters of a line
    Typed,          \* the values typed after `set`
    EntitySlots,    \* entity slots
    Comps,          \* components: whether singletons, and their fields' counts
    Gens,           \* bound: generations of a slot
    NameStrs,       \* what a Name component holds, and what is typed for it
    MaxStrings,     \* the interner's max_strings
    MaxQueue,       \* bound: commands typed between two barriers; of edits, one
    MaxLines        \* bound: lines executed

\* The program's cvars have names of their own and none is refused; a ring has a place.
ASSUME ConsoleAssumption ==
    /\ \A d \in Descs : d.key \in Int
    /\ Program \in Seq(Descs)
    /\ \A i, j \in DOMAIN Program : Program[i].key = Program[j].key => i = j
    /\ \A i \in DOMAIN Program : ~(Program[i].kind = "f32" /\ "sim" \in Program[i].flags)
    /\ Names \subseteq Seq(Nat) /\ EntitySlots \subseteq Nat /\ IsFiniteSet(EntitySlots)
    /\ HistoryCap \in Nat \ {0} /\ Shown \in Nat

VARIABLES
    desk,           \* what is at work: "cvars", "commands", "reading", "typing", "editing"
    table, bits, sorted,            \* CvarTable
    cmds, cmd_sorted,               \* ConsoleState
    hist, hist_head, hist_count,
    reply,          \* the last console_exec: the line, its error, its text
    lockstep,
    queue,          \* the External command chunk
    gen, alive, row, name_of,       \* entities, a field of each and its Name
    single,         \* a field of a singleton component
    interned,       \* by_hash of the interner
    ref,            \* a PathRef somebody holds, or none
    sel,            \* Editor.sel
    got,            \* what the last pure call answered
    fatal,          \* why the process stopped
    sealed,         \* history: SIM bits when the last barrier ended
    asked,          \* history: the last bits accepted for each cvar
    lines           \* history: the lines executed

cvar_vars == <<table, bits, sorted>>
console_vars == <<cmds, cmd_sorted, hist, hist_head, hist_count, reply, lines>>
entity_vars == <<gen, alive, row, name_of, single, interned>>
editor_vars == <<ref, sel>>
past_vars == <<sealed, asked>>
desk_vars ==
    <<desk, cvar_vars, console_vars, lockstep, queue, entity_vars, editor_vars, got, fatal, past_vars>>

None == [none |-> TRUE]
Ok == "ok"
Answer(op, in, out) == [op |-> op, in |-> in, out |-> out]
Flagged(d, f) == f \in d.flags

-----------------------------------------------------------------------------
(* The cvar table.                                                         *)

\* An index with i put in before the entries that are greater than it.
Bug_PutBefore(order, greater, i) == InsertAt(order, IF greater = {} THEN 1 ELSE Min(greater), i)
PutBefore(order, greater, i) == InsertAt(order, IF greater = {} THEN Len(order) + 1 ELSE Min(greater), i)

\* The index of t's first rows, with row i put in.
Indexed(t, order, i) == PutBefore(order, {p \in DOMAIN order : t[i].key < t[order[p]].key}, i)
\* The index when all of t's rows have been put in.
IndexOf(t) ==
    LET Index[n \in 0 .. Len(t)] == IF n = 0 THEN <<>> ELSE Indexed(t, Index[n - 1], n)
    IN Index[Len(t)]

\* Where a search is: in [lo, hi) of n places.
Ranges(n) == (0 .. n) \X (0 .. n)
Middle(r) == r[1] + (r[2] - r[1]) \div 2

\* The binary search of cvar_find_index over a sorted index; 0 is not found.
FindIndex(t, order, key) ==
    LET Search[r \in Ranges(Len(order))] ==
            IF r[1] >= r[2] THEN 0
            ELSE LET mid == Middle(r)
                     k == t[order[mid + 1]].key
                 IN IF k = key THEN order[mid + 1]
                    ELSE IF k < key THEN Search[<<mid + 1, r[2]>>] ELSE Search[<<r[1], mid>>]
    IN Search[<<0, Len(order)>>]
Find(key) == FindIndex(table, sorted, key)

\* cvar_register.
RegisterFatal(d) ==
    \/ Len(table) >= CvarCap \/ Find(d.key) # 0
    \/ d.kind = "f32" /\ Flagged(d, "sim")
Register(d) ==
    /\ desk = "cvars" /\ fatal = "none"
    /\ IF RegisterFatal(d) THEN fatal' = "register" /\ UNCHANGED <<cvar_vars, past_vars>>
       ELSE /\ table' = Append(table, d) /\ bits' = Append(bits, d.def)
            /\ sorted' = Indexed(table', sorted, Len(table'))
            /\ sealed' = bits' /\ asked' = bits'
            /\ UNCHANGED fatal
    /\ UNCHANGED <<desk, console_vars, lockstep, queue, entity_vars, editor_vars, got>>

\* cvar_set_raw, as [err, bits].
WriteError(i) ==
    IF i = 0 THEN "not found"
    ELSE IF Flagged(table[i], "readonly") THEN "readonly"
    ELSE IF Flagged(table[i], "sim") THEN "sim unrouted" ELSE Ok
SetAt(i, b) ==
    IF WriteError(i) = Ok THEN [err |-> Ok, bits |-> [bits EXCEPT ![i] = b]]
    ELSE [err |-> WriteError(i), bits |-> bits]
SetRaw(key, b) == SetAt(Find(key), b)

\* cvar_apply_sim_raw.
ApplySimAt(i, b, v) ==
    IF i = 0 THEN [err |-> "not found", bits |-> b]
    ELSE IF Flagged(table[i], "readonly") THEN [err |-> "readonly", bits |-> b]
    ELSE [err |-> Ok, bits |-> [b EXCEPT ![i] = v]]
ApplySimRaw(b, key, v) == ApplySimAt(Find(key), b, v)

\* cvar_set_i32 and its kin, from C++: a wrong kind is a TL_CHECK.
SetTyped(key, kind, b) ==
    /\ desk = "typing" /\ fatal = "none"
    /\ \E i \in {Find(key)} :
        IF i # 0 /\ table[i].kind # kind THEN fatal' = "kind" /\ UNCHANGED <<bits, asked>>
        ELSE /\ bits' = SetAt(i, b).bits /\ UNCHANGED fatal
             /\ asked' = IF WriteError(i) = Ok THEN [asked EXCEPT ![i] = b] ELSE asked
    /\ UNCHANGED <<desk, table, sorted, console_vars, lockstep, queue, entity_vars, editor_vars, got, sealed>>

\* cvar_sim_fold_bits: what goes into the hash, in its order.
SimFold(t, b, order) ==
    LET Fold[n \in 0 .. Len(order)] ==
            IF n = 0 THEN <<>>
            ELSE IF Flagged(t[order[n]], "sim")
            THEN Append(Fold[n - 1], <<t[order[n]].key, b[order[n]]>>) ELSE Fold[n - 1]
    IN Fold[Len(order)]

-----------------------------------------------------------------------------
(* Numbers as text: a sign, the digits of the integer part and those after *)
(* the point; `form` is "raw" after `raw:` and "word" for true and false.  *)

Text(form, neg, int, frac) == [form |-> form, neg |-> neg, int |-> int, frac |-> frac]
Wrapped(n, w) == LET r == n % 2 ^ w IN IF r >= 2 ^ (w - 1) THEN r - 2 ^ w ELSE r
DigitsOf(n) ==
    LET D[k \in 0 .. n] == IF k < 10 THEN <<k>> ELSE Append(D[k \div 10], k % 10) IN D[n]
Decimal(n) == Text("plain", n < 0, DigitsOf(IF n < 0 THEN -n ELSE n), <<>>)
Significant(frac) ==
    LET nonzero == {i \in DOMAIN frac : frac[i] # 0}
    IN SubSeq(frac, 1, IF nonzero = {} THEN 0 ELSE CHOOSE i \in nonzero : \A j \in nonzero : j <= i)
Padded(n, width) == [i \in 1 .. width |-> (n \div 10 ^ (width - i)) % 10]
TextLen(x) ==
    (IF x.form = "raw" THEN 4 ELSE 0) + (IF x.neg THEN 1 ELSE 0) + Len(x.int)
    + (IF x.frac = <<>> THEN 0 ELSE 1 + Len(x.frac))

\* The floats that have no digits: NaN and what is beyond 9.2e18.
Odd == {2 ^ 20, 2 ^ 20 + 1}

Size(v) == IF v < 0 THEN -v ELSE v
\* A magnitude in units of the last decimal place, whose carry reaches the integer part.
Tenths(size) == (size \div 2 ^ FBits) * 10 ^ Places
                   + ((size % 2 ^ FBits) * 10 ^ Places * 2 + 2 ^ FBits) \div 2 ^ (FBits + 1)
\* fmt_fixed_f32.  The sign is printed by way of the integer part, so that there is
\* none when that is 0.
FloatDigits(neg, n) ==
    [Decimal(IF neg THEN -(n \div 10 ^ Places) ELSE n \div 10 ^ Places) EXCEPT
        !.frac = Significant(Padded(n % 10 ^ Places, Places))]
FloatText(v) == IF v \in Odd THEN Text("word", FALSE, <<>>, <<>>) ELSE FloatDigits(v < 0, Tenths(Size(v)))

\* cvar_format: nothing when the text and its NUL do not fit.
FormatText(kind, b) ==
    CASE kind = "i32" -> Decimal(Wrapped(b, W))
      [] kind = "u32" -> Decimal(b)
      [] kind = "bool" -> Decimal(IF b # 0 THEN 1 ELSE 0)
      [] kind = "f32" -> FloatText(b)
      [] OTHER -> [Decimal(Wrapped(b, W)) EXCEPT !.form = "raw"]
Fitting(text, cap) == IF TextLen(text) < cap THEN text ELSE None
Format(kind, b, cap) == Fitting(FormatText(kind, b), cap)

Refuse == [ok |-> FALSE, v |-> 0]
Accept(v) == [ok |-> TRUE, v |-> v]

\* parse_decimal_i64.  The guard keeps a next digit from overflowing mag * 10, but
\* not mag * 10 + digit, nor the cast to i64.
Guard == (2 ^ WideW - 1) \div 10
Magnitude(int) ==
    FoldLeft(LAMBDA m, d : IF ~m.ok \/ m.v > Guard THEN Refuse ELSE Accept((m.v * 10 + d) % 2 ^ WideW),
             Accept(0), int)
Cast(mag, neg) == IF neg THEN Wrapped(-Wrapped(mag.v, WideW), WideW) ELSE Wrapped(mag.v, WideW)
Bug_Within(v, lo, hi) == IF v > hi THEN Refuse ELSE Accept(v)
Within(v, lo, hi) == IF v < lo \/ v > hi THEN Refuse ELSE Accept(v)
Ranged(mag, neg, lo, hi) == IF mag.ok THEN Within(Cast(mag, neg), lo, hi) ELSE Refuse
ParseDecimal(x, lo, hi) ==
    IF x.int = <<>> \/ x.frac # <<>> THEN Refuse ELSE Ranged(Magnitude(x.int), x.neg, lo, hi)

AsBits(p) == IF p.ok THEN Accept(p.v % 2 ^ W) ELSE Refuse

ValueOf(digits) == FoldLeft(LAMBDA n, d : n * 10 + d, 0, digits)
\* num / den, to the nearest, ties to even.
Rne(num, den) ==
    LET q == num \div den
        r == 2 * (num % den)
    IN IF r > den \/ (r = den /\ q % 2 = 1) THEN q + 1 ELSE q
Negated(neg, n) == IF neg THEN -n ELSE n
Scaled(x, fbits) ==
    Negated(x.neg, Rne((ValueOf(x.int) * 10 ^ Len(x.frac) + ValueOf(x.frac)) * 2 ^ fbits, 10 ^ Len(x.frac)))

\* parse_fixed_f32, and fx_parse_decimal_raw at the cvar's own frac_bits.
ParseFloat(x) ==
    IF x.int = <<>> \/ Len(x.frac) > Places THEN Refuse ELSE Accept(Scaled(x, FBits))
ParseFx(x, fbits) ==
    IF x.int = <<>> THEN Refuse ELSE AsBits(Within(Scaled(x, fbits), -(2 ^ (W - 1)), 2 ^ (W - 1) - 1))

\* cvar_parse_raw.
Signed(x) == AsBits(ParseDecimal(x, -(2 ^ (W - 1)), 2 ^ (W - 1) - 1))
ParseRaw(d, x) ==
    CASE x.form = "word" -> IF d.kind = "bool" /\ x.int # <<>> THEN Accept(x.int[1]) ELSE Refuse
      [] x.form = "raw" -> IF d.kind = "fx" THEN Signed(x) ELSE Refuse
      [] d.kind = "i32" -> Signed(x)
      [] d.kind = "u32" -> ParseDecimal(x, 0, 2 ^ W - 1)
      [] d.kind = "bool" -> IF x \in {Decimal(0), Decimal(1)} THEN Accept(x.int[1]) ELSE Refuse
      [] d.kind = "f32" -> ParseFloat(x)
      [] OTHER -> ParseFx(x, d.frac)

-----------------------------------------------------------------------------
(* The console.                                                            *)

\* strcmp of two names.
LexLess(a, b) ==
    \/ IsStrictPrefix(a, b)
    \/ \E i \in DOMAIN a \cap DOMAIN b : a[i] < b[i] /\ SubSeq(a, 1, i - 1) = SubSeq(b, 1, i - 1)

\* The places of the index whose names come before prefix.
Before(prefix) == {i \in 0 .. Len(cmd_sorted) - 1 : LexLess(cmds[cmd_sorted[i + 1]], prefix)}

\* The lower bound that console_find and console_complete search for.
LowerBound(prefix) ==
    LET Search[r \in Ranges(Len(cmd_sorted))] ==
            IF r[1] >= r[2] THEN r[1]
            ELSE IF Middle(r) \in Before(prefix) THEN Search[<<Middle(r) + 1, r[2]>>] ELSE Search[<<r[1], Middle(r)>>]
    IN Search[<<0, Len(cmd_sorted)>>]
ConsoleFind(name) ==
    LET at == LowerBound(name) + 1
    IN at \in DOMAIN cmd_sorted /\ cmds[cmd_sorted[at]] = name

\* console_complete: the walk from the lower bound while the prefix matches.
Complete(prefix) ==
    LET at == LowerBound(prefix)
        Matches(i) == IsPrefix(prefix, cmds[cmd_sorted[i]])
        Run[i \in 0 .. Len(cmd_sorted) - at] ==
            IF i < Shown /\ at + i + 1 \in DOMAIN cmd_sorted /\ Matches(at + i + 1)
            THEN <<cmds[cmd_sorted[at + i + 1]]>> \o Run[i + 1] ELSE <<>>
    IN IF at = Len(cmd_sorted) THEN <<>> ELSE Run[0]

\* console_register.
ConsoleRegister(name) ==
    /\ desk = "commands" /\ fatal = "none"
    /\ IF Len(cmds) >= CmdCap \/ ConsoleFind(name)
       THEN fatal' = "register" /\ UNCHANGED <<cmds, cmd_sorted>>
       ELSE /\ cmds' = Append(cmds, name)
            /\ cmd_sorted' = PutBefore(cmd_sorted, {p \in DOMAIN cmd_sorted : LexLess(name, cmds[cmd_sorted[p]])},
                                      Len(cmds'))
            /\ UNCHANGED fatal
    /\ UNCHANGED <<desk, cvar_vars, hist, hist_head, hist_count, reply, lines, lockstep, queue,
                   entity_vars, editor_vars, got, past_vars>>

\* console_tokenize, a character at a time.  `mode` is where in the line it is; a
\* quoted token is unescaped into the caller's buffer, of which `used` is taken.
TokStart == [mode |-> "gap", toks |-> <<>>, cur |-> <<>>, used |-> 0, err |-> Ok]
Extended(st, c) == [st EXCEPT !.mode = "quoted", !.cur = Append(@, c)]
Closed(st) ==
    IF Len(st.cur) > UnescapeCap - st.used THEN [st EXCEPT !.err = "token too long"]
    ELSE [st EXCEPT !.mode = "gap", !.toks = Append(@, st.cur), !.cur = <<>>, !.used = @ + Len(st.cur)]
EndBare(st) == [st EXCEPT !.mode = "gap", !.toks = Append(@, st.cur), !.cur = <<>>]
FromGap(st, c) ==
    IF c = " " THEN st
    ELSE IF c = "#" THEN [st EXCEPT !.mode = "comment"]
    ELSE IF Len(st.toks) >= MaxTokens THEN [st EXCEPT !.err = "too many args"]
    ELSE IF c = "quote" THEN [st EXCEPT !.mode = "quoted"]
    ELSE [st EXCEPT !.mode = "bare", !.cur = <<c>>]
InQuotes(st, c) ==
    CASE c = "quote" -> Closed(st) [] c = "backslash" -> [st EXCEPT !.mode = "escape"] [] OTHER -> Extended(st, c)
TokStep(st, c) ==
    IF st.err # Ok \/ st.mode = "comment" THEN st
    ELSE CASE st.mode = "gap" -> FromGap(st, c)
           [] st.mode = "bare" -> IF c \in {" ", "#"} THEN FromGap(EndBare(st), c) ELSE [st EXCEPT !.cur = Append(@, c)]
           [] st.mode = "quoted" -> InQuotes(st, c)
           [] OTHER -> IF c \in {"quote", "backslash"} THEN Extended(st, c)
                       ELSE InQuotes(Extended(st, "backslash"), c)
TokEnd(st) ==
    CASE st.err = Ok /\ st.mode = "bare" -> EndBare(st)
      [] st.err = Ok /\ st.mode \in {"quoted", "escape"} -> [st EXCEPT !.err = "syntax"]
      [] OTHER -> st
Split(st) == [err |-> st.err, toks |-> IF st.err = Ok THEN st.toks ELSE <<>>]
Tokenize(line) ==
    Split(TokEnd(FoldLeft(TokStep, TokStart, line)))

Room == Len(queue) < IF desk = "typing" THEN MaxQueue ELSE 1

\* cmd_set: `set <name> <value>`, as what it answers, writes and seals.
Said(err, text, v, b, q) == [err |-> err, text |-> text, v |-> v, bits |-> b, queue |-> q]
Unsaid(err) == Said(err, None, 0, bits, queue)
Sealed(i, v) ==
    Said(Ok, Format(table[i].kind, bits[i], ReplyCap), v, bits,
         Append(queue, [kind |-> "set_cvar", key |-> table[i].key, v |-> v]))
Stored(i, v, b) == Said(Ok, Format(table[i].kind, v, ReplyCap), v, b, queue)
Bug_Parsed(i, p) ==
    IF ~p.ok THEN Unsaid("parse")
    ELSE IF Flagged(table[i], "sim") THEN Sealed(i, p.v)
    ELSE IF Flagged(table[i], "readonly") THEN Unsaid("readonly")
    ELSE Stored(i, p.v, SetAt(i, p.v).bits)
Parsed(i, p) ==
    IF ~p.ok THEN Unsaid("parse")
    ELSE IF Flagged(table[i], "readonly") THEN Unsaid("readonly")
    ELSE IF Flagged(table[i], "sim") THEN Sealed(i, p.v)
    ELSE Stored(i, p.v, SetAt(i, p.v).bits)
SetFound(i, x) == IF i = 0 THEN Unsaid("cvar not found") ELSE Parsed(i, ParseRaw(table[i], x))
CmdSet(key, x) == SetFound(Find(key), x)

\* The dispatch of console_exec; a line is its tokens, or the tokenizer's error.
\* `set` is SIM_AFFECTING and takes two arguments.
Dispatch(line) ==
    IF line.err # Ok THEN Unsaid(line.err)
    ELSE IF line.cmd # "set" THEN Unsaid("unknown cmd")
    ELSE IF line.argc # 2 THEN Unsaid("argc")
    ELSE IF lockstep THEN Unsaid("lockstep refused")
    ELSE CmdSet(line.key, line.x)
Lines ==
    [err : {Ok}, cmd : {"set"}, argc : {2}, key : {d.key : d \in Descs}, x : Typed]
    \cup [err : {Ok}, cmd : {"set"}, argc : {1}] \cup [err : {Ok}, cmd : {"sett"}, argc : {2}]
    \cup [err : {"syntax"}]

\* console_exec: every line is kept, whatever becomes of it.
Exec(line) ==
    /\ desk = "typing" /\ fatal = "none" /\ Len(lines) < MaxLines
    /\ Room
    /\ hist' = [hist EXCEPT ![hist_head] = line]
    /\ hist_head' = (hist_head + 1) % HistoryCap
    /\ hist_count' = IF hist_count < HistoryCap THEN hist_count + 1 ELSE hist_count
    /\ \E said \in {Dispatch(line)} :
       /\ reply' = [line |-> line, err |-> said.err, text |-> said.text]
       /\ bits' = said.bits /\ queue' = said.queue
       /\ asked' = IF said.err = Ok THEN [asked EXCEPT ![Find(line.key)] = said.v] ELSE asked
    /\ lines' = Append(lines, line)
    /\ UNCHANGED <<desk, table, sorted, cmds, cmd_sorted, lockstep, entity_vars, editor_vars, got, fatal, sealed>>

\* console_history_at: from the oldest line kept.
HistoryAt(i) == hist[(hist_head + HistoryCap - hist_count + i) % HistoryCap]

-----------------------------------------------------------------------------
(* Dot paths and the inspector.                                            *)

Ref(kind, i, g, count) == [kind |-> kind, idx |-> i, gen |-> g, count |-> count]
NoRef == Ref("none", 0, 0, 0)
HasRow(e) == e.idx \in alive /\ gen[e.idx] = e.gen

\* A path is an entity's name or `#<index>`, or `@` and a singleton; then a component
\* and a field's element.  `dots` is one with another number of parts.
Paths ==
    [head : {"name"}, who : NameStrs, comp : {"Health"}, field : {"hp"}, elem : {0}]
    \cup [head : {"index"}, who : EntitySlots, comp : {"Health"}, field : {"hp", "bits"}, elem : {0, 1}]
    \cup [head : {"index"}, who : {0}, comp : {"PeerSlots", "?"}, field : {"hp"}, elem : {0}]
    \cup [head : {"index"}, who : {0}, comp : {"Health"}, field : {"?", "hp["}, elem : {0}]
    \cup [head : {"single"}, who : {0}, comp : DOMAIN Comps \cup {"?", ""}, field : {"slot"}, elem : {0, 1}]
    \cup [head : {"dots"}]

\* find_field, after parse_field_token.
FieldError(path) ==
    LET fields == Comps[path.comp].fields IN
    IF path.field = "hp[" THEN "syntax"
    ELSE IF path.field \notin DOMAIN fields THEN "no field"
    ELSE IF path.elem >= fields[path.field] THEN "no field" ELSE Ok
CompError(path) ==
    IF path.comp = "" THEN "syntax"
    ELSE IF path.comp \notin DOMAIN Comps THEN "no component"
    ELSE IF Comps[path.comp].singleton # (path.head = "single") THEN "no component"
    ELSE FieldError(path)

\* `#<index>` is of the current generation, alive or not; a name must be of one entity.
Bug_Named(n) == {i \in EntitySlots : gen[i] # 0 /\ name_of[i] = n}
Named(n) == {i \in alive : name_of[i] = n}
EntityError(path) ==
    CASE path.head = "index" -> IF gen[path.who] = 0 THEN "no entity" ELSE Ok
      [] path.head = "name" -> IF Cardinality(Named(path.who)) # 1 THEN "no entity" ELSE Ok
      [] OTHER -> Ok

\* dotpath_resolve, as [err, ref].
PathError(path) ==
    IF path.head = "dots" THEN "syntax"
    ELSE IF EntityError(path) # Ok THEN EntityError(path) ELSE CompError(path)
Resolved(path) ==
    IF PathError(path) # Ok THEN NoRef
    ELSE LET count == Comps[path.comp].fields[path.field]
             i == IF path.head = "name" THEN Min(Named(path.who)) ELSE path.who
         IN IF path.head = "single" THEN Ref("single", 0, 0, count) ELSE Ref("row", i, gen[i], count)

\* A name is interned to be looked up, found or not.
Resolve(path) ==
    /\ desk = "editing" /\ fatal = "none" /\ sel = NoRef
    /\ IF path.head = "name" /\ path.who \notin interned /\ Cardinality(interned) >= MaxStrings
       THEN fatal' = "interner" /\ UNCHANGED <<interned, ref, got>>
       ELSE /\ interned' = IF path.head = "name" THEN interned \cup {path.who} ELSE interned
            /\ ref' = Resolved(path)
            /\ got' = Answer("path", IF path.head = "name" THEN path.who ELSE "none", PathError(path))
            /\ UNCHANGED fatal
    /\ UNCHANGED <<desk, cvar_vars, console_vars, lockstep, queue, gen, alive, row, name_of, single, sel, past_vars>>

\* dotpath_get_raw.
GetRaw(r) ==
    IF r.kind = "single" THEN [err |-> Ok, v |-> single]
    ELSE IF HasRow(r) THEN [err |-> Ok, v |-> row[r.idx]]
    ELSE [err |-> "no entity", v |-> 0]

Seal(r, v) == Append(queue, [kind |-> "set_field", ref |-> r, v |-> v])

\* dotpath_set_raw, of a reference however old; an element of an array is a TL_CHECK.
SetField(v) ==
    /\ desk = "editing" /\ fatal = "none" /\ ref # NoRef /\ Room
    /\ IF lockstep THEN UNCHANGED <<queue, fatal>>
       ELSE IF ref.count # 1 THEN fatal' = "array" /\ UNCHANGED queue
       ELSE queue' = Seal(ref, v) /\ UNCHANGED fatal
    /\ UNCHANGED <<desk, cvar_vars, console_vars, lockstep, entity_vars, editor_vars, got, past_vars>>

\* The panel draws the rows of the selection, if it has any, and of the singletons;
\* an edit of one is sealed by inspector_set_scalar_field.
Edit(r, v) ==
    /\ desk = "editing" /\ fatal = "none" /\ Room
    /\ r.kind = "row" => r = sel /\ HasRow(r)
    /\ queue' = IF lockstep THEN queue ELSE Seal(r, v)
    /\ UNCHANGED <<desk, cvar_vars, console_vars, lockstep, entity_vars, editor_vars, got, fatal, past_vars>>

\* `go` follows a handle, which may be of an entity that is gone.  (Bound: paths and
\* the inspector are not used in one behaviour.)
Select(i, g) ==
    /\ desk = "editing" /\ fatal = "none" /\ ref = NoRef /\ g \in 1 .. gen[i]
    /\ sel' = Ref("row", i, g, 1)
    /\ UNCHANGED <<desk, cvar_vars, console_vars, lockstep, queue, entity_vars, ref, got, fatal, past_vars>>

-----------------------------------------------------------------------------
(* The barrier: a system's own commands first, then those of the tools.    *)

\* One sealed command, over [bits, row, single, dead].
CvarApplied(st, r) == IF r.err = Ok THEN [st EXCEPT !.bits = r.bits] ELSE [st EXCEPT !.dead = TRUE]
Applied(st, c) ==
    IF st.dead THEN st
    ELSE IF c.kind = "set_cvar" THEN CvarApplied(st, ApplySimRaw(st.bits, c.key, c.v))
    ELSE IF c.ref.kind = "single" THEN [st EXCEPT !.single = c.v]
    ELSE IF c.ref.idx \in st.alive /\ st.gen[c.ref.idx] = c.ref.gen THEN [st EXCEPT !.row[c.ref.idx] = c.v]
    ELSE [st EXCEPT !.dead = TRUE]
Performed(start) ==
    LET After[n \in 0 .. Len(queue)] == IF n = 0 THEN start ELSE Applied(After[n - 1], queue[n])
    IN After[Len(queue)]

\* Entities of `gone` are destroyed and slots of `born`, reserved before the barrier,
\* are realized with a row and a name.
Barrier(gone, born, name) ==
    /\ desk \in {"typing", "editing"} /\ fatal = "none"
    /\ desk = "typing" => gone = {} /\ born = {} /\ queue # <<>>
    /\ gone \subseteq alive /\ born \subseteq EntitySlots \ alive /\ \A i \in gone \cup born : gen[i] < Gens
    /\ \A i \in born : \A j \in 0 .. i - 1 : gen[j] # 0 \/ j \in born
    /\ alive' = (alive \ gone) \cup born
    /\ gen' = [i \in EntitySlots |-> IF i \in gone \/ (i \in born /\ gen[i] = 0) THEN gen[i] + 1 ELSE gen[i]]
    /\ name_of' = [i \in EntitySlots |-> IF i \in born THEN name ELSE name_of[i]]
    /\ \E end \in {Performed([bits |-> bits, single |-> single, dead |-> FALSE,
                               alive |-> alive', gen |-> gen',
                               row |-> [i \in EntitySlots |-> IF i \in born THEN 0 ELSE row[i]]])} :
          /\ bits' = end.bits /\ row' = end.row /\ single' = end.single
          /\ fatal' = IF end.dead THEN "stale edit" ELSE fatal
          /\ sealed' = end.bits
    /\ queue' = <<>> /\ got' = Answer("none", None, None)
    /\ UNCHANGED <<desk, table, sorted, console_vars, lockstep, interned, editor_vars, asked>>

-----------------------------------------------------------------------------
(* The calls that only answer, and the whole.                              *)

LineChars == Letters \cup {" ", "quote", "backslash", "#"}
ReadLine(line) == got' = Answer("line", line, Tokenize(line))
ReadText(d, x) == got' = Answer("text", [desc |-> d, text |-> x], ParseRaw(d, x))
ReadBack(d, text) == [text |-> text, back |-> ParseRaw(d, text)]
Reprint(d, b) == got' = Answer("bits", [desc |-> d, bits |-> b], ReadBack(d, FormatText(d.kind, b)))
BitsOf(kind) ==
    CASE kind = "bool" -> {0, 1}
      [] kind = "f32" -> Odd \cup -(3 * 2 ^ FBits) .. 3 * 2 ^ FBits
      [] OTHER -> 0 .. 2 ^ W - 1
Digits(n) == UNION {[1 .. k -> 0 .. 9] : k \in 0 .. n}
Texts ==
    {Text(f, neg, int, <<>>) : f \in {"plain", "raw"}, neg \in BOOLEAN, int \in Digits(2)}
    \cup {Text("plain", neg, <<i>>, frac) : neg \in BOOLEAN, i \in 0 .. 3, frac \in Digits(2)}
    \cup {Text("word", FALSE, int, <<>>) : int \in {<<>>, <<0>>, <<1>>}}

Read ==
    /\ desk = "reading" /\ got.op = "none"
    /\ \/ \E line \in UNION {[1 .. n -> LineChars] : n \in 0 .. LineLen} : ReadLine(line)
       \/ \E d \in Descs : \/ \E x \in Texts : ReadText(d, x)
                           \/ \E b \in BitsOf(d.kind) : Reprint(d, b)
    /\ UNCHANGED <<desk, cvar_vars, console_vars, lockstep, queue, entity_vars, editor_vars, fatal, past_vars>>

\* The program's cvars, registered, unless registration itself is at work.
InitOf(d, locked, t) ==
    /\ desk = d /\ lockstep = locked
    /\ table = t /\ bits = [i \in DOMAIN t |-> t[i].def] /\ sealed = bits /\ asked = bits
    /\ sorted = IndexOf(t)
    /\ cmds = <<>> /\ cmd_sorted = <<>>
    /\ hist = [i \in 0 .. HistoryCap - 1 |-> None] /\ hist_head = 0 /\ hist_count = 0
    /\ reply = None /\ lines = <<>> /\ queue = <<>>
    /\ gen = [i \in EntitySlots |-> 0] /\ alive = {} /\ row = [i \in EntitySlots |-> 0]
    /\ name_of = [i \in EntitySlots |-> "none"] /\ single = 0 /\ interned = {}
    /\ ref = NoRef /\ sel = NoRef /\ got = Answer("none", None, None) /\ fatal = "none"

Fresh == {<<"cvars", FALSE, <<>>>>, <<"commands", FALSE, <<>>>>, <<"reading", FALSE, <<>>>>}
Wired == {"typing", "editing"} \X BOOLEAN \X {Program}
ConsoleInit == \E start \in Fresh \cup Wired : InitOf(start[1], start[2], start[3])

ConsoleNext ==
    \/ \E d \in Descs : Register(d)
    \/ \E name \in Names : ConsoleRegister(name)
    \/ Read
    \/ \E line \in Lines : Exec(line)
    \/ \E d \in Descs, kind \in {"i32", "bool"} : SetTyped(d.key, kind, 1)
    \/ \E path \in Paths : Resolve(path)
    \/ \E v \in {1} : SetField(v) \/ Edit(sel, v) \/ Edit(Ref("single", 0, 0, 1), v)
    \/ \E i \in EntitySlots, g \in 1 .. Gens : Select(i, g)
    \/ \E gone, born \in SUBSET EntitySlots, name \in NameStrs : Barrier(gone, born, name)

ConsoleSpec == ConsoleInit /\ [][ConsoleNext]_desk_vars

-----------------------------------------------------------------------------
(* Correctness.                                                            *)

Sim(i) == Flagged(table[i], "sim")

\* What the simulation reads of the cvars is what the last barrier left, and a
\* lockstep session never leaves its defaults; a read-only cvar has its default for
\* ever (cvar.h, "CVAR_SIM").
SimOnlyAtBarriers ==
    \A i \in DOMAIN table :
        /\ Sim(i) => bits[i] = sealed[i]
        /\ (Sim(i) /\ lockstep) \/ Flagged(table[i], "readonly") => bits[i] = table[i].def
ToolsRefusedInLockstep == lockstep => queue = <<>> /\ single = 0 /\ \A i \in alive : row[i] = 0

\* Registration keeps both indexes in order, so that each cvar and each command is
\* found, completion shows the first commands of a prefix in their order, and the SIM fold
\* does not depend on the order of registration (cvar_sim_fold_bits).
InOrder ==
    /\ \A i \in DOMAIN table : Find(table[i].key) = i
    /\ Len(sorted) = Len(table)
    /\ LET fold == SimFold(table, bits, sorted) IN
       /\ \A m, n \in DOMAIN fold : m < n => fold[m][1] < fold[n][1]
       /\ Range(fold) = {<<table[i].key, bits[i]>> : i \in {i \in DOMAIN table : Sim(i)}}
CommandsFound ==
    /\ \A name \in Names : ConsoleFind(name) <=> name \in Range(cmds)
    /\ desk = "commands" => \A prefix \in Names :
        LET shown == Complete(prefix) IN
        /\ Len(shown) <= Shown
        /\ \A i \in DOMAIN shown : shown[i] \in Range(cmds) /\ IsPrefix(prefix, shown[i])
        /\ \A i, j \in DOMAIN shown : i < j => LexLess(shown[i], shown[j])
        /\ \A name \in Range(cmds) \ Range(shown) : IsPrefix(prefix, name) =>
               Len(shown) = Shown /\ \A i \in DOMAIN shown : LexLess(shown[i], name)

\* A line that was split can be put together again from its tokens: quoted, they split
\* into themselves.
Quoted(tok) ==
    <<"quote">> \o FlattenSeq([i \in DOMAIN tok |->
        IF tok[i] \in {"quote", "backslash"} THEN <<"backslash", tok[i]>> ELSE <<tok[i]>>]) \o <<"quote">>
Requoted(toks) == FlattenSeq([i \in DOMAIN toks |-> Quoted(toks[i])])
TokensComeBack ==
    got.op = "line" /\ got.out.err = Ok
        /\ FoldLeft(LAMBDA n, t : n + Len(t), 0, got.out.toks) <= UnescapeCap
    => Tokenize(Requoted(got.out.toks)) = got.out

\* The number a text denotes, in units of the last decimal place.
Meant(x) ==
    LET n == ValueOf(x.int) * 10 ^ Places + ValueOf(x.frac) * 10 ^ (Places - Len(x.frac))
    IN IF x.neg THEN -n ELSE n
IsNumber(x) == x.int # <<>> /\ Len(x.frac) <= Places
\* What a cvar's bits denote, times 2^FBits.
Denoted(d, b) ==
    CASE d.kind = "f32" -> b
      [] d.kind \in {"u32", "bool"} -> b * 2 ^ FBits
      [] OTHER -> Wrapped(b, W) * 2 ^ FBits
\* Within half a decimal place, and half a step of the float.
Near(d, b, x) ==
    LET off == 2 * (Meant(x) * 2 ^ FBits - Denoted(d, b) * 10 ^ Places)
    IN off <= 10 ^ Places + 2 ^ FBits /\ -off <= 10 ^ Places + 2 ^ FBits
\* A value printed and typed again is the value: all integers, and the floats that are
\* numbers and are not between -1 and 0, whose sign is not printed.
PrintedComesBack ==
    got.op = "bits" /\ got.in.bits \notin Odd
        /\ (got.in.desc.kind = "f32" => got.in.bits >= 0 \/ got.out.text.int # <<0>>)
    => /\ got.out.back.ok /\ (got.in.desc.kind = "fx" \/ Near(got.in.desc, got.in.bits, got.out.text))
       /\ got.in.desc.kind # "f32" => got.out.back.v = got.in.bits
\* A typed number is taken only for itself, if it is less than 2^63 (of u64's 2^64).
TypedIsMeant ==
    got.op = "text" /\ got.out.ok /\ IsNumber(got.in.text) /\ got.in.desc.kind # "fx"
        /\ ValueOf(got.in.text.int) < 2 ^ (WideW - 1)
    => Near(got.in.desc, got.out.v, got.in.text)

\* A `set` of an ordinary cvar answers with the number that was typed, under the same
\* two reserves.
Answered == reply # None /\ reply.err = Ok /\ reply.text # None
AnswersWhatWasTyped ==
    LET d == table[Find(reply.line.key)] IN
    Answered /\ d.kind # "fx" /\ ~Flagged(d, "sim") => Meant(reply.text) = Meant(reply.line.x)
Reserved ==
    Answered /\ \/ reply.line.x.neg /\ ValueOf(reply.line.x.int) = 0
                \/ ValueOf(reply.line.x.int) >= 2 ^ (WideW - 1)
RepliesTrue == Reserved \/ AnswersWhatWasTyped

\* The last value accepted for a cvar is the one in force, at once or from the next
\* barrier on; the history is the last lines, oldest first.
LastAcceptedWins == fatal = "none" => \A i \in DOMAIN table : bits[i] = asked[i] \/ (Sim(i) /\ queue # <<>>)
HistoryKept ==
    /\ hist_count = Min({Len(lines), HistoryCap})
    /\ \A i \in 0 .. hist_count - 1 : HistoryAt(i) = lines[Len(lines) - hist_count + 1 + i]

\* A path is resolved to an entity that bears the name, alone; a reference held while
\* its entity goes is never taken for the slot's next one (ERR_PATH_NO_ENTITY).
PathsAreExact ==
    /\ got.op = "path" /\ got.out = Ok /\ got.in # "none" =>
        HasRow(ref) /\ \A i \in alive : name_of[i] = got.in <=> i = ref.idx
    /\ ref.kind = "row" => (GetRaw(ref).err = Ok <=> HasRow(ref))

\* Nothing that is typed into the console ends the process, at once or at the barrier:
\* what cmd_set seals, cvar_apply_sim_raw accepts.
ConsoleNeverKills == desk = "typing" => fatal \in {"none", "kind"}

\* The doors: what is changed through them, when, and what is found behind them.
ConsoleInv ==
    /\ SimOnlyAtBarriers /\ ToolsRefusedInLockstep /\ InOrder /\ CommandsFound
    /\ LastAcceptedWins /\ HistoryKept /\ PathsAreExact /\ ConsoleNeverKills

\* Lines and numbers as text: what is typed is what is meant, and what is answered.
TextInv == TokensComeBack /\ PrintedComesBack /\ TypedIsMeant /\ RepliesTrue
=============================================================================

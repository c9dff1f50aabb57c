----------------------------- MODULE DataTables ------------------------------
(***************************************************************************)
(* Tuning tables written in Luau and compiled to rows of plain data        *)
(* (script/data_compile.cpp), and what finds a row again (core/            *)
(* data_tables.cpp).  A value is what script_table_get makes of it:        *)
(* [kind, i], where the kind "error" is a value it cannot hand over.       *)
(***************************************************************************)
EXTENDS Integers, Sequences, SequencesExt, FiniteSetsExt, TLC

CONSTANTS
    Bits,           \* the width of an integer kind: a function of kinds
    Exact,          \* 2^53: the integers a Luau number holds
    Schemas,        \* sequence of [table, max_rows, fields]; a field is [name, kind, count, default]
    MaxTables,      \* MAX_TABLES
    IdxMask,        \* DataHandle::IDX_MASK
    Hash,           \* fnv1a64 of a name: a function of names, where two may meet
    Rows,           \* for each table, the rows a data script may give it: functions of field names
    MaxSources,     \* bound: data scripts
    MaxRows         \* bound: rows in all

VARIABLES
    sources,        \* the data scripts: what each evaluates to, by table name; or that it fails
    compiled        \* data_compile's answer

cvars == <<sources, compiled>>

-----------------------------------------------------------------------------
\* What a script can leave under a table's name, or a field's.
Nil == [kind |-> "nil", i |-> 0]
IntV(n) == [kind |-> "int", i |-> n]
BoolV(n) == [kind |-> "bool", i |-> n]
Failed == [kind |-> "error", i |-> 0]
NoDefault == Nil

Signed == {"i8", "i16", "i32"}
Integers8 == {"i8", "u8", "i16", "u16", "i32", "u32", "i64", "u64", "bool"}

\* integer_range.
IntegerRange(kind) ==
    IF kind = "bool" THEN 0 .. 1
    ELSE IF kind \in {"i64", "u64"} THEN -Exact .. Exact
    ELSE IF kind \in Signed THEN -(2 ^ (Bits[kind] - 1)) .. 2 ^ (Bits[kind] - 1) - 1
    ELSE 0 .. 2 ^ Bits[kind] - 1

\* store_scalar: the low bits.
StoreScalar(kind, v) == v % 2 ^ Bits[kind]

\* compile_field: the bits that go into the row, or the reason there are none.
Good(bits) == [err |-> "ok", bits |-> bits]
Bad(err) == [err |-> err, bits |-> 0]
Bug_OfItsKind(kind, v) == v.i \in IntegerRange(kind)
OfItsKind(kind, v) ==
    /\ v.kind = (IF kind = "bool" THEN "bool" ELSE "int")
    /\ v.i \in IntegerRange(kind)
CompileField(f, v) ==
    IF v.kind = "error" THEN Bad("script")
    ELSE IF v.kind = "nil" THEN IF f.default = NoDefault THEN Bad("missing field")
                                ELSE Good(StoreScalar(f.kind, f.default.i))
    ELSE IF f.kind \notin Integers8 THEN Bad("fatal")
    ELSE IF ~OfItsKind(f.kind, v) THEN Bad("bad int")
    ELSE IF f.count > 1 THEN Bad("fatal")
    ELSE Good(StoreScalar(f.kind, v.i))

\* A row: its name first, then its fields in the schema's order, then its place among the names.
FirstBad(results) == SelectInSeq(results, LAMBDA r : r.err # "ok")
RowError(row, fields, by_name) ==
    IF row.name.kind = "error" THEN "script"
    ELSE IF row.name.kind # "string" THEN "missing field"
    ELSE IF FirstBad(fields) # 0 THEN fields[FirstBad(fields)].err
    ELSE IF Hash[row.name.i] \in DOMAIN by_name THEN "duplicate name" ELSE "ok"
Placed(t, row, fields) ==
    IF RowError(row, fields, t.by_name) # "ok"
    THEN [t EXCEPT !.err = RowError(row, fields, t.by_name)]
    ELSE [t EXCEPT !.rows = Append(@, [i \in DOMAIN fields |-> fields[i].bits]),
                   !.by_name = @ @@ (Hash[row.name.i] :> Len(t.rows))]
CompileRow(schema, t, row) ==
    IF t.err # "ok" THEN t
    ELSE IF row = Nil THEN [t EXCEPT !.err = "missing field"]
    ELSE Placed(t, row, [i \in DOMAIN schema.fields |->
                            CompileField(schema.fields[i], row[schema.fields[i].name])])

\* compile_table, and find_table: the first source that has the table.
NoTable == [err |-> "ok", rows |-> <<>>, by_name |-> <<>>]
CompileTable(schema, rows) ==
    IF Len(rows) > schema.max_rows THEN [NoTable EXCEPT !.err = "too many rows"]
    ELSE FoldLeft(LAMBDA t, row : CompileRow(schema, t, row), NoTable, rows)
Having(table) == SelectInSeq(sources, LAMBDA s : s[table].kind = "table")
CompileSchema(schema) ==
    IF Having(schema.table) = 0 THEN [NoTable EXCEPT !.err = "unknown table"]
    ELSE CompileTable(schema, sources[Having(schema.table)][schema.table].rows)

\* data_compile: the scripts first, then each schema in its order; the first error is the answer.
NotCompiled == [err |-> "none", tables |-> <<>>]
Answer(tables) ==
    IF FirstBad(tables) # 0 THEN [err |-> tables[FirstBad(tables)].err, tables |-> <<>>]
    ELSE [err |-> "ok", tables |-> tables]
Compile ==
    /\ compiled = NotCompiled
    /\ compiled' = IF Len(Schemas) > MaxTables THEN [err |-> "table limit", tables |-> <<>>]
                   ELSE IF Len(sources) > MaxTables \/ Failed \in Range(sources)
                   THEN [err |-> "script", tables |-> <<>>]
                   ELSE Answer([s \in DOMAIN Schemas |-> CompileSchema(Schemas[s])])
    /\ UNCHANGED sources

\* data_find_row and data_row.
NullHandle == <<>>
FindRow(t, hash) ==
    IF hash \notin DOMAIN t.by_name THEN NullHandle
    ELSE IF t.by_name[hash] > IdxMask THEN <<"fatal">> ELSE <<t.by_name[hash]>>
RowOf(t, id) ==
    IF id = NullHandle THEN "null" ELSE IF id[1] >= Len(t.rows) THEN "fatal" ELSE t.rows[id[1] + 1]

-----------------------------------------------------------------------------
\* Data scripts are written: one more, a table in the last of them, or a row of it.
Tables == DOMAIN Rows
NoTables == [t \in Tables |-> Nil]
Source ==
    /\ Len(sources) < MaxSources /\ Failed \notin Range(sources)
    /\ \E s \in {NoTables, Failed} : sources' = Append(sources, s)
    /\ UNCHANGED compiled
Define ==
    /\ sources # <<>> /\ Last(sources) # Failed
    /\ \E t \in Tables, v \in {IntV(1), [kind |-> "table", rows |-> <<>>]} :
          /\ Last(sources)[t] = Nil
          /\ sources' = [sources EXCEPT ![Len(sources)][t] = v]
    /\ UNCHANGED compiled
RowCount ==
    LET Of(s) == FoldSet(LAMBDA t, n : n + (IF s[t].kind = "table" THEN Len(s[t].rows) ELSE 0), 0, Tables)
    IN FoldLeft(LAMBDA n, s : n + Of(s), 0, sources)
Row ==
    /\ sources # <<>> /\ Last(sources) # Failed /\ RowCount < MaxRows
    /\ \E t \in {u \in Tables : Last(sources)[u].kind = "table"} : \E row \in Rows[t] :
          sources' = [sources EXCEPT ![Len(sources)][t].rows = Append(@, row)]
    /\ UNCHANGED compiled

DInit == sources = <<>> /\ compiled = NotCompiled
DNext == compiled = NotCompiled /\ (Source \/ Define \/ Row \/ Compile)

-----------------------------------------------------------------------------
\* What is wrong with the rows given for a schema, whichever is met first.
FieldFaults(f, v) ==
    {e \in {"script", "missing field", "bad int"} :
        \/ e = "script" /\ v = Failed
        \/ e = "missing field" /\ v = Nil /\ f.default = NoDefault
        \/ e = "bad int" /\ v \notin {Failed, Nil}
             /\ v \notin (IF f.kind = "bool" THEN {BoolV(0), BoolV(1)}
                         ELSE {IntV(n) : n \in IntegerRange(f.kind)})}
RowFaults(schema, rows, i) ==
    IF rows[i] = Nil THEN {"missing field"}
    ELSE UNION {FieldFaults(f, rows[i][f.name]) : f \in Range(schema.fields)}
         \cup (IF rows[i].name.kind = "string" THEN {}
               ELSE IF rows[i].name = Failed THEN {"script"} ELSE {"missing field"})
         \cup (IF \E j \in 1 .. i - 1 : rows[j] # Nil /\ rows[j].name.kind = "string"
                     /\ rows[i].name.kind = "string" /\ Hash[rows[j].name.i] = Hash[rows[i].name.i]
               THEN {"duplicate name"} ELSE {})
Faults(schema) ==
    LET had == {i \in DOMAIN sources : sources[i][schema.table].kind = "table"}
        rows == sources[Min(had)][schema.table].rows
    IN IF had = {} THEN {"unknown table"}
       ELSE IF Len(rows) > schema.max_rows THEN {"too many rows"}
       ELSE UNION {RowFaults(schema, rows, i) : i \in DOMAIN rows}

\* What a stored field reads as; a negative number in a u64 field is taken and read back as a large one.
ReadBack(kind, bits) ==
    IF kind \in Signed \cup {"i64"} /\ bits >= 2 ^ (Bits[kind] - 1) THEN bits - 2 ^ Bits[kind] ELSE bits
AsWritten(f, v, bits) ==
    LET n == IF v = Nil THEN f.default.i ELSE v.i
    IN IF f.kind = "u64" /\ n < 0 THEN bits = 2 ^ Bits["u64"] + n ELSE ReadBack(f.kind, bits) = n
RowsAsWritten(schema, t) ==
    LET rows == sources[Having(schema.table)][schema.table].rows
    IN /\ Len(t.rows) = Len(rows)
       /\ \A i \in DOMAIN rows :
             /\ \A f \in DOMAIN schema.fields :
                   AsWritten(schema.fields[f], rows[i][schema.fields[f].name], t.rows[i][f])
             /\ RowOf(t, FindRow(t, Hash[rows[i].name.i])) = t.rows[i]
             /\ FindRow(t, Hash[rows[i].name.i]) = <<i - 1>>
       /\ \A h \in Range(Hash) : (\A i \in DOMAIN rows : Hash[rows[i].name.i] # h)
                                   => FindRow(t, h) = NullHandle

\* Data compiles if and only if nothing in it is wrong, in any row of any table; then every row holds what
\* its script wrote or the default, in the order of the array, and its name finds that row and no other
\* (data_compile.cpp, docs/ASSETS-AND-DATA.md 8.3).
DataInv ==
    /\ compiled.err \notin {"none", "ok"} =>
          \/ compiled.err = "script" /\ Failed \in Range(sources)
          \/ Failed \notin Range(sources) /\ \E s \in Range(Schemas) : compiled.err \in Faults(s)
    /\ compiled.err = "ok" =>
          /\ Failed \notin Range(sources) /\ \A s \in Range(Schemas) : Faults(s) = {}
          /\ \A s \in DOMAIN Schemas : RowsAsWritten(Schemas[s], compiled.tables[s])
=============================================================================

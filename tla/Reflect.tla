------------------------------- MODULE Reflect -------------------------------
(***************************************************************************)
(* Reflected structs (core/reflect.h): a table of fields, the form of a    *)
(* row on the wire (with bytes.h), the difference of two rows (diff.cpp),  *)
(* the structs of the protocol (net/wire.h), and the components and events *)
(* that scripts declare (luacomp.cpp).  A row is its sequence of bytes in  *)
(* memory, where a scalar has its low byte first.                          *)
(***************************************************************************)
EXTENDS Integers, Sequences, SequencesExt, FiniteSetsExt, Folds

CONSTANTS
    Declarable,        \* the fields a script may declare: [name, kind, count, default]
    MaxFields,      \* LUACOMP_MAX_FIELDS
    MaxComponents,  \* MAX_COMPONENT_TYPES
    MaxEvents,      \* MAX_EVENT_TYPES
    MaxArenas,      \* MAX_ARENAS
    MaxDeclared,    \* bound: fields in all, where something is registered already
    MaxLines        \* lines a caller of reflect_diff_rows has room for

VARIABLES
    packet,         \* what is being received: a struct of the protocol, and the bytes that came
    fields,         \* the fields a script has put together
    world,          \* what is registered, in order: components, events and arenas; the interned names;
                    \* whether the doors are closed; whether a TL_FATAL has stopped the process
    answer          \* what the last door said

rvars == <<packet, fields, world, answer>>

-----------------------------------------------------------------------------
Byte == 0 .. 255
Zeros(n) == [i \in 1 .. n |-> 0]

Scalars8 == {"i8", "u8", "bool"}
Handles2 == {"Tex", "Font", "Audio", "Clip", "Data"}
Handles4 == {"Entity", "Body", "Constraint", "Agent", "Plant", "Cavity", "Basin"}
Palette == {"pos", "vel", "invmass", "stiff", "q", "angle", "omega", "dt", "scalar"}
Kinds == Scalars8 \cup Handles2 \cup Handles4 \cup Palette
            \cup {"i16", "u16", "i32", "u32", "i64", "u64", "StrId"}

\* kind_scalar_size, which is also the kind's alignment.
ScalarSize(k) ==
    IF k \in Scalars8 THEN 1
    ELSE IF k \in {"i16", "u16", "StrId"} \cup Handles2 THEN 2
    ELSE IF k \in {"i64", "u64"} THEN 8 ELSE 4

\* A FieldInfo: `size` is that of all its elements.
F(offset, name, kind, count) ==
    [offset |-> offset, name |-> name, kind |-> kind, count |-> count, size |-> ScalarSize(kind) * count]
S(offset, name, kind) == F(offset, name, kind, 1)

\* tl_field_is_pad: a name that begins with _pad.
PadNames == {"_pad0", "_pad1", "_pad2", "_pad3", "_pad4"}
IsPad(f) == f.name \in PadNames

\* tl_fields_sum_size.
SumSize(table) == FoldLeft(LAMBDA n, f : n + f.size, 0, table)

\* Where the scalars of a table lie, in the order in which they are written.
Elements(f) == [e \in 1 .. f.count |-> [offset |-> f.offset + (e - 1) * ScalarSize(f.kind),
                                        size |-> ScalarSize(f.kind), field |-> f, element |-> e - 1]]
ScalarsOf(table) == FlattenSeq([i \in DOMAIN table |-> Elements(table[i])])
BytesAt(row, s) == SubSeq(row, s.offset + 1, s.offset + s.size)

-----------------------------------------------------------------------------
(* bytes.h *)

\* br_get_*, for the elements of a field in turn: an element is read whole, or is zero, and after
\* the first that is not there the error stays.
Reader(bytes) == [bytes |-> bytes, pos |-> 0, ok |-> TRUE]
Whole(r, f) ==
    IF r.ok THEN Min({f.count, (Len(r.bytes) - r.pos) \div ScalarSize(f.kind)}) * ScalarSize(f.kind)
    ELSE 0
BrGet(r, f) == SubSeq(r.bytes, r.pos + 1, r.pos + Whole(r, f)) \o Zeros(f.size - Whole(r, f))
BrNext(r, f) == [r EXCEPT !.pos = @ + Whole(r, f), !.ok = Whole(r, f) = f.size]

\* bw_put_*: a writer with no room is the caller's error, which is fatal.
NoRoom == <<-1>>
BwPut(written, cap, bytes) ==
    IF written = NoRoom \/ Len(written) + Len(bytes) > cap THEN NoRoom ELSE written \o bytes

\* tl_wire_put_row.
PutRow(table, row, cap) == FoldLeft(LAMBDA w, f : BwPut(w, cap, BytesAt(row, f)), <<>>, table)

\* tl_wire_get_row: zeros, then each field in turn; an error that stuck comes before the pads,
\* whose bytes must be zero.
ReadField(r, f) ==
    [reader |-> BrNext(r.reader, f),
     row |-> SubSeq(r.row, 1, f.offset) \o BrGet(r.reader, f)
                \o SubSeq(r.row, f.offset + f.size + 1, Len(r.row))]
ReadAll(table, bytes) ==
    FoldLeft(ReadField, [reader |-> Reader(bytes), row |-> Zeros(SumSize(table))], table)
PadBytes(table) ==
    UNION {(f.offset + 1) .. (f.offset + f.size) : f \in {g \in Range(table) : IsPad(g)}}
Bug_Verdict(table, read) ==
    [row |-> read.row, err |-> IF read.reader.ok THEN "ok" ELSE "truncated"]
Verdict(table, read) ==
    [row |-> read.row,
     err |-> IF ~read.reader.ok THEN "truncated"
             ELSE IF \E i \in PadBytes(table) : read.row[i] # 0 THEN "pad nonzero" ELSE "ok"]
GetRow(table, bytes) == Verdict(table, ReadAll(table, bytes))

\* reflect_diff_rows: the elements that differ, as many as the caller has room for, and how many
\* there are.
Differing(table, a, b) == SelectSeq(ScalarsOf(table), LAMBDA s : BytesAt(a, s) # BytesAt(b, s))
Line(s, a, b) == [field |-> s.field.name, element |-> s.element,
                  a_bits |-> BytesAt(a, s), b_bits |-> BytesAt(b, s)]
Lines(found, a, b) ==
    [found |-> Len(found),
     out |-> [i \in 1 .. Min({Len(found), MaxLines}) |-> Line(found[i], a, b)]]
DiffRows(table, a, b) == Lines(Differing(table, a, b), a, b)

\* tl_reflect_component_hash, as what is hashed: the layout, and not the flags or the default row.
HashInput(info) ==
    <<info.name, info.size, info.align>>
        \o [i \in DOMAIN info.fields |->
               LET f == info.fields[i] IN <<f.name, f.kind, f.count, f.offset, f.size>>]

-----------------------------------------------------------------------------
(* net/wire.h: the structs, with the offsets and sizes declared for them. *)

MaxPeers == 8

\* TL_WIRE_STRUCT: the version comes first.
Wire(size, table) == [size |-> size, fields |-> <<S(0, "format_version", "u32")>> \o table]

PacketHeader == Wire(40, <<S(4, "kind", "u8"), S(5, "slot", "u8"), S(6, "frame_count", "u8"),
    S(7, "slot_mask", "u8"), S(8, "base_tick", "u64"), S(16, "last_confirmed_tick", "u64"),
    S(24, "hold_base_tick", "u64"), S(32, "epoch", "u32"), S(36, "hold_count", "u8"),
    S(37, "delay_ticks", "u8"), S(38, "payload_bytes", "u16")>>)
LogRecord == Wire(24, <<S(4, "kind", "u8"), S(5, "slot", "u8"), S(6, "origin_slot", "u8"),
    S(7, "_pad0", "u8"), S(8, "seq", "u32"), S(12, "payload", "u32"),
    S(16, "effective_tick", "u64")>>)
ControlHeader == Wire(24, <<S(4, "kind", "u8"), S(5, "slot", "u8"), S(6, "payload_bytes", "u16"),
    S(8, "tick", "u64"), S(16, "epoch", "u32"), S(20, "_pad0", "u32")>>)
Suspicion == Wire(16, <<S(4, "suspect_mask", "u8"), F(5, "_pad0", "u8", 3), S(8, "seq", "u32"),
    S(12, "_pad1", "u32")>>)
EpochClaim == Wire(24, <<S(4, "epoch", "u32"), S(8, "last_confirmed_tick", "u64"),
    S(16, "claim_seq", "u32"), S(20, "candidate_slot", "u8"), F(21, "_pad0", "u8", 3)>>)
EpochAck == Wire(24, <<S(4, "epoch", "u32"), S(8, "my_last_confirmed_tick", "u64"),
    S(16, "claim_seq", "u32"), S(20, "granted", "u8"), S(21, "refuse_reason", "u8"),
    F(22, "_pad0", "u8", 2)>>)
HashDigest == Wire(24, <<S(4, "arena_count", "u32"), S(8, "tick", "u64"), S(16, "fold", "u64")>>)
MeasurementVector == Wire(48, <<S(4, "upstream_kbps", "u32"),
    F(8, "rtt_p50_ms", "u16", MaxPeers), F(24, "rtt_p95_ms", "u16", MaxPeers),
    F(40, "loss_pct", "u8", MaxPeers)>>)
CustodyHandoff == Wire(184, <<S(4, "handoff_seq", "u32"), F(8, "from_pubkey", "u8", 32),
    F(40, "to_pubkey", "u8", 32), F(72, "chain_head", "u8", 32), S(104, "effective_tick", "u64"),
    S(112, "forced", "u8"), F(113, "_pad0", "u8", 7), F(120, "signature", "u8", 64)>>)
Leave == Wire(16, <<S(4, "leave_seq", "u32"), S(8, "requested_effective_tick", "u64")>>)
LobbyProbe == Wire(32, <<S(4, "probe_seq", "u32"), S(8, "send_time_us", "u64"),
    S(16, "echo_time_us", "u64"), S(24, "is_reply", "u8"), F(25, "_pad0", "u8", 7)>>)
BulkHeader == Wire(32, <<S(4, "kind", "u8"), S(5, "slot", "u8"), S(6, "_pad0", "u16"),
    S(8, "transfer_id", "u64"), S(16, "chunk_index", "u32"), S(20, "chunk_count", "u32"),
    S(24, "offset", "u32"), S(28, "len", "u32")>>)
LogRequest == Wire(24, <<S(4, "_pad0", "u32"), S(8, "from_tick", "u64"),
    S(16, "to_tick", "u64")>>)
BulkAck == Wire(24, <<S(4, "all_agree", "u8"), F(5, "_pad0", "u8", 3), S(8, "final_tick", "u64"),
    S(16, "final_ref_hash", "u64")>>)
Handshake == Wire(120, <<S(4, "session_model", "u32"), S(8, "origin", "u32"),
    S(12, "max_actions", "u32"), F(16, "build_id", "u8", 32),
    F(48, "session_fingerprint", "u8", 32), S(80, "tick0_state_hash", "u64"),
    F(88, "world_chain_head", "u8", 32)>>)
JoinChallenge == Wire(40, <<S(4, "_pad0", "u32"), F(8, "nonce", "u8", 32)>>)
JoinRequest == Wire(144, <<S(4, "requested_slot", "u32"), F(8, "identity_pubkey", "u8", 32),
    F(40, "held_chain_head", "u8", 32), S(72, "held_durable_tick", "u64"),
    F(80, "signature", "u8", 64)>>)
JoinReply == Wire(48, <<S(4, "epoch", "u32"), S(8, "join_effective_tick", "u64"),
    S(16, "checkpoint_tick", "u64"), S(24, "confirmed_tick", "u64"),
    F(32, "succession", "u8", MaxPeers), S(40, "accepted", "u8"), S(41, "slot", "u8"),
    S(42, "reason", "u8"), S(43, "coordinator_slot", "u8"), S(44, "live_mask", "u8"),
    F(45, "_pad0", "u8", 3)>>)
CheckpointHeader == Wire(192, <<S(4, "session_model", "u32"), S(8, "origin", "u32"),
    S(12, "arena_count", "u32"), F(16, "build_id", "u8", 32),
    F(48, "session_fingerprint", "u8", 32), S(80, "tick", "u64"), S(88, "seed", "u64"),
    S(96, "state_hash", "u64"), F(104, "custody_pubkey", "u8", 32),
    F(136, "chain_entry", "u8", 32), S(168, "chain_index", "u32"), S(172, "tier", "u32"),
    S(176, "payload_bytes", "u64"), S(184, "payload_crc32", "u32"),
    S(188, "header_crc32", "u32")>>)
ChainGenesis == Wire(56, <<S(4, "_pad0", "u32"), S(8, "tick0_state_hash", "u64"),
    S(16, "world_seed", "u64"), F(24, "creation_nonce", "u8", 32)>>)
ChainEntry == Wire(152, <<S(4, "chain_index", "u32"), F(8, "prev", "u8", 32),
    F(40, "log_segment_hash", "u8", 32), S(72, "state_hash", "u64"), S(80, "tick", "u64"),
    F(88, "session_fingerprint", "u8", 32), F(120, "custody_pubkey", "u8", 32)>>)
ArchiveSegmentHeader == Wire(56, <<S(4, "max_actions", "u32"), S(8, "base_tick", "u64"),
    S(16, "tick_count", "u32"), S(20, "slot_mask", "u8"), F(21, "_pad0", "u8", 3),
    S(24, "record_count", "u32"), S(28, "log_record_count", "u32"), S(32, "file_id", "u32"),
    S(36, "payload_bytes", "u32"), S(40, "payload_crc32", "u32"), S(44, "segment_seq", "u32"),
    S(48, "header_crc32", "u32"), F(52, "_pad1", "u8", 4)>>)
ArchiveFileHeader == Wire(72, <<S(4, "file_id", "u32"), F(8, "build_id", "u8", 32),
    F(40, "session_fingerprint", "u8", 32)>>)
HashTraceHeader == Wire(24, <<S(4, "arena_count", "u32"), S(8, "base_tick", "u64"),
    S(16, "tick_count", "u32"), S(20, "_pad0", "u32")>>)

\* core/recorder.h, core/save.h: the headers of a recording and of a save.
RecordedInputHeader == Wire(128, <<F(4, "magic", "u8", 4), F(8, "build_id", "u8", 32),
    F(40, "session_fingerprint", "u8", 32), S(72, "seed", "u64"), S(80, "base_tick", "u64"),
    S(88, "peer_count", "u8"), S(89, "live_mask", "u8"), S(90, "flags", "u16"),
    F(92, "_pad1", "u8", 4), S(96, "frame_count", "u64"), F(104, "_pad2", "u8", 24)>>)
SaveHeader == Wire(160, <<F(4, "magic", "u8", 4), F(8, "build_id", "u8", 32),
    F(40, "session_fingerprint", "u8", 32), S(72, "seed", "u64"), S(80, "tick", "u64"),
    S(88, "session_model", "u32"), S(92, "origin", "u32"), S(96, "name_table_len", "u32"),
    S(100, "arena_count", "u32"), S(104, "flags", "u32"), F(108, "_pad0", "u8", 52)>>)
FileHeaders == {RecordedInputHeader, SaveHeader}

\* TL_NET_WIRE_STRUCTS.
WireStructs ==
    {PacketHeader, LogRecord, ControlHeader, Suspicion, EpochClaim, EpochAck, HashDigest,
     MeasurementVector, CustodyHandoff, Leave, LobbyProbe, BulkHeader, LogRequest, BulkAck,
     Handshake, JoinChallenge, JoinRequest, JoinReply, CheckpointHeader, ChainGenesis, ChainEntry,
     ArchiveSegmentHeader, ArchiveFileHeader, HashTraceHeader}

\* A row in which no two neighbours are alike, with its pads zero.
Ramp(struct) ==
    LET pads == PadBytes(struct.fields)
    IN [i \in 1 .. struct.size |-> IF i \in pads THEN 0 ELSE i % 256]

\* Where a packet is cut, and where a byte is changed: about the ends of its fields.
Edges(struct) ==
    UNION {{f.offset, f.offset + 1, f.offset + f.size - 1} : f \in Range(struct.fields)}

-----------------------------------------------------------------------------
(* luacomp.cpp *)

\* A default's bits, low byte first; those declared are below 2^24.
BitsOf(v, n) == [i \in 1 .. n |-> IF i > 3 THEN 0 ELSE (v \div 256 ^ (i - 1)) % 256]
Fits(v, n) == n < 3 => v < 256 ^ n

\* What is wrong with a field, the first thing first.
FieldError(decl, i) ==
    LET f == decl[i]
    IN IF f.kind \notin Kinds THEN "bad kind"
       ELSE IF f.count = 0 \/ f.count > 255 THEN "bad count"
       ELSE IF f.name = "" \/ f.name \in PadNames THEN "bad name"
       ELSE IF /\ f.default # 0
               /\ \/ ~Fits(f.default, ScalarSize(f.kind))
                  \/ f.kind \in Handles2 \cup Handles4 \cup {"StrId"}
                  \/ f.kind = "bool" /\ f.default > 1 THEN "bad default"
       ELSE IF \E j \in 1 .. i - 1 : decl[j].name = f.name THEN "duplicate name"
       ELSE "ok"
DeclError(name, decl) ==
    LET bad == {i \in DOMAIN decl : FieldError(decl, i) # "ok"}
    IN IF decl = <<>> \/ name = "" \/ Len(decl) > MaxFields THEN "table full"
       ELSE IF bad # {} THEN FieldError(decl, Min(bad)) ELSE "ok"

AlignUp(v, align) == ((v + align - 1) \div align) * align

\* lc_emit_pad: a gap is a field of bytes with a name of its own.
PadName(n) == <<"_pad0", "_pad1", "_pad2", "_pad3", "_pad4">>[n + 1]
EmitPad(t, upto) ==
    IF upto = t.offset THEN t
    ELSE [t EXCEPT !.rows = Append(@, F(t.offset, PadName(t.pads), "u8", upto - t.offset)),
                   !.pads = @ + 1, !.offset = upto]
Emit(t, f) ==
    [t EXCEPT !.rows = Append(@, F(t.offset, f.name, f.kind, f.count)),
              !.decl_row = Append(@, Len(t.rows) + 1),
              !.offset = @ + ScalarSize(f.kind) * f.count]
Bug_Place(t, f) == Emit(EmitPad(t, AlignUp(t.offset, 4)), f)
Place(t, f) == Emit(EmitPad(t, AlignUp(t.offset, ScalarSize(f.kind))), f)
MaxAlign(decl) == Max({ScalarSize(f.kind) : f \in Range(decl)} \cup {1})
Packed(decl) ==
    FoldLeft(Place, [rows |-> <<>>, pads |-> 0, decl_row |-> <<>>, offset |-> 0], decl)
Closed(t, align) == EmitPad(t, AlignUp(t.offset, align))

\* The default row: each default in every element of its field, and zeros between.
Element(f, i) == ((i - 1 - f.offset) % ScalarSize(f.kind)) + 1
DefaultByte(t, decl, i) ==
    LET d == {k \in DOMAIN decl : LET f == t.rows[t.decl_row[k]]
                                  IN i - 1 \in f.offset .. f.offset + f.size - 1}
        k == CHOOSE k \in d : TRUE
    IN IF d = {} THEN 0
       ELSE BitsOf(decl[k].default, ScalarSize(decl[k].kind))[Element(t.rows[t.decl_row[k]], i)]
NoDefault == <<>>
DefaultRow(t, decl) ==
    IF \A f \in Range(decl) : f.default = 0 THEN NoDefault
    ELSE [i \in 1 .. t.offset |-> DefaultByte(t, decl, i)]

\* lc_build, of fields with nothing wrong.
InfoOf(name, decl, flags, t) ==
    [name |-> name, size |-> t.offset, align |-> MaxAlign(decl), fields |-> t.rows, flags |-> flags,
     default_row |-> DefaultRow(t, decl), decl |-> decl]
Built(name, decl, flags) == InfoOf(name, decl, flags, Closed(Packed(decl), MaxAlign(decl)))
Interned(name, decl) == {name} \cup {f.name : f \in Range(decl)}

-----------------------------------------------------------------------------
(* world.cpp, column.cpp, events.cpp, arena_registry.cpp: the doors of the engine's own code, where *)
(* what is wrong is fatal.                                                                           *)

\* An arena's id is the hash of a name and of what the arena is for.
Arena(name, role, flags) == [id |-> <<name, role>>, flags |-> flags]
Kept == {"hashed", "snapshot"}
Grown == Kept \cup {"grows at barrier"}

\* world_init: the singletons of the world itself, then the columns of the entities.
WorldArenas ==
    <<Arena("world", "singletons", Kept), Arena("entities", "slots", Grown), Arena("entities", "gen", Grown),
      Arena("entities", "free", Grown), Arena("entities", "live", Grown)>>
WorldInit ==
    [comps |-> <<>>, events |-> <<>>, arenas |-> WorldArenas, names |-> {}, sealed |-> FALSE, fatal |-> FALSE]

\* The arenas of a component: one instance, or the column that column_init makes, whose pages follow
\* from its entities and are not hashed.
ColumnArenas(info) ==
    <<Arena(info.name, "dense", Grown), Arena(info.name, "entities", Grown),
      Arena(info.name, "pages", {"snapshot", "grows at barrier"})>>
ArenasOf(info) ==
    IF info.flags = "singleton" THEN <<Arena(info.name, "dense", Kept)>> ELSE ColumnArenas(info)

Taken(list, name) == \E i \in DOMAIN list : list[i].name = name
Fatal(w) == [w EXCEPT !.fatal = TRUE]

RegistryAdd(w, a) ==
    IF \/ Len(w.arenas) = MaxArenas
       \/ \E i \in DOMAIN w.arenas : w.arenas[i].id = a.id
       \/ "hashed" \in a.flags /\ "snapshot" \notin a.flags
    THEN Fatal(w) ELSE [w EXCEPT !.arenas = Append(@, a)]

ComponentIsLegal(w, info) ==
    /\ ~w.sealed /\ Len(w.comps) < MaxComponents /\ ~Taken(w.comps, info.name)
    /\ \A f \in Range(info.fields) : f.kind \in Kinds /\ f.size = ScalarSize(f.kind) * f.count
    /\ info.size % info.align = 0 /\ (info.flags # "singleton" => info.size # 0)
WorldRegisterComponent(w, info) ==
    IF ~ComponentIsLegal(w, info) THEN Fatal(w)
    ELSE [FoldLeft(RegistryAdd, w, ArenasOf(info)) EXCEPT !.comps = Append(@, info)]

EventIsLegal(w, info) ==
    /\ ~w.sealed /\ Len(w.events) < MaxEvents /\ ~Taken(w.events, info.name)
    /\ info.size # 0 /\ info.size % info.align = 0
WorldRegisterEvent(w, info) ==
    IF ~EventIsLegal(w, info) THEN Fatal(w) ELSE [w EXCEPT !.events = Append(@, info)]

-----------------------------------------------------------------------------
NoPacket == [struct |-> Leave, bytes |-> PutRow(Leave.fields, Ramp(Leave), Leave.size)]
InitOf(packets) ==
    /\ packet \in packets
    /\ fields = <<>> /\ answer = "none"
    /\ world = WorldInit
RInit == InitOf({[struct |-> s, bytes |-> PutRow(s.fields, Ramp(s), s.size)] : s \in WireStructs \cup FileHeaders})

\* A packet comes in short, or with a byte that was not sent.
Cut ==
    /\ Len(packet.bytes) = packet.struct.size
    /\ \E n \in Edges(packet.struct) : packet' = [packet EXCEPT !.bytes = SubSeq(@, 1, n)]
    /\ UNCHANGED <<fields, world, answer>>
Changed ==
    /\ packet.bytes = PutRow(packet.struct.fields, Ramp(packet.struct), packet.struct.size)
    /\ \E n \in Edges(packet.struct) :
          n < packet.struct.size /\ packet' = [packet EXCEPT !.bytes[n + 1] = 255]
    /\ UNCHANGED <<fields, world, answer>>

\* A script puts a field into the list it will declare; one that will be refused comes last.
Declared(w) == FoldLeft(LAMBDA n, i : n + Len(i.decl), 0, w.comps \o w.events)
AddField ==
    /\ Len(fields) <= MaxFields /\ (Declared(world) > 0 => Len(fields) + Declared(world) < MaxDeclared)
    /\ \A i \in DOMAIN fields : FieldError(fields, i) = "ok"
    /\ \E f \in Declarable : fields' = Append(fields, f)
    /\ answer' = "none" /\ UNCHANGED <<packet, world>>

\* world_register_component_luau and world_register_event_luau: a refusal leaves nothing behind.
Bug_DoorError(list, cap, name) ==
    IF world.sealed THEN "sealed" ELSE IF Len(list) = cap THEN "table full" ELSE DeclError(name, fields)
DoorError(list, cap, name) ==
    IF world.sealed THEN "sealed" ELSE IF Len(list) = cap THEN "table full"
    ELSE IF Taken(list, name) THEN "duplicate name" ELSE DeclError(name, fields)
Naming(w, name) == [w EXCEPT !.names = @ \cup Interned(name, fields)]
RegisterComponent ==
    \E c \in {<<"A", "">>, <<"B", "singleton">>} :
        /\ answer' = DoorError(world.comps, MaxComponents, c[1])
        /\ world' = IF answer' # "ok" THEN world
                    ELSE Naming(WorldRegisterComponent(world, Built(c[1], fields, c[2])), c[1])
        /\ fields' = <<>> /\ UNCHANGED packet
RegisterEvent ==
    \E name \in {"", "A"} :
        /\ answer' = DoorError(world.events, MaxEvents, name)
        /\ world' = IF answer' # "ok" THEN world
                    ELSE Naming(WorldRegisterEvent(world, Built(name, fields, "")), name)
        /\ fields' = <<>> /\ UNCHANGED packet

\* world_build_schedule closes the doors.
Seal ==
    /\ ~world.sealed /\ world' = [world EXCEPT !.sealed = TRUE]
    /\ answer' = "none" /\ UNCHANGED <<packet, fields>>

Rows == Cut \/ Changed
Declarations == AddField \/ RegisterComponent \/ RegisterEvent \/ Seal
RNext == Rows \/ Declarations

-----------------------------------------------------------------------------
\* Every struct of the protocol is its fields and nothing between them (reflect.h:196, the offsets of
\* wire.h), and a field that is an array of padding is named so.
NoHoles(size, align, table) ==
    /\ SumSize(table) = size /\ size % align = 0
    /\ \A i \in DOMAIN table :
          /\ table[i].offset = SumSize(SubSeq(table, 1, i - 1))
          /\ table[i].offset % ScalarSize(table[i].kind) = 0
LayoutIsDeclared ==
    NoHoles(packet.struct.size, MaxAlign(packet.struct.fields), packet.struct.fields)

\* What is read is what was written: a packet is taken only whole and with its padding zero, and
\* then writing its row again gives its bytes, so a row has one form (tl_wire_get_row).
TakenWhole ==
    LET s == packet.struct
    IN \E r \in {GetRow(s.fields, packet.bytes)} :
          /\ (r.err = "truncated") <=> (Len(packet.bytes) < s.size)
          /\ r.err = "ok" => /\ PutRow(s.fields, r.row, s.size) = packet.bytes
                             /\ \A i \in PadBytes(s.fields) : r.row[i] = 0
          /\ r.err = "truncated" => \A i \in Len(packet.bytes) + 1 .. s.size : r.row[i] = 0

\* Two rows have a difference if and only if reflect_diff_rows finds one, and its first line names
\* the first byte that differs; the count is that of all the elements even when the lines run out.
DiffNamesIt ==
    LET s == packet.struct
    IN \E r \in {GetRow(s.fields, packet.bytes).row} : \E d \in {DiffRows(s.fields, Ramp(s), r)} :
          LET bad == {i \in 1 .. s.size : r[i] # Ramp(s)[i]}
          IN /\ (d.found = 0) <=> (bad = {})
             /\ d.found > 0 => \E f \in Range(s.fields) :
                   /\ f.name = d.out[1].field
                   /\ Min(bad) - 1 \in f.offset + d.out[1].element * ScalarSize(f.kind)
                                    .. f.offset + (d.out[1].element + 1) * ScalarSize(f.kind) - 1
             /\ Len(d.out) = Min({d.found, MaxLines}) /\ d.found <= Cardinality(bad)

\* The struct a C++ compiler lays out for the same fields: each at the least offset after the one
\* before that its alignment allows.
CEnd(decl) ==
    LET end[i \in 0 .. Len(decl)] ==
            IF i = 0 THEN 0
            ELSE AlignUp(end[i - 1], ScalarSize(decl[i].kind)) + ScalarSize(decl[i].kind) * decl[i].count
    IN end

\* A component that a script declares is the struct C++ would have for its fields, tiled without a
\* hole, its gaps zero in the default row and its default in every element; the table has room for
\* its rows and no two of them have one name (luacomp.cpp, docs/ECS.md 10.7).
TwinOfC(info) ==
    LET own == SelectSeq(info.fields, LAMBDA f : ~IsPad(f))
        end == CEnd(info.decl)
    IN /\ Len(own) = Len(info.decl)
       /\ \A i \in DOMAIN own :
             /\ own[i].name = info.decl[i].name /\ own[i].kind = info.decl[i].kind
             /\ own[i].count = info.decl[i].count
             /\ own[i].offset + own[i].size = end[i]
       /\ info.size = AlignUp(end[Len(info.decl)], info.align)
       /\ NoHoles(info.size, info.align, info.fields)
       /\ Len(info.fields) <= 2 * MaxFields + 1
       /\ IsInjective([i \in DOMAIN info.fields |-> info.fields[i].name])
DefaultsEverywhere(info) ==
    info.default_row # NoDefault =>
        /\ \A i \in PadBytes(info.fields) : info.default_row[i] = 0
        /\ \A i \in DOMAIN info.decl : \E f \in Range(info.fields) :
              /\ f.name = info.decl[i].name
              /\ \A s \in Range(Elements(f)) :
                    BytesAt(info.default_row, s) = BitsOf(info.decl[i].default, s.size)
        /\ GetRow(info.fields, PutRow(info.fields, info.default_row, info.size)).row = info.default_row
DeclaredIsSound ==
    /\ \A info \in Range(world.comps \o world.events) : TwinOfC(info) /\ DefaultsEverywhere(info)
    /\ IsInjective([i \in DOMAIN world.comps |-> world.comps[i].name])
    /\ world.names = UNION {Interned(i.name, i.decl) : i \in Range(world.comps \o world.events)}

\* Peers whose tables have one hash read each other's rows: the same bytes are the same values, in
\* fields of the same names (tl_reflect_component_hash, one input of the session's fingerprint).
HashTellsTheForm ==
    \A a, b \in Range(world.comps \o world.events) :
        HashInput(a) = HashInput(b) =>
            /\ ScalarsOf(a.fields) = ScalarsOf(b.fields) /\ a.size = b.size
            /\ \A i \in DOMAIN a.fields : a.fields[i] = b.fields[i]

\* "Recoverable errors, never fatal" (core/world.h:313): whatever scripts declare, and in whatever
\* order, what the doors let through passes every check of world_register_component, column_init,
\* events_register and registry_add, and every arena of every component is registered, under an id
\* of its own.
NeverFatal ==
    /\ ~world.fatal
    /\ \A i, j \in DOMAIN world.arenas : world.arenas[i].id = world.arenas[j].id => i = j
    /\ \A c \in Range(world.comps) : \A a \in Range(ArenasOf(c)) : a \in Range(world.arenas)

ReflectInv == /\ NeverFatal /\ LayoutIsDeclared /\ TakenWhole /\ DiffNamesIt
              /\ DeclaredIsSound /\ HashTellsTheForm
=============================================================================

----------------------------- MODULE MC_Storage -----------------------------
(***************************************************************************)
(* What is put on the disk and on the wire, and what is read as data, in   *)
(* one state space: `focus` says which part is used, and the others stay   *)
(* as they began.                                                          *)
(***************************************************************************)
EXTENDS LogStore, AtomicFile, Assets, SaveFile

VARIABLES
    focus,
    reading, columns, bytes, column, segment,
    ring, frame, puts,
    sources, compiled

codec_vars == <<reading, columns, bytes, column, segment>>
ring_vars == <<ring, frame, puts>>
data_vars == <<sources, compiled>>

Codec == INSTANCE NetCodec WITH
    Recorded <- {{}, {1}, {0, 1}}, SessionFrames <- 3,
    ForeignFrames <- 2, ForeignTicks <- 3, ForeignRecords <- 3, ForeignEscapes <- 2
Ring == INSTANCE SlotRing WITH
    RingTicks <- 2, LastTick <- 5, Payloads <- {"f", "g"}, MaxPuts <- 3
ASSUME RingAssumption == Ring!Bounded

\* Three records of one slot, one of another, and one of an origin that is no slot.  The second
\* slot's is as it should be or has one field that is not: a version never set, padding, the slot
\* it is about, a kind.
MCIds == {<<0, 1>>, <<0, 2>>, <<0, 3>>, <<1, 1>>, <<2, 1>>}
Good == [format_version |-> 1, _pad0 |-> 0, slot |-> 0, kind |-> 9]
MCRests ==
    {Good, [Good EXCEPT !.format_version = 0], [Good EXCEPT !._pad0 = 1], [Good EXCEPT !.slot = 2],
     [Good EXCEPT !.kind = 0], [Good EXCEPT !.kind = 10]}

\* Builds that differ: a new field, a renamed one, one of another kind, an arena dropped and a
\* smaller column, an arena too many, an arena of another encoder.
Single == [id |-> "colony", kind |-> "reflected", max_rows |-> 1]
Column == [id |-> "health", kind |-> "ecs_column", max_rows |-> 2]
First ==
    [kinds |-> [hp |-> "int"], fields |-> <<"hp">>, aliases |-> <<>>, arenas |-> <<Single, Column>>]
MCBuilds ==
    {First,
     [First EXCEPT !.kinds = [hp |-> "int", mana |-> "int"], !.fields = <<"mana", "hp">>],
     [First EXCEPT !.kinds = [life |-> "int"], !.fields = <<"life">>, !.aliases = [hp |-> "life"]],
     [First EXCEPT !.kinds = [hp |-> "fx"]],
     [First EXCEPT !.arenas = <<[Column EXCEPT !.max_rows = 1]>>],
     [First EXCEPT !.arenas = <<Single, Column, [Column EXCEPT !.id = "mood"]>>],
     [First EXCEPT !.arenas = <<[Single EXCEPT !.id = "health"]>>]}
\* Two tables of up to two rows, one with a default; the rows of each, good and wrong; names 1 and 3 have
\* one hash.
V(kind, i) == [kind |-> kind, i |-> i]
Nothing == V("nil", 0)
T(name, n, flag) == [name |-> name, n |-> n, flag |-> flag]
U(name, n) == [name |-> name, n |-> n]
Name(i) == V("string", i)
MCSchemas ==
    LET Of(name, kind, default) == [name |-> name, kind |-> kind, count |-> 1, default |-> default]
    IN <<[table |-> "T", max_rows |-> 2, fields |-> <<Of("n", "i8", Nothing), Of("flag", "bool", Nothing)>>],
         [table |-> "U", max_rows |-> 2, fields |-> <<Of("n", "u64", V("int", 1))>>]>>
MCRows ==
    [T |-> {T(Name(1), V("int", -2), V("bool", 1)), T(Name(2), V("int", 1), V("bool", 0)),
            T(Name(3), V("int", 0), V("bool", 1)), T(Name(2), V("int", 2), V("bool", 0)),
            T(Name(2), Nothing, V("bool", 0)), T(Name(2), V("int", 1), V("int", 1)),
            T(Name(2), V("error", 0), V("bool", 1)), T(V("int", 1), V("int", 1), V("bool", 0)),
            Nothing},
     U |-> {U(Name(1), V("int", 3)), U(Name(2), Nothing), U(Name(2), V("int", -1)),
            U(Name(3), V("int", -5)), U(V("error", 0), V("int", 0))}]
Data == INSTANCE DataTables WITH
    Bits <- [i8 |-> 2, u8 |-> 2, bool |-> 3, u64 |-> 4], Exact <- 4, Schemas <- MCSchemas, MaxTables <- 3,
    IdxMask <- 1, Hash <- <<1, 2, 1>>, Rows <- MCRows, MaxSources <- 2, MaxRows <- 3

MCInit ==
    /\ focus \in {"log", "codec", "file", "save", "ring", "data", "assets"}
    /\ rest \in {[id \in Ids |-> IF id = <<1, 1>> THEN r ELSE Good] : r \in MCRests}
    /\ focus # "log" => rest[<<1, 1>>] = Good
    /\ LInit /\ Codec!Init /\ Init /\ SaveInit /\ Ring!Init /\ Data!DInit /\ AInit
    /\ focus # "log" => \A id \in Ids : sequenced[id] = 0
    /\ focus # "codec" => reading = "varint"
    /\ focus # "save" => build = First
    /\ focus # "ring" => \A i \in DOMAIN frame : frame[i] = "f"

MCNext ==
    /\ UNCHANGED focus
    /\ \/ /\ focus = "log" /\ LNext
          /\ UNCHANGED <<codec_vars, vars, save_vars, ring_vars, data_vars, avars>>
       \/ /\ focus = "codec" /\ Codec!Next
          /\ UNCHANGED <<log_vars, vars, save_vars, ring_vars, data_vars, avars>>
       \/ /\ focus = "file" /\ Next
          /\ UNCHANGED <<log_vars, codec_vars, save_vars, ring_vars, data_vars, avars>>
       \/ /\ focus = "save" /\ SaveNext
          /\ UNCHANGED <<log_vars, codec_vars, vars, ring_vars, data_vars, avars>>
       \/ /\ focus = "ring" /\ Ring!Next
          /\ UNCHANGED <<log_vars, codec_vars, vars, save_vars, data_vars, avars>>
       \/ /\ focus = "data" /\ Data!DNext
          /\ UNCHANGED <<log_vars, codec_vars, vars, save_vars, ring_vars, avars>>
       \/ /\ focus = "assets" /\ ANext
          /\ UNCHANGED <<log_vars, codec_vars, vars, save_vars, ring_vars, data_vars>>

MCSpec == MCInit /\ [][MCNext]_<<focus, log_vars, codec_vars, vars, save_vars, ring_vars, data_vars, avars>>

\* Each is asked where its part is in use; elsewhere that part has not moved.  Of the log store it
\* is LogInv (LogStore), asked everywhere: an empty store is one of its states; of the save, LoadIsWhole
\* (SaveFile), and of the file it is written to, FileInv and ReplacedAtOnce (AtomicFile).

\* What is written is what is read: by the codecs (encode.cpp, archive.cpp, wire.h), and from data
\* scripts to the tables they are compiled to (data_compile.cpp, data_tables.cpp); and a slot's ring
\* answers a tick with the frame it was last given for it (net_internal.h).
CodecInv ==
    /\ focus = "codec" => Codec!SessionComesBack /\ Codec!OnlyOneEncoding
    /\ focus = "data" => Data!DataInv
    /\ focus = "ring" => Ring!HeldIsLastPlaced
=============================================================================

------------------------------ MODULE NetCodec ------------------------------
(***************************************************************************)
(* What the codecs of Archive are given: the frames of a session,          *)
(* recorded tick by tick, and what some other writer sends: a varint's     *)
(* bytes, a column, a segment whose streams are not this encoder's.        *)
(***************************************************************************)
EXTENDS Archive

CONSTANTS
    Recorded,       \* the sets of slots a session may have
    SessionFrames,  \* bound: no tick follows once a session holds this many frames
    ForeignFrames,  \* bound on the frames of a column of another writer
    ForeignTicks,   \* bound on the frames of a segment one stream of which is another writer's
    ForeignRecords, \* bound on the records of a stream of another writer
    ForeignEscapes  \* the same for a stream of escapes, which has many more to choose from

VARIABLES
    reading,    \* what this behaviour is about
    columns,    \* the frames recorded for each slot
    bytes,      \* a varint some writer sent
    column,     \* a column some writer sent
    segment     \* a segment some writer sent and which of its streams is that writer's own
                \* (0 for none), <<>> before there is one

vars == <<reading, columns, bytes, column, segment>>

Subjects == {"session", "varint", "column", "segment"}

Init ==
    /\ reading \in Subjects
    /\ \E slots \in Recorded : columns = [s \in slots |-> <<>>]
    /\ reading \in {"varint", "column"} => DOMAIN columns = {}
    /\ bytes = <<>> /\ column = <<>> /\ segment = <<>>

LastFrame(s) == FrameAt(columns[s], Len(columns[s]))
Ticks == IF DOMAIN columns = {} THEN 0 ELSE Len(columns[Min(DOMAIN columns)])

\* A tick of the session: one action or the pointer of one slot changes, or nothing does.
Touched(f) ==
    {f} \cup {[f EXCEPT !.actions[a].value = v] : a \in Actions, v \in 0 .. MaxValue}
        \cup {[f EXCEPT !.actions[a].flags = g] : a \in Actions, g \in Flags}
        \cup {[f EXCEPT !.x = p] : p \in 0 .. Positions - 1}
        \cup {[f EXCEPT !.y = p] : p \in 0 .. Positions - 1}
\* Fewer changes where another writer's stream takes the place of one of the streams.
Pressed(f) == {f, [f EXCEPT !.actions[0].flags = 1 - Down(@)]}

Tick ==
    /\ reading \in {"session", "segment"} /\ segment = <<>>
    /\ Ticks < MaxTicks
    /\ Ticks * Cardinality(DOMAIN columns) <
           (IF reading = "session" THEN SessionFrames ELSE ForeignTicks)
    /\ \E s \in DOMAIN columns :
       \E f \in (IF reading = "session" THEN Touched(LastFrame(s)) ELSE Pressed(LastFrame(s))) :
           columns' = [u \in DOMAIN columns |->
                          Append(columns[u], IF u = s THEN f ELSE LastFrame(u))]
    /\ UNCHANGED <<reading, bytes, column, segment>>

ForeignByte ==
    /\ reading = "varint" /\ Len(bytes) <= MaxBytes
    /\ \E b \in 0 .. 2 * Group - 1 : bytes' = Append(bytes, b)
    /\ UNCHANGED <<reading, columns, column, segment>>

\* Nothing follows what was refused.
ForeignFrame ==
    /\ reading = "column" /\ Len(column) < ForeignFrames /\ DecodeColumn(column).ok
    /\ \E changed \in {{}} \cup {{a} : a \in Actions}, dvx, dvy \in 0 .. Positions - 1 :
       /\ dvx = 0 \/ dvy = 0
       /\ \E sent \in [changed -> [flags : Flags, value : {NotSent} \cup 0 .. MaxValue]] :
              column' = Append(column, [actions |-> sent, dvx |-> dvx, dvy |-> dvy])
    /\ UNCHANGED <<reading, columns, bytes, segment>>

\* The records a stream could hold, and some past the end of what its channel has.
ForeignStreamRecords(channel) ==
    [delta : 0 .. Width - 1,
     what : CASE channel \in {PointerX, PointerY} -> 0 .. Positions - 1
              [] channel = Escape -> 0 .. 8 * MaxActions
              [] OTHER -> 0 .. MaxWord + 1]

\* A writer whose segment is this encoder's but for one stream: left out, sent twice, sent in
\* another's place, or begun with a record of its own.
ForeignSegment ==
    /\ reading = "segment" /\ segment = <<>>
    /\ \E own \in {EncodeSegment(Ticks, columns)} :
       LET write(streams, k) ==
               segment' = <<[own EXCEPT !.streams = streams,
                                        !.record_count = RecordCount(streams)], k>>
       IN \/ \E k \in DOMAIN own.streams : write(RemoveAt(own.streams, k), 0)
          \/ \E k \in DOMAIN own.streams : write(InsertAt(own.streams, k, own.streams[k]), 0)
          \/ \E j, k \in DOMAIN own.streams :
                 write([own.streams EXCEPT ![j] = own.streams[k], ![k] = own.streams[j]], 0)
          \/ \E s \in DOMAIN columns, c \in 0 .. Escape : \E r \in ForeignStreamRecords(c) :
                 LET mine == [slot |-> s, channel |-> c, records |-> <<r>>]
                     before == SelectSeq(own.streams, LAMBDA t : Key(t) < Key(mine))
                     after == SelectSeq(own.streams, LAMBDA t : Key(t) > Key(mine))
                 IN write(before \o <<mine>> \o after, Len(before) + 1)
          \/ segment' = <<[own EXCEPT !.record_count = @ + 1], 0>>
    /\ UNCHANGED <<reading, columns, bytes, column>>

\* The other writer's stream goes on; again nothing follows what was refused.
ForeignRecord ==
    /\ reading = "segment" /\ segment # <<>> /\ DecodeSegment(segment[1]).ok
    /\ LET k == segment[2] IN
       /\ k # 0
       /\ LET channel == segment[1].streams[k].channel IN
          /\ Len(segment[1].streams[k].records) <
                 (IF channel = Escape THEN ForeignEscapes ELSE ForeignRecords)
          /\ \E r \in ForeignStreamRecords(channel) :
              segment' = <<[segment[1] EXCEPT !.streams[k].records = Append(@, r),
                                              !.record_count = @ + 1], k>>
    /\ UNCHANGED <<reading, columns, bytes, column>>

Next == Tick \/ ForeignByte \/ ForeignFrame \/ ForeignSegment \/ ForeignRecord

Spec == Init /\ [][Next]_vars

-----------------------------------------------------------------------------
\* archive_segment_max_bytes, in varints: two for a stream's header and two for a record.
SegmentMax(slots, ticks) ==
    slots * ((MaxActions + 2) * (2 + 2 * ticks) + 2 + 2 * ticks * MaxActions)
SegmentSize(seg) == FoldLeft(LAMBDA n, s : n + 2 + 2 * Len(s.records), 0, seg.streams)

ReadAs(read, frames) == read.ok /\ read.frames = frames
ReadAsSession(read) == read.ok /\ (Ticks # 0 => read.columns = columns)
SegmentComesBack(seg) ==
    /\ ReadAsSession(DecodeSegment(seg))
    /\ SegmentSize(seg) <= SegmentMax(Cardinality(DOMAIN columns), Ticks)

\* What a session recorded comes back from a packet's column and from an archive's segment as
\* it was: values, edge flags that do not follow from the down bits and pointer positions that
\* wrapped, each slot's to itself.  The segment fits in the buffer the caller was told to
\* bring (wire.h:833-838).
SessionComesBack ==
    segment = <<>> =>
        /\ SegmentComesBack(EncodeSegment(Ticks, columns))
        /\ \A s \in DOMAIN columns : ReadAs(DecodeColumn(EncodeColumn(columns[s])), columns[s])

ColumnIsOwn(read) == read.ok => EncodeColumn(read.frames) = column
SegmentIsOwn(seg, read) == read.ok => EncodeSegment(seg.ticks, read.columns) = seg
VarintIsOwn(read) ==
    read.err = "ok" => /\ read.value < Width
                       /\ PutUvarint(read.value) = SubSeq(bytes, 1, read.used)

\* Two segments never decode to the same frames, nor two columns: what the decoder takes from
\* another writer is what its own encoder would have written for it, so the hash of a segment
\* is a hash of its frames (archive.cpp:268-272, encode.cpp:118-127).
OnlyOneEncoding ==
    /\ ColumnIsOwn(DecodeColumn(column))
    /\ segment # <<>> => SegmentIsOwn(segment[1], DecodeSegment(segment[1]))
    /\ VarintIsOwn(GetUvarint(bytes))
    /\ reading = "varint" => \A v \in 0 .. Width - 1 :
           GetUvarint(PutUvarint(v) \o bytes) =
               [err |-> "ok", value |-> v, used |-> Len(PutUvarint(v))]
=============================================================================

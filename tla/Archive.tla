------------------------------ MODULE Archive ------------------------------
(***************************************************************************)
(* The wire's pure parts (net/wire.h, net/encode.cpp): variable-length     *)
(* integers as bytes, and a column of input frames as the difference from  *)
(* the frame before.  A column is a sequence of one record per frame, not  *)
(* bytes: what is cut off in the middle is refused by the byte reader.     *)
(* And an archive segment (net/archive.cpp): the frames of some slots over *)
(* a run of ticks as one stream of changes per channel, then the sequenced *)
(* log records.  A stream is its slot, its channel and its records; the    *)
(* lengths and checksums of the header are not modelled.  Widths are       *)
(* parameters so that small instances wrap and overflow where 32-bit       *)
(* integers do.                                                            *)
(***************************************************************************)
EXTENDS Integers, Sequences, SequencesExt, FiniteSetsExt, Folds

CONSTANTS
    Width,      \* number of values of an unsigned integer, 2^32 in the code
    Group,      \* number of values of a varint byte's payload, 2^7
    MaxBytes,   \* WIRE_UVARINT_MAX_BYTES
    MaxActions, \* NET_FRAME_MAX_ACTIONS
    MaxValue,   \* greatest of an action's values, as the unsigned byte it is sent as
    Positions,  \* number of pointer positions, 2^32
    Slots,      \* 0 .. MAX_PEERS - 1
    MaxTicks,   \* CHECKPOINT_HOT_TICKS
    MaxRecords  \* MAX_LOG_RECORDS_PER_PACKET

ASSUME WireAssumption ==
    /\ {Width, Group, MaxBytes, MaxActions, MaxValue, Positions} \subseteq Nat \ {0}
    /\ Group ^ (MaxBytes - 1) < Width /\ Width <= Group ^ MaxBytes
ASSUME ArchiveAssumption ==
    /\ Slots \subseteq Nat
    /\ {MaxTicks, MaxRecords} \subseteq Nat
    /\ MaxTicks < Width

Actions == 0 .. MaxActions - 1
Flags == 0 .. 7             \* WIRE_FLAG_BITS: down, pressed, released
Frames == [actions : [Actions -> [value : 0 .. MaxValue, flags : Flags]],
           x : 0 .. Positions - 1, y : 0 .. Positions - 1]
ZeroFrame == [actions |-> [a \in Actions |-> [value |-> 0, flags |-> 0]], x |-> 0, y |-> 0]

\* Frame i of a column, counted from 1, and the zero frame before it.
FrameAt(frames, i) == IF i = 0 THEN ZeroFrame ELSE frames[i]

Down(flags) == flags % 2
WrapAdd(a, b) == (a + b) % Positions
WrapSub(a, b) == (a - b) % Positions

-----------------------------------------------------------------------------
\* wire_put_uvarint: payload groups from the lowest, all but the last with the continue bit.
PutUvarint(v) ==
    LET put[i \in 0 .. MaxBytes] ==
            LET rest == v \div Group ^ i
            IN IF rest >= Group THEN <<Group + (rest % Group)>> \o put[i + 1] ELSE <<rest>>
    IN put[0]

\* A last group of zero taken for a number, so that numbers have two forms.
Bug_GetUvarint(bytes) ==
    LET ends == {i \in DOMAIN bytes : bytes[i] < Group}
        n == Min(ends \cup {Len(bytes) + 1})
        value == FoldLeft(LAMBDA v, i : v + (bytes[i] % Group) * Group ^ (i - 1), 0,
                          [i \in 1 .. n |-> i])
    IN IF n > MaxBytes /\ Len(bytes) >= MaxBytes THEN [err |-> "overflow"]
       ELSE IF n > Len(bytes) THEN [err |-> "truncated"]
       ELSE [err |-> "ok", value |-> value % Width, used |-> n]

\* wire_get_uvarint: the value, or why there is none.  The last byte may hold only what still
\* fits in the integer; a last group of zero is not how the value is written.
GetUvarint(bytes) ==
    LET ends == {i \in DOMAIN bytes : bytes[i] < Group}
        n == Min(ends \cup {Len(bytes) + 1})
        value == FoldLeft(LAMBDA v, i : v + (bytes[i] % Group) * Group ^ (i - 1), 0,
                          [i \in 1 .. n |-> i])
    IN IF n >= MaxBytes /\ Len(bytes) >= MaxBytes
             /\ bytes[MaxBytes] >= Width \div Group ^ (MaxBytes - 1)
       THEN [err |-> "overflow"]
       ELSE IF n > Len(bytes) THEN [err |-> "truncated"]
       ELSE IF n > 1 /\ bytes[n] = 0 THEN [err |-> "malformed"]
       ELSE [err |-> "ok", value |-> value, used |-> n]

-----------------------------------------------------------------------------
\* wire_implied_value: the value that goes without saying.
Implied(flags) == Down(flags)
NotSent == -1

\* The value left out whenever the action is down, implied or not.
Bug_EncodeColumn(frames) ==
    [i \in DOMAIN frames |->
        LET f == frames[i]
            g == FrameAt(frames, i - 1)
            h == FrameAt(frames, IF i > 1 THEN i - 2 ELSE 0)
            changed == {a \in Actions : f.actions[a] # g.actions[a]}
        IN [actions |-> [a \in changed |->
                            [flags |-> f.actions[a].flags,
                             value |-> IF Down(f.actions[a].flags) = 1 THEN NotSent
                                       ELSE f.actions[a].value]],
            dvx |-> WrapSub(WrapSub(f.x, g.x), WrapSub(g.x, h.x)),
            dvy |-> WrapSub(WrapSub(f.y, g.y), WrapSub(g.y, h.y))]]

\* encode_column: an action is sent when it changed, its value when the flags do not imply it;
\* the pointer as the change of its velocity.
EncodeColumn(frames) ==
    [i \in DOMAIN frames |->
        LET f == frames[i]
            g == FrameAt(frames, i - 1)
            h == FrameAt(frames, IF i > 1 THEN i - 2 ELSE 0)
            changed == {a \in Actions : f.actions[a] # g.actions[a]}
        IN [actions |-> [a \in changed |->
                            [flags |-> f.actions[a].flags,
                             value |-> IF f.actions[a].value = Implied(f.actions[a].flags)
                                       THEN NotSent ELSE f.actions[a].value]],
            dvx |-> WrapSub(WrapSub(f.x, g.x), WrapSub(g.x, h.x)),
            dvy |-> WrapSub(WrapSub(f.y, g.y), WrapSub(g.y, h.y))]]

\* decode_column: the frames, and whether the column was one the encoder could have written.
ColumnStart == [ok |-> TRUE, frames |-> <<>>, vx |-> 0, vy |-> 0]
DecodeFrame(s, record) ==
    LET prev == FrameAt(s.frames, Len(s.frames))
        sent == DOMAIN record.actions
        now == [a \in sent |->
                   LET r == record.actions[a]
                   IN [r EXCEPT !.value = IF @ = NotSent THEN Implied(r.flags) ELSE @]]
        vx == WrapAdd(s.vx, record.dvx)
        vy == WrapAdd(s.vy, record.dvy)
    IN [ok |-> /\ s.ok
               /\ \A a \in sent : /\ record.actions[a].value # Implied(record.actions[a].flags)
                                  /\ now[a] # prev.actions[a],
        frames |-> Append(s.frames,
                      [actions |-> [a \in Actions |-> IF a \in sent THEN now[a]
                                                      ELSE prev.actions[a]],
                       x |-> WrapAdd(prev.x, vx), y |-> WrapAdd(prev.y, vy)]),
        vx |-> vx, vy |-> vy]
DecodeColumn(column) == FoldLeft(DecodeFrame, ColumnStart, column)

-----------------------------------------------------------------------------
(* The archive segment.                                                    *)

PointerX == MaxActions
PointerY == MaxActions + 1
Escape == MaxActions + 2
Key(stream) == stream.slot * (Escape + 1) + stream.channel

\* What the action channel carries of a frame's action: its value and its down bit.
Word(action) == 2 * action.value + Down(action.flags)
MaxWord == 2 * MaxValue + 1

\* The edge flags that follow from two down bits.
Derived(down, before) ==
    down + (IF down = 1 /\ before = 0 THEN 2 ELSE 0) + (IF down = 0 /\ before = 1 THEN 4 ELSE 0)
DerivedAt(frames, i, a) ==
    Derived(Down(frames[i].actions[a].flags), Down(FrameAt(frames, i - 1).actions[a].flags))

\* Those of 0 .. n - 1 with the property, in their order.
Those(n, with(_)) == SelectSeq([i \in 1 .. n |-> i - 1], with)

\* The records of a stream that changes at these ticks: distance from the last, then what.
Changes(ticks, what(_)) ==
    [k \in DOMAIN ticks |->
        [delta |-> IF k = 1 THEN ticks[k] ELSE ticks[k] - ticks[k - 1], what |-> what(ticks[k])]]

\* Ticks are counted from 0 and frames from 1.
ActionStream(frames, a) ==
    LET word(i) == Word(FrameAt(frames, i).actions[a])
        ticks == Those(Len(frames), LAMBDA t : word(t + 1) # word(t))
    IN Changes(ticks, LAMBDA t : word(t + 1))

\* The velocity taken from two positions without its sign: a pointer that turns back is lost.
Bug_PointerStream(p) ==
    LET v == [t \in 0 .. Len(p) - 1 |->
                 IF t = 0 THEN 0 ELSE Max({p[t + 1], p[t]}) - Min({p[t + 1], p[t]})]
        ticks == Those(Len(p), LAMBDA t : t > 0 /\ v[t] # v[t - 1])
    IN IF p = <<>> THEN <<>>
       ELSE Changes(<<0>> \o ticks, LAMBDA t : IF t = 0 THEN p[1] ELSE v[t])

\* The position at the first tick, then each change of velocity.
PointerStream(p) ==
    LET v == [t \in 0 .. Len(p) - 1 |-> IF t = 0 THEN 0 ELSE WrapSub(p[t + 1], p[t])]
        ticks == Those(Len(p), LAMBDA t : t > 0 /\ v[t] # v[t - 1])
    IN IF p = <<>> THEN <<>>
       ELSE Changes(<<0>> \o ticks, LAMBDA t : IF t = 0 THEN p[1] ELSE v[t])

\* The flags that are not the derived ones, in the order of ticks and of actions.
EscapeStream(frames) ==
    LET tick(e) == e \div MaxActions
        action(e) == e % MaxActions
        flags(e) == frames[tick(e) + 1].actions[action(e)].flags
        odd == Those(Len(frames) * MaxActions,
                     LAMBDA e : flags(e) # DerivedAt(frames, tick(e) + 1, action(e)))
    IN [k \in DOMAIN odd |->
           [delta |-> tick(odd[k]) - (IF k = 1 THEN 0 ELSE tick(odd[k - 1])),
            what |-> 8 * action(odd[k]) + flags(odd[k])]]

\* archive_encode_segment's streams: by slot and channel, an empty one left out.
SlotStreams(slot, frames) ==
    LET records(channel) ==
            CASE channel = PointerX -> PointerStream([i \in DOMAIN frames |-> frames[i].x])
              [] channel = PointerY -> PointerStream([i \in DOMAIN frames |-> frames[i].y])
              [] channel = Escape -> EscapeStream(frames)
              [] OTHER -> ActionStream(frames, channel)
        stream(channel) == [slot |-> slot, channel |-> channel, records |-> records(channel)]
    IN SelectSeq([c \in 1 .. Escape + 1 |-> stream(c - 1)], LAMBDA s : s.records # <<>>)

RecordCount(streams) == FoldLeft(LAMBDA n, s : n + Len(s.records), 0, streams)

Segment(ticks, slots, streams) ==
    [ticks |-> ticks,
     mask |-> IF ticks = 0 THEN {} ELSE slots,
     streams |-> streams,
     record_count |-> RecordCount(streams)]

\* `columns` holds the frames of each slot in the segment, all of `ticks` frames.
EncodeSegment(ticks, columns) ==
    LET slots == Those(Max(Slots) + 1, LAMBDA s : s \in DOMAIN columns)
    IN Segment(ticks, DOMAIN columns,
               FoldLeft(LAMBDA all, s : all \o SlotStreams(s, columns[s]), <<>>, slots))

-----------------------------------------------------------------------------
\* A cursor moved as the decoder moves it, in unsigned arithmetic.
Advance(cursor, delta) == (cursor + delta) % Width

\* An action stream: the word at each tick, held from one record to the next.
DecodeAction(records, ticks) ==
    LET step(s, r) ==
            LET first == s.at = <<>>
                tick == IF first THEN r.delta ELSE Advance(Last(s.at), r.delta)
            IN [ok |-> /\ s.ok
                       /\ first \/ r.delta # 0
                       /\ first \/ tick >= Last(s.at)
                       /\ tick < ticks
                       /\ r.what # (IF first THEN 0 ELSE Last(s.words))
                       /\ r.what <= MaxWord,
                at |-> Append(s.at, tick), words |-> Append(s.words, r.what)]
        end == FoldLeft(step, [ok |-> Len(records) <= ticks, at |-> <<>>, words |-> <<>>], records)
        word(t) == LET past == {k \in DOMAIN end.at : end.at[k] <= t}
                   IN IF past = {} THEN 0 ELSE end.words[Max(past)]
    IN [ok |-> end.ok, word |-> IF end.ok THEN [t \in 0 .. ticks - 1 |-> word(t)] ELSE <<>>]

\* A record that changes nothing, and one past the end, taken.
Bug_DecodePointer(records, ticks) ==
    LET at[k \in 1 .. Len(records)] ==
            IF k = 1 THEN records[1].delta ELSE Advance(at[k - 1], records[k].delta)
        v(t) == LET past == {k \in 2 .. Len(records) : at[k] <= t}
                IN IF t = 0 \/ past = {} THEN 0 ELSE records[Max(past)].what
        p[t \in 0 .. ticks] ==
            IF t = 0 THEN records[1].what ELSE WrapAdd(p[t - 1], v(t))
    IN [ok |-> ticks # 0 /\ Len(records) <= ticks /\ records[1].delta = 0,
        p |-> [i \in 1 .. ticks |-> p[i - 1]]]

\* A pointer stream: a record is read once the one before took effect, and takes effect when
\* the tick reaches it; none may be left over.
DecodePointer(records, ticks) ==
    LET n == Len(records)
        read(s) == s.next = -1 /\ s.rec < n
        step(s, t) ==
            LET r == records[s.rec + 1]
                pending == IF read(s) THEN Advance(s.cursor, r.delta) ELSE s.next
                due == pending = t
                v == IF due THEN records[IF read(s) THEN s.rec + 1 ELSE s.rec].what ELSE s.v
            IN [ok |-> /\ s.ok
                       /\ read(s) => r.delta # 0 /\ pending < ticks
                       /\ due => v # s.v,
                cursor |-> IF read(s) THEN pending ELSE s.cursor,
                rec |-> IF read(s) THEN s.rec + 1 ELSE s.rec,
                next |-> IF due THEN -1 ELSE pending,
                v |-> v,
                p |-> Append(s.p, WrapAdd(Last(s.p), v))]
        start == [ok |-> TRUE, cursor |-> 0, rec |-> 1, next |-> -1, v |-> 0,
                  p |-> <<records[1].what>>]
        end == FoldLeft(step, start, [t \in 1 .. ticks - 1 |-> t])
    IN IF ticks = 0 \/ n > ticks \/ records[1].delta # 0 THEN [ok |-> FALSE, p |-> <<>>]
       ELSE [ok |-> end.ok /\ end.rec = n /\ end.next = -1, p |-> end.p]

\* The derived flags of every action, from the down bits the action streams gave.
Rebuild(frames) ==
    [i \in DOMAIN frames |->
        [frames[i] EXCEPT !.actions =
            [a \in Actions |-> [@[a] EXCEPT !.flags = DerivedAt(frames, i, a)]]]]

\* The escapes, over rebuilt frames: each one must say what the rebuilding did not.
DecodeEscape(records, rebuilt) ==
    LET step(s, r) ==
            LET tick == IF s.first THEN r.delta ELSE Advance(s.cursor, r.delta)
                a == r.what \div 8
                flags == r.what % 8
                ok == /\ s.ok
                      /\ s.first \/ tick >= s.cursor
                      /\ tick < Len(rebuilt)
                      /\ a \in Actions
                      /\ ~s.first /\ tick = s.cursor => a > s.last
                      /\ LET now == s.frames[tick + 1].actions[a].flags
                         IN flags # now /\ Down(flags) = Down(now)
            IN [ok |-> ok, first |-> FALSE, cursor |-> tick, last |-> a,
                frames |-> IF ok THEN [s.frames EXCEPT ![tick + 1].actions[a].flags = flags]
                           ELSE s.frames]
    IN FoldLeft(step, [ok |-> Len(records) <= Len(rebuilt) * MaxActions, first |-> TRUE,
                       cursor |-> 0, last |-> 0, frames |-> rebuilt], records)

\* The frames of a slot with what one of its streams says filled in.
Refused == [ok |-> FALSE]
WithAction(frames, a, read) ==
    IF ~read.ok THEN Refused
    ELSE [ok |-> TRUE,
          frames |-> [i \in DOMAIN frames |->
                         [frames[i] EXCEPT !.actions[a] = [value |-> read.word[i - 1] \div 2,
                                                           flags |-> read.word[i - 1] % 2]]]]
WithX(frames, read) ==
    IF ~read.ok THEN Refused
    ELSE [ok |-> TRUE, frames |-> [i \in DOMAIN frames |-> [frames[i] EXCEPT !.x = read.p[i]]]]
WithY(frames, read) ==
    IF ~read.ok THEN Refused
    ELSE [ok |-> TRUE, frames |-> [i \in DOMAIN frames |-> [frames[i] EXCEPT !.y = read.p[i]]]]
DecodeChannel(frames, stream) ==
    LET channel == stream.channel
        records == stream.records
        ticks == Len(frames)
    IN CASE channel \in Actions -> WithAction(frames, channel, DecodeAction(records, ticks))
         [] channel = PointerX -> WithX(frames, DecodePointer(records, ticks))
         [] channel = PointerY -> WithY(frames, DecodePointer(records, ticks))
         [] channel = Escape -> DecodeEscape(records, Rebuild(frames))

\* A decoded stream goes to its slot, or the segment is refused.
AddStream(s, stream, decoded) ==
    IF ~decoded.ok THEN [s EXCEPT !.ok = FALSE]
    ELSE [ok |-> TRUE, last_key |-> Key(stream),
          columns |-> [s.columns EXCEPT ![stream.slot] = decoded.frames],
          rebuilt |-> IF stream.channel = Escape THEN s.rebuilt \cup {stream.slot} ELSE s.rebuilt,
          seen |-> s.seen \cup {<<stream.slot, stream.channel>>}]
DecodeStream(seg, s, stream) ==
    IF s.ok /\ stream.slot \in seg.mask /\ s.last_key < Key(stream) /\ stream.records # <<>>
    THEN AddStream(s, stream, DecodeChannel(s.columns[stream.slot], stream))
    ELSE [s EXCEPT !.ok = FALSE]

\* archive_decode_segment's streams: the frames of the slots in the mask.
Pointers(seen, channel) == {s \in Slots : <<s, channel>> \in seen}
Decoded(seg, end) ==
    [ok |-> /\ end.ok
            /\ RecordCount(seg.streams) = seg.record_count
            /\ IF seg.ticks = 0 THEN seg.mask = {}
               ELSE /\ Pointers(end.seen, PointerX) = seg.mask
                    /\ Pointers(end.seen, PointerY) = seg.mask,
     columns |-> [s \in seg.mask |-> IF s \in end.rebuilt THEN end.columns[s]
                                     ELSE Rebuild(end.columns[s])]]
DecodeSegment(seg) ==
    LET start == [ok |-> seg.ticks <= MaxTicks, last_key |-> -1,
                  columns |-> [s \in Slots |-> [i \in 1 .. seg.ticks |-> ZeroFrame]],
                  rebuilt |-> {}, seen |-> {}]
    IN Decoded(seg, FoldLeft(LAMBDA s, stream : DecodeStream(seg, s, stream), start, seg.streams))

-----------------------------------------------------------------------------
\* The log array.  By tick, then origin, then sequence number, all strictly.
Before(a, b) ==
    \/ a.tick < b.tick
    \/ /\ a.tick = b.tick
       /\ a.origin < b.origin \/ (a.origin = b.origin /\ a.seq < b.seq)

\* Of a record's other fields (wire.h, LogRecord) what both sides look at: `rest` has its format
\* version, its padding, the slot it is about and its kind.
NetFormatVersion == 1
RecordKinds == 1 .. 9       \* LR_JOIN .. LR_END
WellFormed(r) ==
    /\ r.rest.format_version = NetFormatVersion
    /\ r.rest._pad0 = 0
    /\ r.rest.slot \in Slots /\ r.origin \in Slots
    /\ r.rest.kind \in RecordKinds

\* The record's own fields not looked at, as the encoder once was.
Bug_EncoderTakes(log, base, ticks) ==
    /\ \A i \in 2 .. Len(log) : Before(log[i - 1], log[i])
    /\ ticks <= MaxTicks
    /\ Len(log) <= MaxRecords * ticks
    /\ \A i \in DOMAIN log : log[i].tick >= base /\ log[i].tick - base < ticks

\* What archive_encode_segment checks of the records; a failed check stops the process.
EncoderTakes(log, base, ticks) ==
    /\ \A i \in 2 .. Len(log) : Before(log[i - 1], log[i])
    /\ ticks <= MaxTicks
    /\ Len(log) <= MaxRecords * ticks
    /\ \A i \in DOMAIN log :
           /\ WellFormed(log[i])
           /\ log[i].tick >= base /\ log[i].tick - base < ticks
           /\ LET past == {j \in 1 .. i - 1 : log[j].origin = log[i].origin}
              IN past # {} => log[i].seq > log[Max(past)].seq
           /\ LET run == {j \in 1 .. i : \A k \in j .. i : log[k].tick = log[i].tick}
              IN Cardinality(run) <= MaxRecords

\* What archive_decode_segment checks of them, in one pass with what it remembers of the
\* records before: the last sequence number of each origin and the run of the current tick.
\* At the first record it refuses, it returns.
DecoderStart(log, ticks) ==
    [ok |-> ticks <= MaxTicks /\ Len(log) <= MaxRecords * ticks, prev |-> <<>>, run |-> 0,
     last_seq |-> [o \in Slots |-> -1]]
RunOf(s, r) == IF s.prev # <<>> /\ s.prev[1].tick = r.tick THEN s.run + 1 ELSE 1
Follows(s, r, base, ticks) ==
    /\ WellFormed(r)
    /\ r.tick >= base /\ r.tick - base < ticks
    /\ s.prev # <<>> => Before(s.prev[1], r)
    /\ s.last_seq[r.origin] < r.seq
    /\ RunOf(s, r) <= MaxRecords
DecoderStep(s, r, base, ticks) ==
    IF s.ok /\ Follows(s, r, base, ticks)
    THEN [ok |-> TRUE, prev |-> <<r>>, run |-> RunOf(s, r),
          last_seq |-> [s.last_seq EXCEPT ![r.origin] = r.seq]]
    ELSE [s EXCEPT !.ok = FALSE]
DecoderTakes(log, base, ticks) ==
    LET state[i \in 0 .. Len(log)] ==
            IF i = 0 THEN DecoderStart(log, ticks) ELSE DecoderStep(state[i - 1], log[i], base, ticks)
    IN  state[Len(log)].ok
=============================================================================

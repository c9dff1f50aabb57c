------------------------------ MODULE LogStore ------------------------------
(***************************************************************************)
(* The store of sequenced one-shots (net/net_internal.h) and the archive   *)
(* segment made from it (net/archive.cpp).  A record is announced in       *)
(* `pending` and comes again in its tick's section, so the same records    *)
(* arrive in any order and any number of times.                            *)
(***************************************************************************)
EXTENDS Archive

CONSTANTS
    Capacity,   \* LOG_STORE_CAPACITY
    Ids,        \* the records there are, by origin_slot and seq; some origins may be no slot
    Rests,      \* what their other fields may hold
    LogTicks    \* bound: the ticks records take effect at are 0 .. LogTicks - 1

ASSUME StoreAssumption == {Capacity, LogTicks} \subseteq Nat /\ Ids \subseteq Nat \X Nat

LogTickRange == 0 .. LogTicks - 1

VARIABLES
    sequenced,  \* the tick the sequencer gave each origin's records
    rest,       \* their other fields, which nobody on the way here has looked at
    records,    \* the store's array, up to its count
    offered,    \* the ids that were added since the store was cleared
    refused     \* those of them that were last answered with something else than stored

log_vars == <<sequenced, rest, records, offered, refused>>

Id(r) == <<r.origin, r.seq>>
Record(id) == [origin |-> id[1], seq |-> id[2], tick |-> sequenced[id], rest |-> rest[id]]

\* log_store_has, log_store_count_at_tick
Has(id) == \E i \in DOMAIN records : Id(records[i]) = id
CountAt(tick) == Cardinality({i \in DOMAIN records : records[i].tick = tick})

\* The sequencer's frontier only grows: an origin's later record is not effective earlier
\* (archive.cpp:286-288).
LInit ==
    /\ sequenced \in [Ids -> LogTickRange]
    /\ \A a, b \in Ids : a[1] = b[1] /\ a[2] <= b[2] => sequenced[a] <= sequenced[b]
    /\ rest \in [Ids -> Rests]
    /\ records = <<>> /\ offered = {} /\ refused = {}

\* The bound of one tick's records forgotten: the array's is the only one.
Bug_Add(id) ==
    /\ offered' = offered \cup {id}
    /\ IF ~Has(id) /\ Len(records) < Capacity
       THEN records' = Append(records, Record(id)) /\ refused' = refused \ {id}
       ELSE refused' = (IF Has(id) THEN refused ELSE refused \cup {id}) /\ UNCHANGED records
    /\ UNCHANGED <<sequenced, rest>>

\* log_store_add, which copies the record as it is: already there, no room, too many at the tick, or stored at the end.
Add(id) ==
    /\ offered' = offered \cup {id}
    /\ IF ~Has(id) /\ Len(records) < Capacity /\ CountAt(sequenced[id]) < MaxRecords
       THEN records' = Append(records, Record(id)) /\ refused' = refused \ {id}
       ELSE refused' = (IF Has(id) THEN refused ELSE refused \cup {id}) /\ UNCHANGED records
    /\ UNCHANGED <<sequenced, rest>>

\* log_store_clear
Clear ==
    /\ records # <<>>
    /\ records' = <<>> /\ offered' = {} /\ refused' = {}
    /\ UNCHANGED <<sequenced, rest>>

LNext == (\E id \in Ids : Add(id)) \/ Clear

LSpec == LInit /\ [][LNext]_log_vars

-----------------------------------------------------------------------------
\* log_store_at_tick: up to `cap` records of the tick, each time the least one after the last
\* one taken, and whether one was left.
LeftAt(tick, taken) ==
    {i \in DOMAIN records :
        records[i].tick = tick /\ (taken # <<>> => Before(Last(taken), records[i]))}
LeastOf(places) == records[CHOOSE i \in places : \A j \in places : ~Before(records[j], records[i])]
TakeNext(tick, taken) ==
    IF LeftAt(tick, taken) = {} THEN taken ELSE Append(taken, LeastOf(LeftAt(tick, taken)))
Reads(tick, cap) ==
    LET out[n \in 0 .. cap] == IF n = 0 THEN <<>> ELSE TakeNext(tick, out[n - 1])
    IN  out[cap]
AtTick(tick, cap) ==
    [out |-> Reads(tick, cap), truncated |-> LeftAt(tick, Reads(tick, cap)) # {}]

\* A segment's log array, taken from the store tick by tick.
SegmentLog(base, ticks) ==
    LET log[t \in 0 .. ticks] ==
            IF t = 0 THEN <<>> ELSE log[t - 1] \o AtTick(base + t - 1, MaxRecords).out
    IN  log[ticks]

-----------------------------------------------------------------------------
\* A read gives the tick's records in the order of (origin, seq) whatever order they came in,
\* as many as fit, and says when it left some out (net_internal.h:161-170).
ReadIsOrdered ==
    \A t \in LogTickRange, cap \in 0 .. MaxRecords + 1 :
        LET here == {r \in ToSet(records) : r.tick = t}
            read == AtTick(t, cap)
            taken == ToSet(read.out)
        IN /\ \A i \in 2 .. Len(read.out) : Before(read.out[i - 1], read.out[i])
           /\ taken \subseteq here
           /\ \A r \in here \ taken, k \in taken : Before(k, r)
           /\ Cardinality(taken) = Min({cap, Cardinality(here)})
           /\ read.truncated <=> here # taken

\* Whatever came, twice or out of order, the store has one record for each id that it did not
\* refuse for want of room, and it never refuses one it could still hold.
StoredOnce ==
    /\ \A i, j \in DOMAIN records : Id(records[i]) = Id(records[j]) => i = j
    /\ {Id(records[i]) : i \in DOMAIN records} = offered \ refused
    /\ \A id \in refused : Len(records) = Capacity \/ CountAt(sequenced[id]) = MaxRecords

Archivable(log, n) == n <= MaxTicks /\ \A r \in ToSet(log) : WellFormed(r)
Takes(log, base, n) ==
    /\ ToSet(log) = {r \in ToSet(records) : r.tick \in base .. base + n - 1}
    /\ EncoderTakes(log, base, n) <=> Archivable(log, n)
    /\ DecoderTakes(log, base, n) <=> Archivable(log, n)

\* What the store took, the archive can be made of, but for what the store does not look at: a
\* packet's worth of room is enough for any tick, so no record is left out; the encoder stops the
\* process just when the window has more than CHECKPOINT_HOT_TICKS ticks or one of its records is
\* malformed, whatever the order they came in and however often; and the decoder refuses just
\* what the encoder would not have written (net_internal.h:120-123, archive.cpp:268-272).
FeedsArchive ==
    \A base \in LogTickRange, n \in 0 .. MaxTicks + 1 : Takes(SegmentLog(base, n), base, n)

LogInv == ReadIsOrdered /\ StoredOnce /\ FeedsArchive
=============================================================================

----------------------------- MODULE Containers -----------------------------
(***************************************************************************)
(* foundation/map.h and foundation/sorted.h as values, and a registry kept *)
(* in both at once, under any puts and removes; and foundation/sort.cpp.   *)
(* The platform's tables of handles are HandleTables'.                     *)
(***************************************************************************)
EXTENDS HandleTables, Integers, FiniteSets, Sequences, SequencesExt

-----------------------------------------------------------------------------
(* A Map: open addressing, linear probing, a power of two of slots,        *)
(* deletion without tombstones.  `hash` is any function of the keys; a     *)
(* slot that is not full holds zeros.                                      *)

\* b^0 .. b^n
Powers(b, n) == LET power[e \in 0 .. n] == IF e = 0 THEN 1 ELSE b * power[e - 1] IN power

\* The elements of a sequence that are in K.
Only(s, K) ==
    LET kept[n \in 0 .. Len(s)] ==
            IF n = 0 THEN <<>> ELSE IF s[n] \in K THEN Append(kept[n - 1], s[n]) ELSE kept[n - 1]
    IN  kept[Len(s)]

EmptySlot == [full |-> FALSE, key |-> 0, val |-> 0]
RoundPow2(n) == Min({p \in {Powers(2, n)[e] : e \in 0 .. n} : p >= n})

\* map_init.
EmptyMap(cap) == LET p == RoundPow2(IF cap < 2 THEN 2 ELSE cap)
                 IN  [slot |-> [i \in 0 .. p - 1 |-> EmptySlot], cap |-> p, count |-> 0]

Wrapped(m, i) == i % m.cap
Ideal(m, hash, k) == Wrapped(m, hash[k])

\* map_probe: the key's slot, or the first empty one on its way.
Probe(m, hash, k) ==
    LET at(d) == Wrapped(m, Ideal(m, hash, k) + d)
        ends(d) == ~m.slot[at(d)].full \/ m.slot[at(d)].key = k
    IN  at(Min({d \in 0 .. m.cap - 1 : ends(d)}))

MapHas(m, hash, k) == m.slot[Probe(m, hash, k)].full
MapGet(m, hash, k) == m.slot[Probe(m, hash, k)].val

\* The end of map_put, at the slot the probe found.
Placed(m, hash, k, v) ==
    LET i == Probe(m, hash, k)
    IN  [m EXCEPT !.slot[i] = [full |-> TRUE, key |-> k, val |-> v],
                  !.count = IF m.slot[i].full THEN @ ELSE @ + 1]

\* The entries in the order of their slots (map_iter).
FullSlots(m) == {i \in DOMAIN m.slot : m.slot[i].full}
Entries(m) == Only([i \in 1 .. m.cap |-> m.slot[i - 1]], {m.slot[i] : i \in FullSlots(m)})

Refilled(cap, hash, entries) ==
    LET after[n \in 0 .. Len(entries)] ==
            IF n = 0 THEN EmptyMap(cap)
            ELSE Placed(after[n - 1], hash, entries[n].key, entries[n].val)
    IN  after[Len(entries)]

\* map_grow: a rehash into twice the slots.
Grown(m, hash) == Refilled(2 * m.cap, hash, Entries(m))

\* map_put grows for a new key alone, past a load of three quarters.
NeedsGrowth(m, hash, k) == ~MapHas(m, hash, k) /\ (m.count + 1) * 4 > m.cap * 3
MapPut(m, hash, k, v) ==
    Placed(IF NeedsGrowth(m, hash, k) THEN Grown(m, hash) ELSE m, hash, k, v)

\* Whether the entry at j may fill the gap: the gap lies on its own run.
Bug_Slides(m, hash, gap, j) == Ideal(m, hash, m.slot[j].key) # j
Slides(m, hash, gap, j) ==
    LET ideal == Ideal(m, hash, m.slot[j].key)
    IN  Wrapped(m, gap - ideal) <= Wrapped(m, j - ideal)

\* map_remove: what follows slides back, until a slot that was empty; the last
\* gap is zeroed.
SlideStep(a, hash, j) ==
    IF a.over \/ ~a.m.slot[j].full THEN [a EXCEPT !.over = TRUE]
    ELSE IF Slides(a.m, hash, a.gap, j)
    THEN [a EXCEPT !.m.slot[a.gap] = a.m.slot[j], !.gap = j]
    ELSE a
SlidBack(m, hash, i) ==
    LET slid[d \in 0 .. m.cap - 1] ==
            IF d = 0 THEN [m |-> m, gap |-> i, over |-> FALSE]
            ELSE SlideStep(slid[d - 1], hash, Wrapped(m, i + d))
    IN  slid[m.cap - 1]
MapRemove(m, hash, k) ==
    LET i == Probe(m, hash, k)
        end == SlidBack(m, hash, i)
    IN  IF ~m.slot[i].full THEN m
        ELSE [end.m EXCEPT !.slot[end.gap] = EmptySlot, !.count = @ - 1]

-----------------------------------------------------------------------------
(* A SortedMap: two arrays of a fixed capacity, in the order of the keys.  *)

EmptySorted == [keys |-> <<>>, vals |-> <<>>]

\* sorted_lower_bound over [lo, hi), counted from 0.
LowerBound(ks, k) ==
    LET search[r \in (0 .. Len(ks)) \X (0 .. Len(ks))] ==
            LET mid == r[1] + (r[2] - r[1]) \div 2
            IN  IF r[1] >= r[2] THEN r[1]
                ELSE IF ks[mid + 1] < k THEN search[<<mid + 1, r[2]>>] ELSE search[<<r[1], mid>>]
    IN  search[<<0, Len(ks)>>]

SortedHas(s, k) == LET i == LowerBound(s.keys, k) IN i < Len(s.keys) /\ s.keys[i + 1] = k
SortedGet(s, k) == s.vals[LowerBound(s.keys, k) + 1]

SortedPut(s, k, v) ==
    LET i == LowerBound(s.keys, k) + 1
    IN  IF SortedHas(s, k) THEN [s EXCEPT !.vals[i] = v]
        ELSE [keys |-> InsertAt(s.keys, i, k), vals |-> InsertAt(s.vals, i, v)]

Bug_SortedRemove(s, k) ==
    LET i == LowerBound(s.keys, k) + 1
    IN  IF ~SortedHas(s, k) THEN s
        ELSE [keys |-> RemoveAt(s.keys, i), vals |-> Front(s.vals)]
SortedRemove(s, k) ==
    LET i == LowerBound(s.keys, k) + 1
    IN  IF ~SortedHas(s, k) THEN s
        ELSE [keys |-> RemoveAt(s.keys, i), vals |-> RemoveAt(s.vals, i)]

-----------------------------------------------------------------------------
(* The registry.                                                           *)

CONSTANTS
    Keys,       \* integers
    Vals,       \* bound: of a key: the values put there
    Hashes,     \* bound: the hash functions tried
    SortedCap,  \* capacity of the sorted map
    FirstCap    \* of whether a map may grow: the capacity asked for

ASSUME RegistryAssumption ==
    /\ Keys \subseteq Int
    /\ Hashes \subseteq [Keys -> Nat]
    /\ FirstCap \in [BOOLEAN -> Nat]

VARIABLES
    hash,       \* map_hash
    grows,      \* map_init, or map_init_fixed
    map,
    sorted,
    content,    \* history: the value last put for each key that was not removed
    since,      \* history: the keys of content in the order of their insertion,
                \* but those a rehash has moved, which come first by slot
    overflowed     \* a TL_FATAL: fixed capacity overflow

registry_vars == <<hash, grows, map, sorted, content, since, overflowed>>

RegistryOf(h, g) ==
    /\ hash = h /\ grows = g
    /\ map = EmptyMap(FirstCap[grows]) /\ sorted = EmptySorted
    /\ content = <<>> /\ since = <<>> /\ overflowed = FALSE
RegistryInit == \E h \in Hashes, g \in BOOLEAN : RegistryOf(h, g)

Overflows(k) ==
    \/ NeedsGrowth(map, hash, k) /\ ~grows
    \/ ~SortedHas(sorted, k) /\ Len(sorted.keys) = SortedCap

KeysOf(m) == [n \in DOMAIN Entries(m) |-> Entries(m)[n].key]

PutBoth(k, v) ==
    /\ overflowed' = Overflows(k)
    /\ IF overflowed' THEN UNCHANGED <<map, sorted, content, since>>
       ELSE /\ map' = MapPut(map, hash, k, v)
            /\ sorted' = SortedPut(sorted, k, v)
            /\ content' = [j \in DOMAIN content \cup {k} |-> IF j = k THEN v ELSE content[j]]
            /\ since' = (IF NeedsGrowth(map, hash, k) THEN KeysOf(map) ELSE since)
                        \o (IF k \in DOMAIN content THEN <<>> ELSE <<k>>)
    /\ UNCHANGED <<hash, grows>>

RemoveBoth(k) ==
    /\ map' = MapRemove(map, hash, k)
    /\ sorted' = SortedRemove(sorted, k)
    /\ content' = [j \in DOMAIN content \ {k} |-> content[j]]
    /\ since' = Only(since, Keys \ {k})
    /\ UNCHANGED <<hash, grows, overflowed>>

RegistryNext == ~overflowed /\ \E k \in Keys : RemoveBoth(k) \/ \E v \in Vals[k] : PutBoth(k, v)

RegistrySpec == RegistryInit /\ [][RegistryNext]_registry_vars

-----------------------------------------------------------------------------
\* Either container answers for every key what was last put there.
LookupsAgree ==
    \A k \in Keys :
        /\ MapHas(map, hash, k) = (k \in DOMAIN content)
        /\ SortedHas(sorted, k) = (k \in DOMAIN content)
        /\ k \in DOMAIN content =>
              MapGet(map, hash, k) = content[k] /\ SortedGet(sorted, k) = content[k]

\* "A Map's bytes are a function of its live contents and not of its deletion
\* history" (map.h): the table, dead slots included, is the one that the surviving
\* insertions alone would have made, in their order.
DeletionsLeaveNoTrace ==
    map = Refilled(map.cap, hash, [n \in DOMAIN since |->
                     [key |-> since[n], val |-> content[since[n]]]])

\* "order is a pure function of the key set" (sorted.h).
OrderIsOfTheKeys ==
    /\ ToSet(sorted.keys) = DOMAIN content
    /\ \A i \in 2 .. Len(sorted.keys) : sorted.keys[i - 1] < sorted.keys[i]

-----------------------------------------------------------------------------
(* The radix sort (foundation/sort.cpp): keys and their values sorted      *)
(* digit by digit from the least, between the caller's buffer and a        *)
(* scratch one.  An entry is <<key, val>>; a value is the entry's place in *)
(* the input.                                                              *)

CONSTANTS
    Radix,     \* 256
    PassCount, \* digits of a key
    MaxLen     \* bound: entries to sort

ASSUME SortAssumption ==
    Radix \in Nat \ {0} /\ PassCount \in Nat /\ MaxLen \in Nat

VARIABLES
    input,     \* what the caller gave
    keys, tmp, \* its buffer, and scratch
    src,       \* which of the two holds the entries: "keys" or "tmp"
    pass,
    finished   \* sort_kv has returned

sort_vars == <<input, keys, tmp, src, pass, finished>>

Weight == Powers(Radix, PassCount)
KeyRange == 0 .. Weight[PassCount] - 1
Inputs ==
    UNION {{[i \in 1 .. n |-> <<f[i], i>>] : f \in [1 .. n -> KeyRange]} : n \in 0 .. MaxLen}

SortOf(entries) ==
    /\ input = entries /\ keys = input /\ tmp = [i \in DOMAIN input |-> <<0, 0>>]   \* scratch: not read before it is written
    /\ src = "keys" /\ pass = 0 /\ finished = FALSE
SortInit == \E entries \in Inputs : SortOf(entries)

Digit(e) == (e[1] \div Weight[pass]) % Radix
Bug_Source == IF pass % 2 = 0 THEN keys ELSE tmp
Source == IF src = "keys" THEN keys ELSE tmp

\* radix_pass: where an entry goes is told by the histogram's prefix sums, which each
\* entry of its digit moves on by one.
Target(s, i) ==
    Cardinality({j \in DOMAIN s : Digit(s[j]) < Digit(s[i]) \/ (Digit(s[j]) = Digit(s[i]) /\ j <= i)})
Scattered(s) == [n \in DOMAIN s |-> s[CHOOSE i \in DOMAIN s : Target(s, i) = n]]

\* A pass that would move nothing is left out.
OneBucket(s) == \A i, j \in DOMAIN s : Digit(s[i]) = Digit(s[j])

RadixPass ==
    /\ ~finished /\ Len(input) >= 2 /\ pass < PassCount
    /\ IF OneBucket(Source) THEN UNCHANGED <<keys, tmp, src>>
       ELSE IF src = "keys"
       THEN tmp' = Scattered(keys) /\ src' = "tmp" /\ UNCHANGED keys
       ELSE keys' = Scattered(tmp) /\ src' = "keys" /\ UNCHANGED tmp
    /\ pass' = pass + 1
    /\ UNCHANGED <<input, finished>>

\* Fewer than two entries are sorted; otherwise the result is copied back when it
\* lies in scratch.
CopyBack ==
    /\ ~finished /\ (Len(input) < 2 \/ pass = PassCount)
    /\ keys' = Source
    /\ finished' = TRUE
    /\ UNCHANGED <<input, tmp, src, pass>>

SortNext == RadixPass \/ CopyBack

SortSpec == SortInit /\ [][SortNext]_sort_vars

-----------------------------------------------------------------------------
\* A stable sort, whichever passes were left out: the same entries, by their keys,
\* and by their places in the input where keys are equal.
SortedStably ==
    finished =>
        /\ ToSet(keys) = ToSet(input) /\ Len(keys) = Len(input)
        /\ \A i \in 2 .. Len(keys) :
              \/ keys[i - 1][1] < keys[i][1]
              \/ keys[i - 1][1] = keys[i][1] /\ keys[i - 1][2] < keys[i][2]

RegistryInv == LookupsAgree /\ DeletionsLeaveNoTrace /\ OrderIsOfTheKeys

\* Maps and sorted maps (map.h, sorted.h) answer exactly, the radix sort (sort.cpp) sorts, and a
\* handle of the platform's tables (impl_headless/thread.cpp) names the primitive it was given for.
ContainersInv == RegistryInv /\ SortedStably /\ HandlesInv
=============================================================================

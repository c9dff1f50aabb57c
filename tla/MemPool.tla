------------------------------ MODULE MemPool ------------------------------
(***************************************************************************)
(* The heap given to vendored libraries: foundation/mem_pool.cpp.          *)
(*                                                                         *)
(* The unit is the smallest class, 16 bytes.  Addresses count from the     *)
(* granule boundary below the arena's base, which mmap aligns to a page    *)
(* only.  `blocks` is what the callers hold.                               *)
(***************************************************************************)
EXTENDS Integers, FiniteSets, Sequences, Functions

CONSTANTS
    CarveGranule, \* 64 KB; also the largest class
    Header,       \* HEADER_BYTES
    ClassCount,   \* POOL_CLASS_COUNT
    Base,         \* the arena's base
    HeapReserve,  \* of the arena, whole granules
    Budget,       \* budget_bytes
    Sizes,        \* bound: the sizes asked for
    MaxLive       \* bound: blocks the callers hold

VARIABLES
    used,                    \* the arena's bump offset
    carved_bytes, free_list, \* MemPool; a free list is a sequence of addresses
    carves,                  \* of an address: the CarveHeader there
    live_bytes, peak_bytes, live_count, large_count,   \* MemPoolStats
    blocks,                  \* of an address: the size asked for by its caller
    pool_fatal               \* arena_push went over its reserve

pool_vars ==
    <<used, carved_bytes, free_list, carves, live_bytes, peak_bytes, live_count, large_count,
      blocks, pool_fatal>>

Classes == 0 .. ClassCount - 1
ClassSize(c) == 2 ^ c
ClassFor(size) == CHOOSE c \in Classes : ClassSize(c) >= size /\ \A d \in 0 .. c - 1 : ClassSize(d) < size
IsSmall(size) == size <= CarveGranule

RoundUp(v, align) == ((v + align - 1) \div align) * align
PageOf(q) == (q \div CarveGranule) * CarveGranule

\* A block of the largest class cannot share a granule with its header.
PageBytes(c) == IF ClassSize(c) = CarveGranule THEN 2 * CarveGranule ELSE CarveGranule
Bug_CarveOf(size) == RoundUp(size, CarveGranule)
CarveOf(size) == RoundUp(size + Header, CarveGranule)
BlocksPerPage(c) == (PageBytes(c) - Header) \div ClassSize(c)

\* carve_aligned: where the next carve goes, and whether it is granted.
CarveAt == RoundUp(Base + used, CarveGranule)
CarveEnd(bytes) == CarveAt - Base + bytes
Bug_Granted(bytes) == carved_bytes + bytes <= Budget
Granted(bytes) ==
    /\ carved_bytes + bytes <= Budget
    /\ RoundUp(CarveEnd(bytes), CarveGranule) <= HeapReserve

\* The classes end at a granule, and a block of any other shares one with a header.
ASSUME HeapAssumption ==
    /\ CarveGranule \in Nat /\ Header \in 1 .. CarveGranule - 1 /\ ClassCount \in Nat
    /\ Base \in Nat /\ HeapReserve \in Nat /\ Budget \in Nat /\ Sizes \subseteq Nat
    /\ \A c \in Classes : ClassSize(c) \in 1 .. CarveGranule - Header \cup {CarveGranule}
    /\ \E c \in Classes : ClassSize(c) = CarveGranule

Null == -1

PInit ==
    /\ used = 0 /\ carved_bytes = 0 /\ free_list = [c \in Classes |-> <<>>]
    /\ carves = <<>> /\ blocks = <<>> /\ pool_fatal = FALSE
    /\ live_bytes = 0 /\ peak_bytes = 0 /\ live_count = [c \in Classes |-> 0] /\ large_count = 0

-----------------------------------------------------------------------------
(* The pool is threaded through its calls as a record, for a realloc makes  *)
(* two of them.                                                             *)
Pool ==
    [used |-> used, carved_bytes |-> carved_bytes, free_list |-> free_list, carves |-> carves,
     live_bytes |-> live_bytes, peak_bytes |-> peak_bytes, live_count |-> live_count,
     large_count |-> large_count, fatal |-> pool_fatal]
Becomes(p) ==
    /\ used' = p.used /\ carved_bytes' = p.carved_bytes /\ free_list' = p.free_list
    /\ carves' = p.carves /\ live_bytes' = p.live_bytes /\ peak_bytes' = p.peak_bytes
    /\ live_count' = p.live_count /\ large_count' = p.large_count /\ pool_fatal' = p.fatal

With(f, q, v) == [x \in DOMAIN f \cup {q} |-> IF x = q THEN v ELSE f[x]]
Without(f, q) == [x \in DOMAIN f \ {q} |-> f[x]]
Larger(m, n) == IF m < n THEN n ELSE m

\* stats_on_alloc.
Counted(p, payload) ==
    [p EXCEPT !.live_bytes = @ + payload, !.peak_bytes = Larger(@, p.live_bytes + payload)]

Carved(p, header, bytes) ==
    [p EXCEPT !.used = CarveEnd(bytes), !.carved_bytes = @ + bytes,
              !.carves = With(@, CarveAt, header),
              !.fatal = RoundUp(CarveEnd(bytes), CarveGranule) > HeapReserve]

\* A new page's blocks in address order; the list is empty when a page is carved.
Threaded(p, c) ==
    [Carved(p, [klass |-> c, large |-> FALSE, live |-> 0, size |-> PageBytes(c)], PageBytes(c))
        EXCEPT !.free_list[c] =
            [i \in 1 .. BlocksPerPage(c) |-> CarveAt + Header + (i - 1) * ClassSize(c)]]

Popped(p, c) ==
    LET q == Head(p.free_list[c])
    IN  [pool |-> Counted([p EXCEPT !.free_list[c] = Tail(@), !.carves[PageOf(q)].live = @ + 1,
                                    !.live_count[c] = @ + 1], ClassSize(c)),
         block |-> q]

Refused == [pool |-> Pool, block |-> Null]

\* pool_alloc: the pool after it, and the block it returns.
PoolAlloc(size) ==
    IF size = 0 \/ size > Budget THEN Refused
    ELSE IF ~IsSmall(size)
    THEN IF Granted(CarveOf(size))
         THEN [pool |-> Counted(
                  [Carved(Pool, [klass |-> 0, large |-> TRUE, live |-> 1, size |-> size],
                          CarveOf(size)) EXCEPT !.large_count = @ + 1], size),
               block |-> CarveAt + Header]
         ELSE Refused
    ELSE LET c == ClassFor(size)
         IN  IF free_list[c] # <<>> THEN Popped(Pool, c)
             ELSE IF Granted(PageBytes(c)) THEN Popped(Threaded(Pool, c), c)
             ELSE Refused

Bug_PoolFree(p, q) ==
    LET h == p.carves[PageOf(q)]
    IN  IF h.large
        THEN [p EXCEPT !.carves = Without(@, PageOf(q)), !.carved_bytes = @ - h.size,
                       !.large_count = @ - 1, !.live_bytes = @ - h.size]
        ELSE [p EXCEPT !.carves[PageOf(q)].live = @ - 1, !.live_count[h.klass] = @ - 1,
                       !.free_list[h.klass] = <<q>> \o @, !.live_bytes = @ - ClassSize(h.klass)]

\* pool_free, by the header below the block: a large carve gives its pages and its
\* budget back, but not its addresses; a block goes first on its class's list.
PoolFree(p, q) ==
    LET h == p.carves[PageOf(q)]
    IN  IF h.large
        THEN [p EXCEPT !.carves = Without(@, PageOf(q)), !.carved_bytes = @ - CarveOf(h.size),
                       !.large_count = @ - 1, !.live_bytes = @ - h.size]
        ELSE [p EXCEPT !.carves[PageOf(q)].live = @ - 1, !.live_count[h.klass] = @ - 1,
                       !.free_list[h.klass] = <<q>> \o @, !.live_bytes = @ - ClassSize(h.klass)]

\* pool_realloc keeps the pointer within the same pages of a large carve, and
\* within a class.
KeepsPages(h, size) == h.large /\ ~IsSmall(size) /\ CarveOf(size) = CarveOf(h.size)
Bug_KeepsClass(h, size) == ~h.large /\ IsSmall(size) /\ ClassFor(size) >= h.klass
KeepsClass(h, size) == ~h.large /\ IsSmall(size) /\ ClassFor(size) = h.klass
Retitled(q, size) ==
    LET live == live_bytes - carves[PageOf(q)].size + size
    IN  [Pool EXCEPT !.carves[PageOf(q)].size = size, !.live_bytes = live,
                     !.peak_bytes = Larger(@, live)]

-----------------------------------------------------------------------------
Alloc(size) ==
    /\ Cardinality(DOMAIN blocks) < MaxLive
    /\ LET r == PoolAlloc(size)
       IN  /\ Becomes(r.pool)
           /\ blocks' = IF r.block = Null THEN blocks ELSE With(blocks, r.block, size)

Free(q) == Becomes(PoolFree(Pool, q)) /\ blocks' = Without(blocks, q)

ReallocInPlace(q, size) ==
    LET h == carves[PageOf(q)]
    IN  /\ size # 0
        /\ \/ KeepsPages(h, size) /\ Becomes(Retitled(q, size))
           \/ KeepsClass(h, size) /\ Becomes(Pool)
        /\ blocks' = [blocks EXCEPT ![q] = size]

\* A new block, the bytes, then the old block; a refusal leaves the old one.
ReallocMoves(q, size) ==
    LET h == carves[PageOf(q)]
        r == PoolAlloc(size)
    IN  /\ size # 0 /\ ~KeepsPages(h, size) /\ ~KeepsClass(h, size)
        /\ IF r.block = Null THEN UNCHANGED pool_vars
           ELSE /\ Becomes(PoolFree(r.pool, q))
                /\ blocks' = With(Without(blocks, q), r.block, size)

PNext ==
    /\ ~pool_fatal
    /\ \/ \E size \in Sizes : Alloc(size)
       \/ \E q \in DOMAIN blocks :
             Free(q) \/ \E size \in Sizes : ReallocInPlace(q, size) \/ ReallocMoves(q, size)

PSpec == PInit /\ [][PNext]_pool_vars

-----------------------------------------------------------------------------
Payload(q) ==
    LET h == carves[PageOf(q)] IN IF h.large THEN h.size ELSE ClassSize(h.klass)
FreeBlocks == UNION {{free_list[c][i] : i \in DOMAIN free_list[c]} : c \in Classes}
Carve(page) == IF carves[page].large THEN CarveOf(carves[page].size) ELSE carves[page].size
Extent(q, n) == q .. q + n - 1

\* From any block its header is found, and the block holds what its caller asked
\* for (mem_pool.cpp: "recovers the carve header from any block pointer").
HeaderIsFound ==
    \A q \in DOMAIN blocks \cup FreeBlocks :
        /\ PageOf(q) \in DOMAIN carves
        /\ Extent(q, Payload(q)) \subseteq
              PageOf(q) + Header .. PageOf(q) + Carve(PageOf(q)) - 1
        /\ q \in DOMAIN blocks => q \notin FreeBlocks /\ blocks[q] <= Payload(q)

\* No two blocks share a byte, held or listed, and none lies on a header.
NothingOverlaps ==
    LET Blocks == DOMAIN blocks \cup FreeBlocks
    IN  /\ \A q, r \in Blocks : q # r => Extent(q, Payload(q)) \cap Extent(r, Payload(r)) = {}
        /\ \A q \in Blocks, page \in DOMAIN carves :
              Extent(q, Payload(q)) \cap Extent(page, Header) = {}

\* The budget counts what is carved and not returned, and the statistics what
\* callers hold, through every realloc and every refusal.
BooksBalance ==
    /\ carved_bytes = SumFunction([page \in DOMAIN carves |-> Carve(page)]) /\ carved_bytes <= Budget
    /\ live_bytes = SumFunction([q \in DOMAIN blocks |-> Payload(q)])
    /\ live_bytes <= peak_bytes
    /\ large_count = Cardinality({q \in DOMAIN blocks : carves[PageOf(q)].large})
    /\ \A c \in Classes : live_count[c] =
          Cardinality({q \in DOMAIN blocks :
              ~carves[PageOf(q)].large /\ carves[PageOf(q)].klass = c})
    /\ \A page \in DOMAIN carves :
          carves[page].live = Cardinality({q \in DOMAIN blocks : PageOf(q) = page})

\* "null, never fatal": the arena's own limit is never met (carve_aligned).
NeverFatal == ~pool_fatal

\* The heap, between any two calls.
HeapInv == HeaderIsFound /\ NothingOverlaps /\ BooksBalance /\ NeverFatal
=============================================================================

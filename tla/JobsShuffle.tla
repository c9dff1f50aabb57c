---------------------------- MODULE JobsShuffle -----------------------------
(***************************************************************************)
(* The inline path of parallel_for under shuffle mode (foundation/jobs.cpp)*)
(* down to the items each chunk covers.  A ticket becomes a chunk by cycle-*)
(* walking a balanced 4-round Feistel network.  The source mixes key, round*)
(* and half-word with a 64-bit finaliser (mix64) and asks nothing of it,   *)
(* so here the round function is any function F[round][r].                 *)
(***************************************************************************)
EXTENDS JobsChunks

CONSTANTS Jobs,              \* the (n, grain) pairs
          RoundFunctions(_), \* the round functions tried on a half-word's width
          HalfXor(_, _),         \* of two half-words
          WalkCap            \* 1024, the "this is broken" tripwire

\* 1 << b
Shl[b \in 0 .. 32] == IF b = 0 THEN 1 ELSE 2 * Shl[b - 1]

\* Smallest even b with 2^b >= chunks and b >= 1 before the rounding to even
\* (the cap at 32 is the width of a ticket).
DomainBits(chunks) ==
    LET b == CHOOSE b \in 1 .. 32 : Shl[b] >= chunks /\ \A a \in 1 .. b - 1 : Shl[a] < chunks
    IN IF b % 2 = 1 THEN b + 1 ELSE b
HalfBits(chunks) == DomainBits(chunks) \div 2

\* One round of the network on the halves <<l, r>> of a word, and its 4 rounds.
Bug_Round(lr, f) == <<lr[2], f[lr[2]]>>
Round(lr, f) == <<lr[2], HalfXor(f[lr[2]], lr[1])>>
Feistel(x, half, F) ==
    LET lr == Round(Round(Round(Round(<<x \div Shl[half], x % Shl[half]>>,
                                      F[0]), F[1]), F[2]), F[3])
    IN lr[1] * Shl[half] + lr[2]

NotConverged == -1          \* TL_FATAL

\* Falling back to the identity would silently break bijectivity.
Bug_ShufflePermute(t, chunks, F) ==
    LET y == Feistel(t, HalfBits(chunks), F) IN IF y < chunks THEN y ELSE t

\* The chunk a word leads to in at most `left` more applications of the network.
NetworkWords(half) == 0 .. Shl[2 * half] - 1
Walk(chunks, F) ==
    LET half == HalfBits(chunks)
        walk[left \in 0 .. WalkCap] ==
            [y \in NetworkWords(half) |->
                IF left = 0 THEN NotConverged
                ELSE LET z == Feistel(y, half, F) IN IF z < chunks THEN z ELSE walk[left - 1][z]]
    IN  walk
ShufflePermute(t, chunks, F) == IF chunks <= 1 THEN t ELSE Walk(chunks, F)[WalkCap][t]

-----------------------------------------------------------------------------
ASSUME JobsAssumption ==
    /\ Jobs \subseteq [n : 0 .. U32 - 1, grain : 1 .. U32 - 1]
    /\ \E b \in 1 .. 32 : U32 <= Shl[b]
    /\ WalkCap \in Nat

HalfWords(half) == 0 .. Shl[half] - 1
Halves == {HalfBits(ChunkCount(j.n, j.grain)) : j \in Jobs}

\* Exclusive or is its own inverse; the round functions are masked to a half-word.
ASSUME NetworkAssumption ==
    \A half \in Halves :
        /\ \A a, b \in HalfWords(half) : HalfXor(a, b) \in HalfWords(half) /\ HalfXor(a, HalfXor(a, b)) = b
        /\ RoundFunctions(half) \subseteq [0 .. 3 -> [HalfWords(half) -> HalfWords(half)]]

VARIABLES args,         \* [n, grain]
          rounds,       \* the round functions its key stands for
          next_ticket,  \* the next ticket the loop runs
          covered       \* how often each item has been handed to a chunk

shuffle_vars == <<args, rounds, next_ticket, covered>>
Chunks == ChunkCount(args.n, args.grain)

ShuffleOf(j, F) ==
    /\ args = j /\ rounds = F
    /\ next_ticket = 0
    /\ covered = [i \in 0 .. args.n - 1 |-> 0]
ShuffleInit ==
    \E j \in Jobs : \E F \in RoundFunctions(HalfBits(ChunkCount(j.n, j.grain))) : ShuffleOf(j, F)

SliceOf(c) == ChunkBegin(c, args.grain) .. ChunkEnd(c, args.n, args.grain) - 1
Cover(c) == [i \in DOMAIN covered |-> covered[i] + (IF i \in SliceOf(c) THEN 1 ELSE 0)]
RunOne ==
    /\ next_ticket < Chunks
    /\ LET c == ShufflePermute(next_ticket, Chunks, rounds)
       IN c # NotConverged /\ covered' = Cover(c)
    /\ next_ticket' = next_ticket + 1
    /\ UNCHANGED <<args, rounds>>

ShuffleSpec == ShuffleInit /\ [][RunOne]_shuffle_vars

\* The tickets are permuted, so that no chunk runs twice and none is left out, and the
\* chunks cut [0, n) into disjoint slices that cover it, up to the largest n the width
\* of a u32 can hold.
CoveredOnce ==
    /\ \A i \in DOMAIN covered : covered[i] <= 1
    /\ next_ticket = Chunks => \A i \in DOMAIN covered : covered[i] = 1

\* The cycle walk never reaches its tripwire.
TicketsArrive == next_ticket < Chunks => ShufflePermute(next_ticket, Chunks, rounds) # NotConverged

\* A loop in shuffle mode runs to its end and hands each item to one chunk.
ItemsCoveredOnce == CoveredOnce /\ TicketsArrive
=============================================================================

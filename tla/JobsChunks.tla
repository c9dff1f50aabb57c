----------------------------- MODULE JobsChunks -----------------------------
(***************************************************************************)
(* How a parallel_for splits its items: the pure functions of foundation/  *)
(* jobs.h and of jobs_run_one.  They depend on (n, grain) alone, never on  *)
(* the worker count, which is what makes a job's results independent of    *)
(* who runs them.  Integers have the width the source gives them.          *)
(***************************************************************************)
EXTENDS Integers

CONSTANT U32            \* the number of values of a u32: 2^32
ASSUME WidthAssumption == U32 \in Nat \ {0}
U64 == U32 * U32

\* jobs_chunk_count: the number of chunks of n items cut every `grain`,
\* "computed in 64 bits because (n + grain - 1) overflows u32".  A zero grain
\* is fatal in the code and is not an argument here.
Bug_ChunkCount(n, grain) == ((n + grain - 1) % U32) \div grain
ChunkCount(n, grain) == (((n + grain - 1) % U64) \div grain) % U32

\* jobs_run_one: the half-open slice [ChunkBegin, ChunkEnd) of chunk c.
Bug_ChunkBegin(c, grain) == (c * (grain - 1)) % U32
ChunkBegin(c, grain) == ((c * grain) % U64) % U32
ChunkEnd(c, n, grain) ==
    LET end == (c * grain + grain) % U64 IN IF end < n THEN end ELSE n
=============================================================================

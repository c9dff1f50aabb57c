-------------------------- MODULE JobsPool_proof ---------------------------
(***************************************************************************)
(* Proofs about JobsPool, for every number of workers, levels, jobs and    *)
(* shuffle keys: first its barrier, then what parallel_for is for.         *)
(*                                                                         *)
(* The barrier's inductive invariant is BarrierInv of JobsPool: one lemma  *)
(* per action shows that the action keeps it, part by part; lemmas named   *)
(* *Frame and *Step say what a kind of step leaves alone.                  *)
(*                                                                         *)
(* Every chunk of a call runs exactly once, in whatever order the          *)
(* participants take the tickets, shuffled or not: Progress of JobsPool is *)
(* inductive beside BarrierInv, and IInv is both.  Whoever goes on after a *)
(* call, or into the next, sees what was done in it: SeenInv of            *)
(* JobsVisibility, inductive beside BarrierInv.                            *)
(*                                                                         *)
(* Last the permutation itself (JobsShuffle): a Feistel round is undone by *)
(* the exclusive or that made it, walks of a permutation until they are    *)
(* back among the chunks stay apart, and so tickets run different chunks.  *)
(***************************************************************************)
EXTENDS JobsPool, JobsVisibility, JobsShuffle, FiniteSetTheorems, WellFoundedInduction, TLAPS

USE BoundsAssumption, WidthAssumption
USE DEF Workers, Participants

LEMMA ChunkCountType ==
    ASSUME NEW a \in LevelArgs PROVE ChunkCount(a.count, a.grain) \in Nat
<1>1. U64 \in Nat \ {0} BY DEF U64
<1>2. a.count \in Nat /\ a.grain \in Nat /\ a.grain > 0 BY LevelAssumption
<1>3. (a.count + a.grain - 1) % U64 \in Nat BY <1>1, <1>2
<1>4. ((a.count + a.grain - 1) % U64) \div a.grain \in Nat BY <1>2, <1>3
<1>. QED BY <1>4 DEF ChunkCount

LEMMA JobDescFacts ==
    /\ NoJob \in JobDescs
    /\ NoJob.chunks = 0
    /\ \A d \in JobDescs : d.chunks \in Nat
    /\ \A a \in LevelArgs, key \in Keys \cup {ShuffleOff} :
          LET d == [chunks |-> ChunkCount(a.count, a.grain), key |-> key]
          IN  d \in JobDescs /\ d.chunks = ChunkCount(a.count, a.grain)
<1>. ChunkCounts \subseteq Nat BY ChunkCountType DEF ChunkCounts
<1>. QED BY DEF NoJob, JobDescs, ChunkCounts

LEMMA CountUp ==
    ASSUME NEW S, NEW f \in [S -> Nat], NEW x
    PROVE  [f EXCEPT ![x] = @ + 1] \in [S -> Nat]
<1>. DEFINE g == [f EXCEPT ![x] = @ + 1]
<1>1. \A y \in S : g[y] \in Nat
  <2>. TAKE y \in S
  <2>1. CASE y = x BY <2>1
  <2>2. CASE y # x BY <2>2
  <2>. QED BY <2>1, <2>2
<1>. QED BY <1>1

LEMMA GotoMoves ==
    ASSUME PcOK, NEW p \in Participants, NEW l, Goto(p, l),
           p = 0 => l \in MainPcs, p # 0 => l \in WorkerPcs
    PROVE  /\ PcOK'
           /\ pc'[p] = l
           /\ \A q \in Participants \ {p} : pc'[q] = pc[q]
BY DEF PcOK, Goto

-----------------------------------------------------------------------------
(* What a step that leaves something alone keeps.                          *)

\* Main is where it was, or moves within its own claim loop and await.
MainStays ==
    pc'[0] = pc[0] \/ {pc[0], pc'[0]} \subseteq LoopPcs \cup {"await"}

LEMMA ControlFrame ==
    ASSUME MainStays, UNCHANGED <<k, started>>
    PROVE  /\ Pooled' <=> Pooled
           /\ Stopping' <=> Stopping
           /\ \A w : (Posted(w)' <=> Posted(w)) /\ (Joined(w)' <=> Joined(w))
BY DEF MainStays, Pooled, Stopping, Posted, Joined, JobPcs, LoopPcs, StopPcs, JoinPcs

LEMMA PoolFrame ==
    ASSUME PoolShape, MainStays,
           UNCHANGED <<thread, worker_count, shutdown, in_job, sems, k, started, levels_left,
                       call>>
    PROVE  PoolShape'
<1>. CASE pc'[0] = pc[0]
  BY DEF PoolShape, Stopping
<1>. CASE {pc[0], pc'[0]} \subseteq LoopPcs \cup {"await"}
  BY DEF PoolShape, Stopping, StopPcs, JoinPcs, InitPcs, ShutdownPcs, SetupPcs, JobPcs,
     CallPcs, LoopPcs
<1>. QED BY DEF MainStays

LEMMA EpochFrame ==
    ASSUME EpochOrder, MainStays, UNCHANGED <<started, seen, epoch, levels_left, next_epoch>>
    PROVE  EpochOrder'
BY DEF EpochOrder, MainStays, SetupPcs, JobPcs, LoopPcs

\* A worker no action touched.
LEMMA WorkerFrame ==
    ASSUME NEW w \in Workers, WorkerOK(w), pc'[w] = pc[w], wake'[w] = wake[w],
           seen'[w] = seen[w], UNCHANGED <<epoch, worker_count>>,
           Pooled' <=> Pooled, Stopping' <=> Stopping,
           Posted(w)' <=> Posted(w), Joined(w)' <=> Joined(w)
    PROVE  WorkerOK(w)'
BY DEF WorkerOK, Busy, Quiet

\* Main moves between two places where no worker has anything to do.
LEMMA QuietFrame ==
    ASSUME WorkerShape, Quiet, Quiet', UNCHANGED wake,
           \A w \in Workers : pc'[w] = pc[w] /\ (Joined(w)' <=> Joined(w))
    PROVE  WorkerShape'
BY DEF WorkerShape, WorkerOK, Quiet

LEMMA NothingPending ==
    ASSUME Barrier, ~Pooled
    PROVE  done = 0 /\ \A w \in Workers : pc[w] # "signal"
BY DEF Barrier, Pooled, JobPcs

\* Outside the pooled part, the barrier is a matter of main alone.
LEMMA BarrierAtRest ==
    ASSUME ~Pooled', done' = 0, \A w \in Workers : pc'[w] # "signal",
           pc'[0] = "publish" => pending' = worker_count' + 1,
           pc'[0] = "clear" => InlinePath(worker_count', call'.chunks) \/ pending' = 0,
           pc'[0] \in SetupPcs => ~InlinePath(worker_count', call'.chunks),
           pc'[0] \in {"inline", "inline_run"} => InlinePath(worker_count', call'.chunks)
    PROVE  Barrier'
BY DEF Barrier, Pooled

LEMMA CopiesAtRest ==
    ASSUME PcOK', ~Pooled', pc'[0] \notin {"reset", "arm", "publish"},
           \A w \in Workers : ~Busy(w)'
    PROVE  JobCopies'
BY DEF JobCopies, Pooled, JobPcs, LoopPcs, Busy

\* A step of main from rest to rest leaves the workers' share of the invariant.
LEMMA QuietStep ==
    ASSUME BarrierInv, Quiet, Quiet', PcOK', UNCHANGED <<wake, done>>,
           \A w \in Workers : pc'[w] = pc[w] /\ (Joined(w)' <=> Joined(w)),
           pc'[0] = "publish" => pending' = worker_count' + 1,
           pc'[0] = "clear" => InlinePath(worker_count', call'.chunks) \/ pending' = 0,
           pc'[0] \in SetupPcs => ~InlinePath(worker_count', call'.chunks),
           pc'[0] \in {"inline", "inline_run"} => InlinePath(worker_count', call'.chunks)
    PROVE  /\ WorkerShape' /\ Barrier'
           /\ pc'[0] \notin {"reset", "arm", "publish"} => JobCopies'
<1>1. \A w \in Workers : pc'[w] \in {"none", "park"}
  BY DEF BarrierInv, WorkerShape, WorkerOK
<1>2. WorkerShape'
  BY QuietFrame DEF BarrierInv
<1>3. Barrier'
  BY <1>1, NothingPending, BarrierAtRest DEF BarrierInv, Quiet
<1>4. \A w \in Workers : ~Busy(w)'
  BY <1>1 DEF Busy, LoopPcs
<1>. QED BY <1>2, <1>3, <1>4, CopiesAtRest DEF Quiet

-----------------------------------------------------------------------------
(* jobs_init, and the calling thread outside the pooled part of a job.     *)

LEMMA JobsInitSafe ==
    ASSUME BarrierInv, NEW wc \in 0 .. MaxWorkers, JobsInit(wc)
    PROVE  BarrierInv'
<1>. USE DEF BarrierInv
<1>1. PcOK' /\ pc'[0] = (IF wc = 0 THEN "idle" ELSE "sem_create") /\ \A w \in Workers : pc'[w] =
   pc[w]
BY GotoMoves DEF JobsInit, Zeroed, TypeOK, MainPcs, MainIdle, InitPcs, ShutdownPcs,
     LevelPcs, LoopPcs, WorkerPcs
<1>2. Quiet /\ Quiet'
BY <1>1 DEF JobsInit, Zeroed, Quiet, Pooled, Stopping, JobPcs, LoopPcs, StopPcs, JoinPcs
<1>3. TypeOK'
  <2>0. NoJob \in JobDescs
    BY JobDescFacts
  <2>1. PoolOK'
    <3>1. thread' \in BOOLEAN /\ shuffle_on' \in BOOLEAN
      BY DEF JobsInit, Zeroed
    <3>2. /\ worker_count' \in 0 .. MaxWorkers /\ job' \in JobDescs /\ epoch' \in 0 .. MaxJobs
          /\ next_chunk' \in 0 .. U32 - 1 /\ pending' \in 0 .. MaxWorkers + 1
          /\ shutdown' \in {0, 1} /\ in_job' \in {0, 1}
      BY <2>0 DEF JobsInit, Zeroed
    <3>. QED BY <3>1, <3>2 DEF PoolOK
  <2>2. CallOK'
    BY DEF JobsInit, TypeOK, CallOK, call_vars
  <2>3. SemOK' /\ ClaimOK' /\ (fatal \in BOOLEAN)'
    BY DEF JobsInit, TypeOK, SemOK, ClaimOK, sem_vars, call_vars, claim_vars
  <2>. QED BY <1>1, <2>1, <2>2, <2>3 DEF TypeOK
<1>4. PoolShape'
BY <1>1 DEF JobsInit, Zeroed, PoolShape, InitPcs, ShutdownPcs, Stopping, StopPcs,
     JoinPcs, SemsOf, SetupPcs, JobPcs, CallPcs, LoopPcs, TypeOK, PoolOK, SemOK, CallOK,
     ClaimOK, pool_vars, sem_vars, call_vars, claim_vars
<1>5. EpochOrder'
BY <1>1 DEF JobsInit, Zeroed, EpochOrder, SetupPcs, JobPcs, LoopPcs, TypeOK, PoolOK,
     SemOK, CallOK, ClaimOK, pool_vars, sem_vars, call_vars, claim_vars
<1>6. \A w \in Workers : Joined(w)' <=> Joined(w)
BY <1>1 DEF JobsInit, Zeroed, Joined, JoinPcs, PoolShape, InitPcs, TypeOK, CallOK,
     PoolOK, pool_vars, sem_vars, call_vars, claim_vars
<1>7. WorkerShape' /\ Barrier'
BY <1>1, <1>2, <1>6, QuietStep DEF JobsInit, Zeroed, SetupPcs, InlinePath, Barrier,
     pool_vars, sem_vars, call_vars, claim_vars
<1>8. JobCopies'
BY <1>1, <1>2, <1>6, <1>7, QuietStep DEF JobsInit, Zeroed, SetupPcs, InlinePath,
     Barrier, pool_vars, sem_vars, call_vars, claim_vars
<1>. QED BY <1>3, <1>4, <1>5, <1>7, <1>8

LEMMA SemCreatedSafe ==
    ASSUME BarrierInv, SemCreated
    PROVE  BarrierInv'
<1>. USE DEF BarrierInv
<1>0. k \in 0 .. worker_count /\ worker_count > 0 /\ started = 0 /\ sems = 0 .. k - 1
  BY DEF SemCreated, PoolShape, TypeOK, CallOK, PoolOK
<1>1. PcOK' /\ pc'[0] = (IF k = worker_count THEN "thread_create" ELSE "sem_create")
      /\ \A w \in Workers : pc'[w] = pc[w]
  <2>1. CASE k = worker_count
    BY <2>1, GotoMoves DEF SemCreated, TypeOK, MainPcs, InitPcs
  <2>2. CASE k # worker_count
    BY <2>2 DEF SemCreated, TypeOK, PcOK
  <2>. QED BY <2>1, <2>2
<1>2. Quiet /\ Quiet'
BY <1>1 DEF SemCreated, Quiet, Pooled, Stopping, JobPcs, LoopPcs, StopPcs, JoinPcs
<1>3. TypeOK'
  <2>1. SemOK'
    BY <1>0 DEF SemCreated, TypeOK, PoolOK, SemOK
  <2>2. CallOK'
    BY <1>0 DEF SemCreated, TypeOK, PoolOK, CallOK, call_vars
  <2>3. PoolOK' /\ ClaimOK' /\ (fatal \in BOOLEAN)'
    BY DEF SemCreated, TypeOK, PoolOK, ClaimOK, pool_vars, call_vars, claim_vars
  <2>. QED BY <1>1, <2>1, <2>2, <2>3 DEF TypeOK
<1>4. PoolShape'
  <2>1. sems' = 0 .. k
    BY <1>0 DEF SemCreated
  <2>2. thread /\ shutdown = 0 /\ in_job # 1
    BY DEF SemCreated, PoolShape, InitPcs, Stopping, StopPcs, JoinPcs, CallPcs, SetupPcs, JobPcs,
       LoopPcs
  <2>3. CASE k = worker_count
    BY <1>0, <1>1, <2>1, <2>2, <2>3 DEF SemCreated, PoolShape, InitPcs, Stopping, StopPcs, JoinPcs,
       CallPcs, SetupPcs, JobPcs, LoopPcs, SemsOf, pool_vars, TypeOK, PoolOK
  <2>4. CASE k # worker_count
    BY <1>0, <1>1, <2>1, <2>2, <2>4 DEF SemCreated, PoolShape, InitPcs, Stopping, StopPcs, JoinPcs,
       CallPcs, SetupPcs, JobPcs, LoopPcs, pool_vars, TypeOK, PoolOK
  <2>. QED BY <2>3, <2>4
<1>5. EpochOrder'
BY <1>1 DEF SemCreated, EpochOrder, SetupPcs, JobPcs, LoopPcs, TypeOK, PoolOK, SemOK,
     CallOK, ClaimOK, pool_vars, sem_vars, call_vars, claim_vars
<1>6. \A w \in Workers : Joined(w)' <=> Joined(w)
BY <1>1 DEF SemCreated, Joined, JoinPcs, PoolShape, InitPcs, TypeOK, CallOK, PoolOK,
     pool_vars, sem_vars, call_vars, claim_vars
<1>9. wake' = wake /\ done' = done
  BY <1>0, <1>2, NothingPending DEF SemCreated, WorkerShape, WorkerOK, Quiet, TypeOK, SemOK, PoolOK
<1>7. WorkerShape' /\ Barrier'
  BY <1>1, <1>2, <1>6, <1>9, QuietStep DEF SemCreated, SetupPcs
<1>8. JobCopies'
  BY <1>1, <1>2, <1>6, <1>9, QuietStep DEF SemCreated, SetupPcs
<1>. QED BY <1>3, <1>4, <1>5, <1>7, <1>8

LEMMA SemRefusedSafe ==
    ASSUME BarrierInv, SemRefused
    PROVE  BarrierInv'
<1>. USE DEF BarrierInv
<1>1. PcOK' /\ pc'[0] = "idle" /\ \A w \in Workers : pc'[w] = pc[w]
BY GotoMoves DEF SemRefused, Zeroed, TypeOK, MainPcs, MainIdle, InitPcs, ShutdownPcs,
     LevelPcs, LoopPcs, WorkerPcs
<1>2. Quiet /\ Quiet'
BY <1>1 DEF SemRefused, Zeroed, Quiet, Pooled, Stopping, JobPcs, LoopPcs, StopPcs,
     JoinPcs
<1>3. TypeOK'
  <2>0. NoJob \in JobDescs
    BY JobDescFacts
  <2>1. PoolOK'
    <3>1. thread' \in BOOLEAN /\ shuffle_on' \in BOOLEAN
      BY DEF SemRefused, Zeroed
    <3>2. /\ worker_count' \in 0 .. MaxWorkers /\ job' \in JobDescs /\ epoch' \in 0 .. MaxJobs
          /\ next_chunk' \in 0 .. U32 - 1 /\ pending' \in 0 .. MaxWorkers + 1
          /\ shutdown' \in {0, 1} /\ in_job' \in {0, 1}
      BY <2>0 DEF SemRefused, Zeroed
    <3>. QED BY <3>1, <3>2 DEF PoolOK
  <2>2. SemOK' /\ CallOK' /\ ClaimOK' /\ (fatal \in BOOLEAN)'
    BY DEF SemRefused, TypeOK, SemOK, CallOK, ClaimOK, call_vars, claim_vars
  <2>. QED BY <1>1, <2>1, <2>2 DEF TypeOK
<1>4. PoolShape'
BY <1>1 DEF SemRefused, Zeroed, PoolShape, InitPcs, ShutdownPcs, Stopping, StopPcs,
     JoinPcs, SemsOf, SetupPcs, JobPcs, CallPcs, LoopPcs, TypeOK, PoolOK, SemOK, CallOK,
     ClaimOK, pool_vars, sem_vars, call_vars, claim_vars
<1>5. EpochOrder'
  BY <1>1 DEF SemRefused, Zeroed, EpochOrder, PoolShape, SetupPcs, JobPcs, LoopPcs
<1>6. \A w \in Workers : Joined(w)' <=> Joined(w)
BY <1>1 DEF SemRefused, Zeroed, Joined, JoinPcs, PoolShape, InitPcs, TypeOK, CallOK,
     PoolOK, pool_vars, sem_vars, call_vars, claim_vars
<1>7. WorkerShape' /\ Barrier'
BY <1>1, <1>2, <1>6, QuietStep DEF SemRefused, Zeroed, SetupPcs, InlinePath, Barrier,
     pool_vars, sem_vars, call_vars, claim_vars
<1>8. JobCopies'
BY <1>1, <1>2, <1>6, <1>7, QuietStep DEF SemRefused, Zeroed, SetupPcs, InlinePath,
     Barrier, pool_vars, sem_vars, call_vars, claim_vars
<1>. QED BY <1>3, <1>4, <1>5, <1>7, <1>8

LEMMA ShuffleSetSafe ==
    ASSUME BarrierInv, ShuffleSet
    PROVE  BarrierInv'
<1>. USE DEF BarrierInv
<1>1. PcOK' /\ \A p \in Participants : pc'[p] = pc[p]
BY DEF ShuffleSet, TypeOK, PcOK
<1>2. Quiet /\ Quiet'
BY <1>1 DEF ShuffleSet, pool_vars, sem_vars, call_vars, claim_vars, Quiet, Pooled,
     Stopping, JobPcs, LoopPcs, StopPcs, JoinPcs
<1>3. TypeOK'
BY <1>1 DEF ShuffleSet, TypeOK, PoolOK, SemOK, CallOK, ClaimOK, pool_vars, sem_vars,
     call_vars, claim_vars
<1>4. PoolShape'
BY <1>1 DEF ShuffleSet, PoolShape, InitPcs, ShutdownPcs, Stopping, StopPcs, JoinPcs,
     SemsOf, SetupPcs, JobPcs, CallPcs, LoopPcs, TypeOK, PoolOK, SemOK, CallOK, ClaimOK,
     pool_vars, sem_vars, call_vars, claim_vars
<1>5. EpochOrder'
BY <1>1 DEF ShuffleSet, EpochOrder, SetupPcs, JobPcs, LoopPcs, TypeOK, PoolOK, SemOK,
     CallOK, ClaimOK, pool_vars, sem_vars, call_vars, claim_vars
<1>6. \A w \in Workers : Joined(w)' <=> Joined(w)
BY <1>1 DEF ShuffleSet, Joined, JoinPcs, PoolShape, InitPcs, TypeOK, CallOK, PoolOK,
     pool_vars, sem_vars, call_vars, claim_vars
<1>7. WorkerShape' /\ Barrier'
BY <1>1, <1>2, <1>6, QuietStep DEF ShuffleSet, SetupPcs, InlinePath, Barrier, pool_vars,
     sem_vars, call_vars, claim_vars
<1>8. JobCopies'
BY <1>1, <1>2, <1>6, <1>7, QuietStep DEF ShuffleSet, SetupPcs, InlinePath, Barrier,
     pool_vars, sem_vars, call_vars, claim_vars
<1>. QED BY <1>3, <1>4, <1>5, <1>7, <1>8

LEMMA ParallelLevelsSafe ==
    ASSUME BarrierInv, NEW m \in 1 .. MaxLevels, ParallelLevels(m)
    PROVE  BarrierInv'
<1>. USE DEF BarrierInv
<1>1. PcOK' /\ pc'[0] = "level" /\ \A w \in Workers : pc'[w] = pc[w]
BY GotoMoves DEF ParallelLevels, TypeOK, MainPcs, MainIdle, InitPcs, ShutdownPcs,
     LevelPcs, LoopPcs, WorkerPcs
<1>2. Quiet /\ Quiet'
BY <1>1 DEF ParallelLevels, Quiet, Pooled, Stopping, JobPcs, LoopPcs, StopPcs, JoinPcs
<1>3. TypeOK'
BY <1>1 DEF ParallelLevels, TypeOK, PoolOK, SemOK, CallOK, ClaimOK, pool_vars, sem_vars,
     call_vars, claim_vars
<1>4. PoolShape'
BY <1>1 DEF ParallelLevels, PoolShape, InitPcs, ShutdownPcs, Stopping, StopPcs, JoinPcs,
     SemsOf, SetupPcs, JobPcs, CallPcs, LoopPcs, TypeOK, PoolOK, SemOK, CallOK, ClaimOK,
     pool_vars, sem_vars, call_vars, claim_vars
<1>5. EpochOrder'
BY <1>1 DEF ParallelLevels, EpochOrder, SetupPcs, JobPcs, LoopPcs, TypeOK, PoolOK,
     SemOK, CallOK, ClaimOK, pool_vars, sem_vars, call_vars, claim_vars
<1>6. \A w \in Workers : Joined(w)' <=> Joined(w)
BY <1>1 DEF ParallelLevels, Joined, JoinPcs, PoolShape, InitPcs, TypeOK, CallOK, PoolOK,
     pool_vars, sem_vars, call_vars, claim_vars
<1>7. WorkerShape' /\ Barrier'
BY <1>1, <1>2, <1>6, QuietStep DEF ParallelLevels, SetupPcs, InlinePath, Barrier,
     pool_vars, sem_vars, call_vars, claim_vars
<1>8. JobCopies'
BY <1>1, <1>2, <1>6, <1>7, QuietStep DEF ParallelLevels, SetupPcs, InlinePath, Barrier,
     pool_vars, sem_vars, call_vars, claim_vars
<1>. QED BY <1>3, <1>4, <1>5, <1>7, <1>8

LEMMA EmptyLevelSafe ==
    ASSUME BarrierInv, NEW a \in LevelArgs, EmptyLevel(a)
    PROVE  BarrierInv'
<1>. USE DEF BarrierInv
<1>1. PcOK' /\ \A p \in Participants : pc'[p] = pc[p]
BY DEF EmptyLevel, TypeOK, PcOK
<1>2. Quiet /\ Quiet'
BY <1>1 DEF EmptyLevel, pool_vars, sem_vars, call_vars, claim_vars, Quiet, Pooled,
     Stopping, JobPcs, LoopPcs, StopPcs, JoinPcs
<1>3. TypeOK'
BY <1>1 DEF EmptyLevel, TypeOK, PoolOK, SemOK, CallOK, ClaimOK, pool_vars, sem_vars,
     call_vars, claim_vars
<1>4. PoolShape'
BY <1>1 DEF EmptyLevel, PoolShape, InitPcs, ShutdownPcs, Stopping, StopPcs, JoinPcs,
     SemsOf, SetupPcs, JobPcs, CallPcs, LoopPcs, TypeOK, PoolOK, SemOK, CallOK, ClaimOK,
     pool_vars, sem_vars, call_vars, claim_vars
<1>5. EpochOrder'
BY <1>1 DEF EmptyLevel, EpochOrder, SetupPcs, JobPcs, LoopPcs, TypeOK, PoolOK, SemOK,
     CallOK, ClaimOK, pool_vars, sem_vars, call_vars, claim_vars
<1>6. \A w \in Workers : Joined(w)' <=> Joined(w)
BY <1>1 DEF EmptyLevel, Joined, JoinPcs, PoolShape, InitPcs, TypeOK, CallOK, PoolOK,
     pool_vars, sem_vars, call_vars, claim_vars
<1>7. WorkerShape' /\ Barrier'
BY <1>1, <1>2, <1>6, QuietStep DEF EmptyLevel, SetupPcs, InlinePath, Barrier, pool_vars,
     sem_vars, call_vars, claim_vars
<1>8. JobCopies'
BY <1>1, <1>2, <1>6, <1>7, QuietStep DEF EmptyLevel, SetupPcs, InlinePath, Barrier,
     pool_vars, sem_vars, call_vars, claim_vars
<1>. QED BY <1>3, <1>4, <1>5, <1>7, <1>8

LEMMA EnterJobSafe ==
    ASSUME BarrierInv, NEW a \in LevelArgs, NEW key \in Keys \cup {ShuffleOff}, EnterJob(a, key)
    PROVE  BarrierInv'
<1>. USE DEF BarrierInv
<1>1. PcOK' /\ pc'[0] = (IF InlinePath(worker_count, ChunkCount(a.count, a.grain)) THEN "inline"
   ELSE "write") /\ \A w \in Workers : pc'[w] = pc[w]
BY GotoMoves DEF EnterJob, TypeOK, MainPcs, MainIdle, InitPcs, ShutdownPcs, LevelPcs,
     LoopPcs, WorkerPcs
<1>2. Quiet /\ Quiet'
BY <1>1 DEF EnterJob, Quiet, Pooled, Stopping, JobPcs, LoopPcs, StopPcs, JoinPcs
<1>0. /\ call' \in JobDescs /\ call'.chunks = ChunkCount(a.count, a.grain)
      /\ call'.chunks \in Nat /\ call'.chunks > 0
  BY JobDescFacts DEF EnterJob
<1>9. epoch + levels_left <= MaxJobs /\ levels_left > 0 /\ next_epoch' = epoch + 1
  <2>1. epoch + levels_left <= MaxJobs /\ levels_left > 0
    BY DEF EnterJob, EpochOrder
  <2>2. epoch \in Nat /\ levels_left \in Nat
    BY DEF TypeOK, PoolOK, CallOK
  <2>3. epoch + 1 \in 0 .. EpochMod - 1
    BY <2>1, <2>2
  <2>. QED BY <2>1, <2>3 DEF EnterJob, NextEpoch
<1>3. TypeOK'
  <2>1. PoolOK' /\ SemOK' /\ (fatal \in BOOLEAN)'
    BY DEF EnterJob, TypeOK, PoolOK, SemOK, sem_vars
  <2>2. CallOK'
    BY <1>0, <1>9 DEF EnterJob, TypeOK, PoolOK, CallOK
  <2>3. ClaimOK'
    BY <1>0 DEF EnterJob, TypeOK, ClaimOK
  <2>. QED BY <1>1, <2>1, <2>2, <2>3 DEF TypeOK
<1>4. PoolShape'
  BY <1>0, <1>1, <1>9 DEF EnterJob, InlinePath, PoolShape, InitPcs, ShutdownPcs, Stopping, StopPcs,
     JoinPcs, SetupPcs, JobPcs, CallPcs, LoopPcs, TypeOK, PoolOK, sem_vars
<1>5. EpochOrder'
  BY <1>1, <1>9 DEF EnterJob, EpochOrder, SetupPcs, JobPcs, LoopPcs
<1>6. \A w \in Workers : Joined(w)' <=> Joined(w)
BY <1>1 DEF EnterJob, Joined, JoinPcs, PoolShape, InitPcs, TypeOK, CallOK, PoolOK,
     pool_vars, sem_vars, call_vars, claim_vars
<1>7. WorkerShape' /\ Barrier'
  BY <1>0, <1>1, <1>2, <1>6, QuietStep DEF EnterJob, SetupPcs, sem_vars
<1>8. JobCopies'
  BY <1>0, <1>1, <1>2, <1>6, QuietStep DEF EnterJob, SetupPcs, sem_vars
<1>. QED BY <1>3, <1>4, <1>5, <1>7, <1>8

LEMMA LevelsDoneSafe ==
    ASSUME BarrierInv, LevelsDone
    PROVE  BarrierInv'
<1>. USE DEF BarrierInv
<1>1. PcOK' /\ pc'[0] = "idle" /\ \A w \in Workers : pc'[w] = pc[w]
BY GotoMoves DEF LevelsDone, TypeOK, MainPcs, MainIdle, InitPcs, ShutdownPcs, LevelPcs,
     LoopPcs, WorkerPcs
<1>2. Quiet /\ Quiet'
BY <1>1 DEF LevelsDone, Quiet, Pooled, Stopping, JobPcs, LoopPcs, StopPcs, JoinPcs
<1>3. TypeOK'
BY <1>1 DEF LevelsDone, TypeOK, PoolOK, SemOK, CallOK, ClaimOK, pool_vars, sem_vars,
     call_vars, claim_vars
<1>4. PoolShape'
BY <1>1 DEF LevelsDone, PoolShape, InitPcs, ShutdownPcs, Stopping, StopPcs, JoinPcs,
     SemsOf, SetupPcs, JobPcs, CallPcs, LoopPcs, TypeOK, PoolOK, SemOK, CallOK, ClaimOK,
     pool_vars, sem_vars, call_vars, claim_vars
<1>5. EpochOrder'
BY <1>1 DEF LevelsDone, EpochOrder, SetupPcs, JobPcs, LoopPcs, TypeOK, PoolOK, SemOK,
     CallOK, ClaimOK, pool_vars, sem_vars, call_vars, claim_vars
<1>6. \A w \in Workers : Joined(w)' <=> Joined(w)
BY <1>1 DEF LevelsDone, Joined, JoinPcs, PoolShape, InitPcs, TypeOK, CallOK, PoolOK,
     pool_vars, sem_vars, call_vars, claim_vars
<1>7. WorkerShape' /\ Barrier'
BY <1>1, <1>2, <1>6, QuietStep DEF LevelsDone, SetupPcs, InlinePath, Barrier, pool_vars,
     sem_vars, call_vars, claim_vars
<1>8. JobCopies'
BY <1>1, <1>2, <1>6, <1>7, QuietStep DEF LevelsDone, SetupPcs, InlinePath, Barrier,
     pool_vars, sem_vars, call_vars, claim_vars
<1>. QED BY <1>3, <1>4, <1>5, <1>7, <1>8

LEMMA InlineStartSafe ==
    ASSUME BarrierInv, InlineStart
    PROVE  BarrierInv'
<1>. USE DEF BarrierInv
<1>1. PcOK' /\ pc'[0] = "inline_run" /\ \A w \in Workers : pc'[w] = pc[w]
BY GotoMoves DEF InlineStart, TypeOK, MainPcs, MainIdle, InitPcs, ShutdownPcs, LevelPcs,
     LoopPcs, WorkerPcs
<1>2. Quiet /\ Quiet'
BY <1>1 DEF InlineStart, Quiet, Pooled, Stopping, JobPcs, LoopPcs, StopPcs, JoinPcs
<1>3. TypeOK'
BY <1>1 DEF InlineStart, TypeOK, PoolOK, SemOK, CallOK, ClaimOK, pool_vars, sem_vars,
     call_vars, claim_vars
<1>4. PoolShape'
BY <1>1 DEF InlineStart, PoolShape, InitPcs, ShutdownPcs, Stopping, StopPcs, JoinPcs,
     SemsOf, SetupPcs, JobPcs, CallPcs, LoopPcs, TypeOK, PoolOK, SemOK, CallOK, ClaimOK,
     pool_vars, sem_vars, call_vars, claim_vars
<1>5. EpochOrder'
BY <1>1 DEF InlineStart, EpochOrder, SetupPcs, JobPcs, LoopPcs, TypeOK, PoolOK, SemOK,
     CallOK, ClaimOK, pool_vars, sem_vars, call_vars, claim_vars
<1>6. \A w \in Workers : Joined(w)' <=> Joined(w)
BY <1>1 DEF InlineStart, Joined, JoinPcs, PoolShape, InitPcs, TypeOK, CallOK, PoolOK,
     pool_vars, sem_vars, call_vars, claim_vars
<1>7. WorkerShape' /\ Barrier'
BY <1>1, <1>2, <1>6, QuietStep DEF InlineStart, SetupPcs, InlinePath, Barrier,
     pool_vars, sem_vars, call_vars, claim_vars
<1>8. JobCopies'
BY <1>1, <1>2, <1>6, <1>7, QuietStep DEF InlineStart, SetupPcs, InlinePath, Barrier,
     pool_vars, sem_vars, call_vars, claim_vars
<1>. QED BY <1>3, <1>4, <1>5, <1>7, <1>8

LEMMA InlineRunSafe ==
    ASSUME BarrierInv, InlineRun
    PROVE  BarrierInv'
<1>. USE DEF BarrierInv
<1>1. PcOK' /\ pc'[0] = (IF ticket[0] + 1 < call.chunks THEN "inline_run" ELSE "clear") /\ \A w
   \in Workers : pc'[w] = pc[w]
BY GotoMoves DEF InlineRun, TypeOK, MainPcs, MainIdle, InitPcs, ShutdownPcs, LevelPcs,
     LoopPcs, WorkerPcs
<1>2. Quiet /\ Quiet'
BY <1>1 DEF InlineRun, Quiet, Pooled, Stopping, JobPcs, LoopPcs, StopPcs, JoinPcs
<1>3. TypeOK'
  <2>1. ClaimOK'
    <3>1. ticket' \in [Participants -> Nat]
      BY DEF InlineRun, TypeOK, ClaimOK
    <3>2. runs' \in [0 .. call.chunks - 1 -> Nat]
      BY CountUp DEF InlineRun, RunTicket, TypeOK, ClaimOK
    <3>. QED BY <3>1, <3>2 DEF InlineRun, TypeOK, ClaimOK, call_vars
  <2>2. PoolOK' /\ SemOK' /\ CallOK' /\ (fatal \in BOOLEAN)'
    BY DEF InlineRun, TypeOK, PoolOK, SemOK, CallOK, pool_vars, sem_vars, call_vars
  <2>. QED BY <1>1, <2>1, <2>2 DEF TypeOK
<1>4. PoolShape'
BY <1>1 DEF InlineRun, RunTicket, PoolShape, InitPcs, ShutdownPcs, Stopping, StopPcs,
     JoinPcs, SemsOf, SetupPcs, JobPcs, CallPcs, LoopPcs, TypeOK, PoolOK, SemOK, CallOK,
     ClaimOK, pool_vars, sem_vars, call_vars, claim_vars
<1>5. EpochOrder'
BY <1>1 DEF InlineRun, RunTicket, EpochOrder, SetupPcs, JobPcs, LoopPcs, TypeOK, PoolOK,
     SemOK, CallOK, ClaimOK, pool_vars, sem_vars, call_vars, claim_vars
<1>6. \A w \in Workers : Joined(w)' <=> Joined(w)
BY <1>1 DEF InlineRun, Joined, JoinPcs, PoolShape, InitPcs, TypeOK, CallOK, PoolOK,
     pool_vars, sem_vars, call_vars, claim_vars
<1>7. WorkerShape' /\ Barrier'
  <2>1. InlinePath(worker_count', call'.chunks)
    BY DEF InlineRun, Barrier, pool_vars, call_vars
  <2>. QED BY <1>1, <1>2, <1>6, <2>1, QuietStep DEF InlineRun, SetupPcs, sem_vars
<1>8. JobCopies'
  <2>1. InlinePath(worker_count', call'.chunks)
    BY DEF InlineRun, Barrier, pool_vars, call_vars
  <2>. QED BY <1>1, <1>2, <1>6, <2>1, QuietStep DEF InlineRun, SetupPcs, sem_vars
<1>. QED BY <1>3, <1>4, <1>5, <1>7, <1>8

LEMMA WriteJobSafe ==
    ASSUME BarrierInv, WriteJob
    PROVE  BarrierInv'
<1>. USE DEF BarrierInv
<1>1. PcOK' /\ pc'[0] = "reset" /\ \A w \in Workers : pc'[w] = pc[w]
BY GotoMoves DEF WriteJob, TypeOK, MainPcs, MainIdle, InitPcs, ShutdownPcs, LevelPcs,
     LoopPcs, WorkerPcs
<1>2. Quiet /\ Quiet'
BY <1>1 DEF WriteJob, Quiet, Pooled, Stopping, JobPcs, LoopPcs, StopPcs, JoinPcs
<1>3. TypeOK'
BY <1>1 DEF WriteJob, TypeOK, PoolOK, SemOK, CallOK, ClaimOK, pool_vars, sem_vars,
     call_vars, claim_vars
<1>4. PoolShape'
BY <1>1 DEF WriteJob, PoolShape, InitPcs, ShutdownPcs, Stopping, StopPcs, JoinPcs,
     SemsOf, SetupPcs, JobPcs, CallPcs, LoopPcs, TypeOK, PoolOK, SemOK, CallOK, ClaimOK,
     pool_vars, sem_vars, call_vars, claim_vars
<1>5. EpochOrder'
BY <1>1 DEF WriteJob, EpochOrder, SetupPcs, JobPcs, LoopPcs, TypeOK, PoolOK, SemOK,
     CallOK, ClaimOK, pool_vars, sem_vars, call_vars, claim_vars
<1>6. \A w \in Workers : Joined(w)' <=> Joined(w)
BY <1>1 DEF WriteJob, Joined, JoinPcs, PoolShape, InitPcs, TypeOK, CallOK, PoolOK,
     pool_vars, sem_vars, call_vars, claim_vars
<1>7. WorkerShape' /\ Barrier'
BY <1>1, <1>2, <1>6, QuietStep DEF WriteJob, SetupPcs, InlinePath, Barrier, pool_vars,
     sem_vars, call_vars, claim_vars
<1>8. JobCopies'
BY <1>1, <1>2 DEF WriteJob, JobCopies, JobPcs, LoopPcs, Quiet, WorkerShape, WorkerOK,
  
       pool_vars, sem_vars, call_vars, claim_vars
<1>. QED BY <1>3, <1>4, <1>5, <1>7, <1>8

LEMMA ResetTicketsSafe ==
    ASSUME BarrierInv, ResetTickets
    PROVE  BarrierInv'
<1>. USE DEF BarrierInv
<1>1. PcOK' /\ pc'[0] = "arm" /\ \A w \in Workers : pc'[w] = pc[w]
BY GotoMoves DEF ResetTickets, TypeOK, MainPcs, MainIdle, InitPcs, ShutdownPcs,
     LevelPcs, LoopPcs, WorkerPcs
<1>2. Quiet /\ Quiet'
BY <1>1 DEF ResetTickets, Quiet, Pooled, Stopping, JobPcs, LoopPcs, StopPcs, JoinPcs
<1>3. TypeOK'
BY <1>1 DEF ResetTickets, TypeOK, PoolOK, SemOK, CallOK, ClaimOK, pool_vars, sem_vars,
     call_vars, claim_vars
<1>4. PoolShape'
BY <1>1 DEF ResetTickets, PoolShape, InitPcs, ShutdownPcs, Stopping, StopPcs, JoinPcs,
     SemsOf, SetupPcs, JobPcs, CallPcs, LoopPcs, TypeOK, PoolOK, SemOK, CallOK, ClaimOK,
     pool_vars, sem_vars, call_vars, claim_vars
<1>5. EpochOrder'
BY <1>1 DEF ResetTickets, EpochOrder, SetupPcs, JobPcs, LoopPcs, TypeOK, PoolOK, SemOK,
     CallOK, ClaimOK, pool_vars, sem_vars, call_vars, claim_vars
<1>6. \A w \in Workers : Joined(w)' <=> Joined(w)
BY <1>1 DEF ResetTickets, Joined, JoinPcs, PoolShape, InitPcs, TypeOK, CallOK, PoolOK,
     pool_vars, sem_vars, call_vars, claim_vars
<1>7. WorkerShape' /\ Barrier'
BY <1>1, <1>2, <1>6, QuietStep DEF ResetTickets, SetupPcs, InlinePath, Barrier,
     pool_vars, sem_vars, call_vars, claim_vars
<1>8. JobCopies'
BY <1>1, <1>2 DEF ResetTickets, JobCopies, JobPcs, LoopPcs, Quiet, WorkerShape,
    
     WorkerOK, pool_vars, sem_vars, call_vars, claim_vars
<1>. QED BY <1>3, <1>4, <1>5, <1>7, <1>8

LEMMA ArmBarrierSafe ==
    ASSUME BarrierInv, ArmBarrier
    PROVE  BarrierInv'
<1>. USE DEF BarrierInv
<1>1. PcOK' /\ pc'[0] = "publish" /\ \A w \in Workers : pc'[w] = pc[w]
BY GotoMoves DEF ArmBarrier, TypeOK, MainPcs, MainIdle, InitPcs, ShutdownPcs, LevelPcs,
     LoopPcs, WorkerPcs
<1>2. Quiet /\ Quiet'
BY <1>1 DEF ArmBarrier, Quiet, Pooled, Stopping, JobPcs, LoopPcs, StopPcs, JoinPcs
<1>3. TypeOK'
BY <1>1 DEF ArmBarrier, BarrierCount, TypeOK, PoolOK, SemOK, CallOK, ClaimOK, pool_vars,
     sem_vars, call_vars, claim_vars
<1>4. PoolShape'
BY <1>1 DEF ArmBarrier, BarrierCount, PoolShape, InitPcs, ShutdownPcs, Stopping,
     StopPcs, JoinPcs, SemsOf, SetupPcs, JobPcs, CallPcs, LoopPcs, TypeOK, PoolOK,
     SemOK, CallOK, ClaimOK, pool_vars, sem_vars, call_vars, claim_vars
<1>5. EpochOrder'
BY <1>1 DEF ArmBarrier, BarrierCount, EpochOrder, SetupPcs, JobPcs, LoopPcs, TypeOK,
     PoolOK, SemOK, CallOK, ClaimOK, pool_vars, sem_vars, call_vars, claim_vars
<1>6. \A w \in Workers : Joined(w)' <=> Joined(w)
BY <1>1 DEF ArmBarrier, Joined, JoinPcs, PoolShape, InitPcs, TypeOK, CallOK, PoolOK,
     pool_vars, sem_vars, call_vars, claim_vars
<1>7. WorkerShape' /\ Barrier'
BY <1>1, <1>2, <1>6, QuietStep DEF ArmBarrier, BarrierCount, SetupPcs, InlinePath,
     Barrier, pool_vars, sem_vars, call_vars, claim_vars
<1>8. JobCopies'
BY <1>1, <1>2 DEF ArmBarrier, JobCopies, JobPcs, LoopPcs, Quiet, WorkerShape, WorkerOK,

         pool_vars, sem_vars, call_vars, claim_vars
<1>. QED BY <1>3, <1>4, <1>5, <1>7, <1>8

LEMMA ReturnSafe ==
    ASSUME BarrierInv, Return
    PROVE  BarrierInv'
<1>. USE DEF BarrierInv
<1>1. PcOK' /\ pc'[0] = "level" /\ \A w \in Workers : pc'[w] = pc[w]
BY GotoMoves DEF Return, TypeOK, MainPcs, MainIdle, InitPcs, ShutdownPcs, LevelPcs,
     LoopPcs, WorkerPcs
<1>2. Quiet /\ Quiet'
BY <1>1 DEF Return, Quiet, Pooled, Stopping, JobPcs, LoopPcs, StopPcs, JoinPcs
<1>3. TypeOK'
  <2>1. levels_left > 0
    BY DEF Return, PoolShape, CallPcs
  <2>2. CallOK'
    BY <2>1 DEF Return, TypeOK, CallOK
  <2>3. PoolOK' /\ SemOK' /\ ClaimOK' /\ (fatal \in BOOLEAN)'
    BY DEF Return, TypeOK, PoolOK, SemOK, ClaimOK, sem_vars, claim_vars
  <2>. QED BY <1>1, <2>2, <2>3 DEF TypeOK
<1>4. PoolShape'
BY <1>1 DEF Return, PoolShape, InitPcs, ShutdownPcs, Stopping, StopPcs, JoinPcs, SemsOf,
     SetupPcs, JobPcs, CallPcs, LoopPcs, TypeOK, PoolOK, SemOK, CallOK, ClaimOK,
     pool_vars, sem_vars, call_vars, claim_vars
<1>5. EpochOrder'
BY <1>1 DEF Return, EpochOrder, SetupPcs, JobPcs, LoopPcs, TypeOK, PoolOK, SemOK,
     CallOK, ClaimOK, pool_vars, sem_vars, call_vars, claim_vars
<1>6. \A w \in Workers : Joined(w)' <=> Joined(w)
BY <1>1 DEF Return, Joined, JoinPcs, PoolShape, InitPcs, TypeOK, CallOK, PoolOK,
     pool_vars, sem_vars, call_vars, claim_vars
<1>7. WorkerShape' /\ Barrier'
BY <1>1, <1>2, <1>6, QuietStep DEF Return, SetupPcs, InlinePath, Barrier, pool_vars,
     sem_vars, call_vars, claim_vars
<1>8. JobCopies'
BY <1>1, <1>2, <1>6, <1>7, QuietStep DEF Return, SetupPcs, InlinePath, Barrier,
     pool_vars, sem_vars, call_vars, claim_vars
<1>. QED BY <1>3, <1>4, <1>5, <1>7, <1>8
-----------------------------------------------------------------------------
(* Threads come and go, and a job is published.                            *)

LEMMA ThreadCreatedSafe ==
    ASSUME BarrierInv, ThreadCreated
    PROVE  BarrierInv'
<1>. USE DEF BarrierInv
<1>0. k \in 1 .. worker_count /\ worker_count \in 0 .. MaxWorkers /\ started = k - 1
  BY DEF ThreadCreated, PoolShape, TypeOK, PoolOK, CallOK
<1>1. /\ PcOK' /\ pc'[0] = (IF k = worker_count THEN "idle" ELSE "thread_create")
      /\ pc'[k] = "park" /\ \A w \in Workers \ {k} : pc'[w] = pc[w]
  BY <1>0 DEF ThreadCreated, TypeOK, PcOK, MainPcs, MainIdle, InitPcs, WorkerPcs
<1>2. Quiet /\ Quiet'
  BY <1>1 DEF ThreadCreated, Quiet, Pooled, Stopping, JobPcs, LoopPcs, StopPcs, JoinPcs
<1>3. TypeOK'
  <2>1. CallOK'
    BY <1>0 DEF ThreadCreated, TypeOK, CallOK, call_vars
  <2>2. ClaimOK'
    BY <1>0 DEF ThreadCreated, TypeOK, ClaimOK, call_vars, claim_vars
  <2>3. PoolOK' /\ SemOK' /\ (fatal \in BOOLEAN)'
    BY DEF ThreadCreated, TypeOK, PoolOK, SemOK, pool_vars, sem_vars
  <2>. QED BY <1>1, <2>1, <2>2, <2>3 DEF TypeOK
<1>4. PoolShape'
  BY <1>0, <1>1 DEF ThreadCreated, PoolShape, InitPcs, ShutdownPcs, Stopping, StopPcs, JoinPcs,
     SetupPcs, JobPcs, CallPcs, LoopPcs, pool_vars, sem_vars
<1>5. EpochOrder'
  <2>1. seen'[k] = 0 /\ \A w \in Workers \ {k} : seen'[w] = seen[w]
    BY <1>0 DEF ThreadCreated, TypeOK, ClaimOK
  <2>. QED BY <1>0, <1>1, <2>1 DEF ThreadCreated, EpochOrder, SetupPcs, JobPcs, LoopPcs, TypeOK,
           PoolOK, pool_vars
<1>6. WorkerShape'
  <2>. SUFFICES ASSUME NEW w \in Workers PROVE WorkerOK(w)'
    BY DEF WorkerShape
  <2>1. pc[w] \in {"none", "park"} /\ wake'[w] = 0 /\ (pc[w] = "none" <=> w > started)
    BY <1>2 DEF ThreadCreated, WorkerShape, WorkerOK, Joined, JoinPcs, sem_vars
  <2>2. Joined(w)' <=> w > k
    BY <1>1 DEF ThreadCreated, Joined, JoinPcs
  <2>. QED BY <1>0, <1>1, <1>2, <2>1, <2>2 DEF WorkerOK, Quiet
<1>7. \A w \in Workers : pc'[w] \in {"none", "park"}
  BY <1>2, <1>6 DEF WorkerShape, WorkerOK
<1>8. Barrier'
  <2>1. pc'[0] \notin {"publish", "clear", "inline", "inline_run"} \cup SetupPcs
    BY <1>1 DEF SetupPcs
  <2>2. done' = 0
    BY <1>2, NothingPending DEF ThreadCreated, Quiet, sem_vars
  <2>3. \A w \in Workers : pc'[w] # "signal"
    BY <1>7
  <2>. QED BY <1>2, <2>1, <2>2, <2>3, BarrierAtRest DEF Quiet
<1>9. JobCopies'
  BY <1>1, <1>2, <1>7, CopiesAtRest DEF Quiet, Busy, LoopPcs
<1>. QED BY <1>3, <1>4, <1>5, <1>6, <1>8, <1>9

\* Main starts to stop the workers: none has been posted yet.
LEMMA StartStopping ==
    ASSUME BarrierInv, Quiet, PcOK', pc'[0] \in {"fail_post", "down_post"}, k' = 1,
           \A w \in Workers : pc'[w] = pc[w], pc[0] \notin JoinPcs,
           UNCHANGED <<started, sem_vars>>
    PROVE  WorkerShape' /\ JobCopies' /\ Barrier'
<1>. USE DEF BarrierInv
<1>1. ~Pooled' /\ ~Quiet'
  BY DEF Quiet, Pooled, Stopping, JobPcs, LoopPcs, StopPcs, JoinPcs
<1>2. \A w \in Workers : pc'[w] \in {"none", "park"} /\ wake'[w] = 0
  BY DEF WorkerShape, WorkerOK, sem_vars
<1>3. WorkerShape'
  <2>. SUFFICES ASSUME NEW w \in Workers PROVE WorkerOK(w)'
    BY DEF WorkerShape
  <2>1. (Joined(w)' <=> Joined(w)) /\ ~Posted(w)'
    BY DEF Joined, Posted, JoinPcs
  <2>. QED BY <1>1, <1>2, <2>1 DEF WorkerShape, WorkerOK, Quiet
<1>4. Barrier'
  BY <1>1, <1>2, NothingPending, BarrierAtRest DEF Quiet, SetupPcs, sem_vars
<1>5. JobCopies'
  BY <1>1, <1>2, CopiesAtRest DEF Busy, LoopPcs
<1>. QED BY <1>3, <1>4, <1>5

LEMMA ThreadRefusedSafe ==
    ASSUME BarrierInv, ThreadRefused
    PROVE  BarrierInv'
<1>. USE DEF BarrierInv
<1>1. PcOK' /\ pc'[0] = "fail_post" /\ \A w \in Workers : pc'[w] = pc[w]
  BY GotoMoves DEF ThreadRefused, TypeOK, MainPcs, InitPcs, ShutdownPcs
<1>2. TypeOK'
  BY <1>1 DEF ThreadRefused, TypeOK, PoolOK, SemOK, CallOK, ClaimOK, sem_vars, call_vars, claim_vars
<1>3. PoolShape'
  BY <1>1 DEF ThreadRefused, PoolShape, InitPcs, ShutdownPcs, Stopping, StopPcs, JoinPcs,
     SetupPcs, JobPcs,
     CallPcs, LoopPcs, TypeOK, PoolOK, CallOK, sem_vars
<1>4. EpochOrder'
  BY <1>1 DEF ThreadRefused, EpochOrder, SetupPcs, JobPcs, LoopPcs
<1>5. WorkerShape' /\ JobCopies' /\ Barrier'
  BY <1>1, StartStopping DEF ThreadRefused, Quiet, Pooled, Stopping, StopPcs, JoinPcs, JobPcs,
     LoopPcs
<1>. QED BY <1>2, <1>3, <1>4, <1>5

LEMMA JobsShutdownSafe ==
    ASSUME BarrierInv, JobsShutdown
    PROVE  BarrierInv'
<1>. USE DEF BarrierInv
<1>1. PcOK' /\ pc'[0] = "down_post" /\ \A w \in Workers : pc'[w] = pc[w]
  BY GotoMoves DEF JobsShutdown, TypeOK, MainPcs, InitPcs, ShutdownPcs
<1>2. TypeOK'
  BY <1>1 DEF JobsShutdown, TypeOK, PoolOK, SemOK, CallOK, ClaimOK, sem_vars, call_vars, claim_vars
<1>3. PoolShape'
  BY <1>1 DEF JobsShutdown, PoolShape, InitPcs, ShutdownPcs, Stopping, StopPcs, JoinPcs,
     SetupPcs, JobPcs,
     CallPcs, LoopPcs, TypeOK, PoolOK, CallOK, sem_vars
<1>4. EpochOrder'
  BY <1>1 DEF JobsShutdown, EpochOrder, SetupPcs, JobPcs, LoopPcs
<1>5. WorkerShape' /\ JobCopies' /\ Barrier'
  BY <1>1, StartStopping DEF JobsShutdown, Quiet, Pooled, Stopping, StopPcs, JoinPcs, JobPcs,
     LoopPcs
<1>. QED BY <1>2, <1>3, <1>4, <1>5

\* While main stops the workers nothing of a job is left.
LEMMA StoppingRest ==
    ASSUME BarrierInv, pc[0] \in StopPcs, pc'[0] \in StopPcs \cup {"idle"}, PcOK', done' = done,
           \A w \in Workers : pc'[w] \in {"none", "park", "check", "exited"}
    PROVE  JobCopies' /\ Barrier'
<1>. USE DEF BarrierInv
<1>1. ~Pooled /\ ~Pooled' /\ pc'[0] \notin {"reset", "arm", "publish", "clear", "write"}
  BY DEF Pooled, JobPcs, LoopPcs, StopPcs, JoinPcs
<1>2. Barrier'
  BY <1>1, NothingPending, BarrierAtRest DEF SetupPcs, StopPcs, JoinPcs
<1>. QED BY <1>1, <1>2, CopiesAtRest DEF Busy, LoopPcs

LEMMA StopPostSafe ==
    ASSUME BarrierInv, NEW post, NEW join, StopPost(post, join),
           \/ post = "fail_post" /\ join = "fail_join"
           \/ post = "down_post" /\ join = "down_join"
    PROVE  BarrierInv'
<1>. USE DEF BarrierInv
<1>0. /\ pc[0] = post /\ Stopping /\ ~Pooled
      /\ k \in 1 .. started + 1 /\ started \in 0 .. MaxWorkers
  BY DEF StopPost, PoolShape, Stopping, StopPcs, Pooled, JobPcs, LoopPcs, TypeOK, CallOK
<1>1. /\ PcOK' /\ pc'[0] = (IF k <= started THEN post ELSE join)
      /\ \A w \in Workers : pc'[w] = pc[w]
  <2>1. CASE k <= started
    BY <1>0, <2>1 DEF StopPost, TypeOK, PcOK
  <2>2. CASE ~(k <= started)
    BY <2>2, GotoMoves DEF StopPost, TypeOK, MainPcs, InitPcs, ShutdownPcs
  <2>. QED BY <2>1, <2>2
<1>2. /\ k' = (IF k <= started THEN k + 1 ELSE 1)
      /\ \A w \in Workers : wake'[w] = (IF k <= started /\ w = k THEN wake[w] + 1 ELSE wake[w])
      /\ wake' \in [Workers -> Nat]
  BY <1>0, SMTT(40) DEF StopPost, WakeSem, TypeOK, SemOK
<1>3. TypeOK'
  <2>1. CallOK'
    BY <1>0, <1>2 DEF StopPost, TypeOK, CallOK, call_vars
  <2>2. PoolOK' /\ SemOK' /\ ClaimOK' /\ (fatal \in BOOLEAN)'
    BY <1>2 DEF StopPost, TypeOK, PoolOK, SemOK, ClaimOK, pool_vars, call_vars, claim_vars
  <2>. QED BY <1>1, <2>1, <2>2 DEF TypeOK
<1>4. PoolShape'
  BY <1>0, <1>1, <1>2 DEF StopPost, PoolShape, InitPcs, ShutdownPcs, Stopping, StopPcs, JoinPcs,
     SetupPcs, JobPcs, CallPcs, LoopPcs, pool_vars
<1>5. EpochOrder'
  BY <1>0, <1>1 DEF StopPost, EpochOrder, SetupPcs, JobPcs, LoopPcs, pool_vars, call_vars
<1>6. Stopping' /\ ~Pooled'
  BY <1>0, <1>1 DEF Stopping, StopPcs, JoinPcs, Pooled, JobPcs, LoopPcs
<1>7. WorkerShape'
  <2>. SUFFICES ASSUME NEW w \in Workers PROVE WorkerOK(w)'
    BY DEF WorkerShape
  <2>1. Joined(w)' <=> Joined(w)
    BY <1>0, <1>1, <1>2 DEF Joined, JoinPcs, StopPost
  <2>2. Posted(w)' <=> Posted(w) \/ (k <= started /\ w = k)
    BY <1>0, <1>1, <1>2 DEF Posted, StopPost
  <2>3. k <= started /\ w = k => ~Joined(w) /\ ~Posted(w)
    BY <1>0 DEF Joined, JoinPcs, Posted
  <2>4. WorkerOK(w)
    BY DEF WorkerShape
  <2>. QED BY <1>0, <1>1, <1>2, <1>6, <2>1, <2>2, <2>3, <2>4 DEF WorkerOK, Quiet
<1>8. JobCopies' /\ Barrier'
  <2>1. \A w \in Workers : pc'[w] \in {"none", "park", "check", "exited"}
    BY <1>6, <1>7 DEF WorkerShape, WorkerOK
  <2>2. pc[0] \in StopPcs /\ pc'[0] \in StopPcs /\ done' = done
    BY <1>0, <1>6 DEF Stopping, StopPost
  <2>. QED BY <1>1, <2>1, <2>2, StoppingRest
<1>. QED BY <1>3, <1>4, <1>5, <1>7, <1>8

LEMMA JoinSafe ==
    ASSUME BarrierInv, NEW join \in {"fail_join", "down_join"}, Join(join)
    PROVE  BarrierInv'
<1>. USE DEF BarrierInv
<1>0. k \in 1 .. started /\ started \in 0 .. MaxWorkers /\ pc[0] = join /\ Stopping /\ ~Pooled
  BY DEF Join, PoolShape, Stopping, StopPcs, JoinPcs, Pooled, JobPcs, LoopPcs, TypeOK, CallOK
<1>1. PcOK' /\ pc'[k] = "none" /\ \A p \in Participants \ {k} : pc'[p] = pc[p]
  BY <1>0, GotoMoves DEF Join, TypeOK, WorkerPcs
<1>2. TypeOK'
  <2>1. CallOK'
    BY <1>0 DEF Join, TypeOK, CallOK, call_vars
  <2>2. PoolOK' /\ SemOK' /\ ClaimOK' /\ (fatal \in BOOLEAN)'
    BY DEF Join, TypeOK, PoolOK, SemOK, ClaimOK, pool_vars, sem_vars, call_vars, claim_vars
  <2>. QED BY <1>1, <2>1, <2>2 DEF TypeOK
<1>3. pc'[0] = pc[0] /\ Stopping' /\ ~Pooled'
  BY <1>0, <1>1 DEF Stopping, Pooled
<1>4. PoolShape'
  BY <1>0, <1>3 DEF Join, PoolShape, Stopping, StopPcs, JoinPcs, pool_vars, sem_vars, call_vars
<1>5. EpochOrder'
  BY <1>3 DEF Join, EpochOrder, pool_vars, call_vars
<1>6. WorkerShape'
  <2>. SUFFICES ASSUME NEW w \in Workers PROVE WorkerOK(w)'
    BY DEF WorkerShape
  <2>1. (Joined(w)' <=> Joined(w) \/ w = k) /\ (Posted(w)' <=> Posted(w))
    BY <1>0, <1>3 DEF Join, Joined, JoinPcs, Posted
  <2>2. WorkerOK(w) /\ wake'[w] = wake[w]
    BY DEF WorkerShape, Join, sem_vars
  <2>3. w = k => pc[w] = "exited"
    BY DEF Join
  <2>. QED BY <1>0, <1>1, <1>3, <2>1, <2>2, <2>3 DEF WorkerOK, Quiet
<1>7. JobCopies' /\ Barrier'
  <2>1. \A w \in Workers : pc'[w] \in {"none", "park", "check", "exited"}
    BY <1>3, <1>6 DEF WorkerShape, WorkerOK
  <2>2. pc[0] \in StopPcs /\ pc'[0] \in StopPcs /\ done' = done
    BY <1>0, <1>3 DEF Stopping, Join, sem_vars
  <2>. QED BY <1>1, <2>1, <2>2, StoppingRest
<1>. QED BY <1>2, <1>4, <1>5, <1>6, <1>7

\* Main has joined every worker it started.
LEMMA AllJoined ==
    ASSUME BarrierInv, PcOK', pc[0] \in JoinPcs, k > started, pc'[0] = "idle",
           \A w \in Workers : pc'[w] = pc[w], UNCHANGED <<wake, done>>, started' = 0
    PROVE  WorkerShape' /\ JobCopies' /\ Barrier'
<1>. USE DEF BarrierInv
<1>1. Stopping /\ ~Pooled /\ Quiet'
  BY DEF Stopping, StopPcs, JoinPcs, Pooled, JobPcs, LoopPcs, Quiet
<1>2. \A w \in Workers : pc[w] = "none" /\ wake[w] = 0
  <2>. TAKE w \in Workers
  <2>1. Joined(w)
    BY <1>1 DEF Joined, PoolShape, TypeOK, CallOK
  <2>. QED BY <1>1, <2>1 DEF WorkerShape, WorkerOK
<1>3. WorkerShape'
  BY <1>1, <1>2 DEF WorkerShape, WorkerOK, Quiet, Joined
<1>. QED BY <1>2, <1>3, StoppingRest DEF StopPcs

LEMMA InitFailedSafe ==
    ASSUME BarrierInv, InitFailed
    PROVE  BarrierInv'
<1>. USE DEF BarrierInv
<1>1. PcOK' /\ pc'[0] = "idle" /\ \A w \in Workers : pc'[w] = pc[w]
  BY GotoMoves DEF InitFailed, TypeOK, MainPcs, MainIdle
<1>2. TypeOK'
  <2>0. NoJob \in JobDescs
    BY JobDescFacts
  <2>1. PoolOK'
    <3>1. thread' \in BOOLEAN /\ shuffle_on' \in BOOLEAN
      BY DEF InitFailed, Zeroed, TypeOK, PoolOK
    <3>2. /\ worker_count' \in 0 .. MaxWorkers /\ job' \in JobDescs /\ epoch' \in 0 .. MaxJobs
          /\ next_chunk' \in 0 .. U32 - 1 /\ pending' \in 0 .. MaxWorkers + 1
          /\ shutdown' \in {0, 1} /\ in_job' \in {0, 1}
      BY <2>0 DEF InitFailed, Zeroed, TypeOK, PoolOK
    <3>. QED BY <3>1, <3>2 DEF PoolOK
  <2>2. SemOK'
    BY DEF InitFailed, TypeOK, SemOK
  <2>3. CallOK'
    BY DEF InitFailed, TypeOK, CallOK, call_vars
  <2>4. ClaimOK' /\ (fatal \in BOOLEAN)'
    BY DEF InitFailed, TypeOK, ClaimOK, call_vars, claim_vars
  <2>. QED BY <1>1, <2>1, <2>2, <2>3, <2>4 DEF TypeOK
<1>3. PoolShape'
  <2>1. sems' = {}
    BY DEF InitFailed, PoolShape, SemsOf
  <2>. QED BY <1>1, <2>1 DEF InitFailed, Zeroed, PoolShape, InitPcs, ShutdownPcs, Stopping, StopPcs,
           JoinPcs, SemsOf, SetupPcs, JobPcs, CallPcs, LoopPcs
<1>4. EpochOrder'
  BY <1>1 DEF InitFailed, EpochOrder, SetupPcs, JobPcs, LoopPcs
<1>5. WorkerShape' /\ JobCopies' /\ Barrier'
  BY <1>1, AllJoined DEF InitFailed, JoinPcs
<1>. QED BY <1>2, <1>3, <1>4, <1>5

LEMMA ShutDownSafe ==
    ASSUME BarrierInv, ShutDown
    PROVE  BarrierInv'
<1>. USE DEF BarrierInv
<1>1. PcOK' /\ pc'[0] = "idle" /\ \A w \in Workers : pc'[w] = pc[w]
  BY GotoMoves DEF ShutDown, TypeOK, MainPcs, MainIdle
<1>2. TypeOK'
  <2>0. NoJob \in JobDescs
    BY JobDescFacts
  <2>1. PoolOK'
    <3>1. thread' \in BOOLEAN /\ shuffle_on' \in BOOLEAN
      BY DEF ShutDown, TypeOK, PoolOK
    <3>2. /\ worker_count' \in 0 .. MaxWorkers /\ job' \in JobDescs /\ epoch' \in 0 .. MaxJobs
          /\ next_chunk' \in 0 .. U32 - 1 /\ pending' \in 0 .. MaxWorkers + 1
          /\ shutdown' \in {0, 1} /\ in_job' \in {0, 1}
      BY <2>0 DEF ShutDown, TypeOK, PoolOK
    <3>. QED BY <3>1, <3>2 DEF PoolOK
  <2>2. SemOK'
    BY DEF ShutDown, TypeOK, SemOK
  <2>3. CallOK'
    BY DEF ShutDown, TypeOK, CallOK, call_vars
  <2>4. ClaimOK' /\ (fatal \in BOOLEAN)'
    BY DEF ShutDown, TypeOK, ClaimOK, call_vars, claim_vars
  <2>. QED BY <1>1, <2>1, <2>2, <2>3, <2>4 DEF TypeOK
<1>3. PoolShape'
  <2>1. sems' = {}
    BY DEF ShutDown, PoolShape, SemsOf
  <2>. QED BY <1>1, <2>1 DEF ShutDown, PoolShape, InitPcs, ShutdownPcs, Stopping, StopPcs, JoinPcs,
           SemsOf, SetupPcs, JobPcs, CallPcs, LoopPcs
<1>4. EpochOrder'
  BY <1>1 DEF ShutDown, EpochOrder, SetupPcs, JobPcs, LoopPcs
<1>5. WorkerShape' /\ JobCopies' /\ Barrier'
  BY <1>1, AllJoined DEF ShutDown, JoinPcs
<1>. QED BY <1>2, <1>3, <1>4, <1>5

LEMMA PublishEpochSafe ==
    ASSUME BarrierInv, PublishEpoch
    PROVE  BarrierInv'
<1>. USE DEF BarrierInv
<1>0. /\ worker_count \in 1 .. MaxWorkers /\ started = worker_count
      /\ epoch' = epoch + 1 /\ epoch \in Nat /\ epoch' \in 0 .. MaxJobs
      /\ epoch + levels_left <= MaxJobs
  BY DEF PublishEpoch, PoolShape, EpochOrder, SetupPcs, InitPcs, TypeOK, PoolOK, CallOK
<1>1. PcOK' /\ pc'[0] = "post" /\ \A w \in Workers : pc'[w] = pc[w]
  BY GotoMoves DEF PublishEpoch, TypeOK, MainPcs, LevelPcs
<1>2. Quiet /\ Pooled' /\ ~Stopping' /\ ~Quiet'
  BY <1>1 DEF PublishEpoch, Quiet, Pooled, Stopping, JobPcs, LoopPcs, StopPcs, JoinPcs
<1>3. TypeOK'
  <2>1. PoolOK'
    BY <1>0 DEF PublishEpoch, TypeOK, PoolOK
  <2>2. SemOK' /\ CallOK' /\ ClaimOK' /\ (fatal \in BOOLEAN)'
    BY DEF PublishEpoch, TypeOK, SemOK, CallOK, ClaimOK, sem_vars, call_vars, claim_vars
  <2>. QED BY <1>1, <2>1, <2>2 DEF TypeOK
<1>4. PoolShape'
  BY <1>0, <1>1 DEF PublishEpoch, PoolShape, InitPcs, ShutdownPcs, Stopping, StopPcs, JoinPcs,
     SetupPcs, JobPcs, CallPcs, LoopPcs, sem_vars, call_vars
<1>5. \A w \in Workers : w <= started => seen[w] < epoch'
  BY <1>0 DEF EpochOrder, TypeOK, ClaimOK
<1>6. EpochOrder'
  BY <1>0, <1>1, <1>5 DEF PublishEpoch, EpochOrder, SetupPcs, JobPcs, LoopPcs, TypeOK, CallOK,
     ClaimOK, call_vars
<1>7. \A w \in Workers : pc'[w] \in {"none", "park"} /\ wake'[w] = 0 /\ seen'[w] = seen[w]
  BY <1>1, <1>2 DEF PublishEpoch, WorkerShape, WorkerOK, sem_vars
<1>8. WorkerShape'
  <2>. SUFFICES ASSUME NEW w \in Workers PROVE WorkerOK(w)'
    BY DEF WorkerShape
  <2>1. ~Posted(w)' /\ (Joined(w)' <=> Joined(w))
    BY <1>1 DEF PublishEpoch, Posted, Joined, JoinPcs
  <2>2. seen'[w] # epoch' \/ w > worker_count'
    BY <1>0, <1>5, <1>7 DEF PublishEpoch, TypeOK, ClaimOK
  <2>3. pc[w] = "none" <=> Joined(w)
    BY DEF WorkerShape, WorkerOK
  <2>. QED BY <1>1, <1>2, <1>7, <2>1, <2>2, <2>3 DEF WorkerOK, Busy, LoopPcs
<1>9. JobCopies'
  <2>1. job' = call'
    BY DEF PublishEpoch, JobCopies, call_vars
  <2>2. \A p \in Participants : pc'[p] \notin {"claim", "run", "retire"}
    BY <1>1, <1>7
  <2>. QED BY <2>1, <2>2 DEF JobCopies
<1>10. Barrier'
  <2>1. Unretired' = 0 .. worker_count
    BY <1>0, <1>1, <1>5, <1>7 DEF Unretired, PublishEpoch, TypeOK, ClaimOK
  <2>2. pending' = Cardinality(Unretired')
    BY <1>0, <2>1, FS_Interval DEF PublishEpoch, Barrier
  <2>3. done' = 0
    BY <1>2, NothingPending DEF PublishEpoch, Quiet, sem_vars
  <2>4. ~InlinePath(worker_count', call'.chunks)
    BY DEF PublishEpoch, Barrier, SetupPcs, call_vars
  <2>. QED BY <1>1, <1>7, <2>2, <2>3, <2>4 DEF Barrier
<1>. QED BY <1>3, <1>4, <1>6, <1>8, <1>9, <1>10

LEMMA PostWakeSafe ==
    ASSUME BarrierInv, PostWake
    PROVE  BarrierInv'
<1>. USE DEF BarrierInv
<1>0. /\ k \in 1 .. worker_count /\ worker_count \in 1 .. MaxWorkers
      /\ started = worker_count /\ pc[0] = "post" /\ Pooled /\ ~Stopping
  BY DEF PostWake, PoolShape, InitPcs, TypeOK, PoolOK, CallOK, Pooled, JobPcs, LoopPcs, Stopping,
     StopPcs, JoinPcs
<1>1. /\ PcOK' /\ pc'[0] = (IF k = worker_count THEN "snap" ELSE "post")
      /\ \A w \in Workers : pc'[w] = pc[w]
  BY GotoMoves DEF PostWake, TypeOK, MainPcs, LevelPcs, LoopPcs
<1>2. /\ k' = k + 1 /\ wake' \in [Workers -> Nat]
      /\ \A w \in Workers : wake'[w] = (IF w = k THEN wake[w] + 1 ELSE wake[w])
  BY <1>0 DEF PostWake, WakeSem, TypeOK, SemOK
<1>3. TypeOK'
  <2>1. CallOK'
    BY <1>0, <1>2 DEF PostWake, TypeOK, CallOK, call_vars
  <2>2. PoolOK' /\ SemOK' /\ ClaimOK' /\ (fatal \in BOOLEAN)'
    BY <1>2 DEF PostWake, TypeOK, PoolOK, SemOK, ClaimOK, pool_vars, call_vars, claim_vars
  <2>. QED BY <1>1, <2>1, <2>2 DEF TypeOK
<1>4. Pooled' /\ ~Stopping' /\ ~Quiet'
  BY <1>1 DEF Pooled, JobPcs, LoopPcs, Stopping, StopPcs, JoinPcs, Quiet
<1>5. PoolShape'
  BY <1>0, <1>1, <1>2 DEF PostWake, PoolShape, InitPcs, ShutdownPcs, Stopping, StopPcs, JoinPcs,
     SetupPcs, JobPcs, CallPcs, LoopPcs, pool_vars, call_vars
<1>6. EpochOrder'
  BY <1>0, <1>1 DEF PostWake, EpochOrder, SetupPcs, JobPcs, LoopPcs, pool_vars, call_vars
<1>7. WorkerShape'
  <2>. SUFFICES ASSUME NEW w \in Workers PROVE WorkerOK(w)'
    BY DEF WorkerShape
  <2>1. (Joined(w)' <=> Joined(w)) /\ (Joined(w) <=> w > started)
    BY <1>0, <1>1 DEF Joined, JoinPcs, PostWake
  <2>2. Posted(w)' <=> Posted(w) \/ w = k
    BY <1>0, <1>1, <1>2 DEF Posted, PostWake
  <2>3. w = k => ~Joined(w) /\ ~Posted(w)
    BY <1>0, <2>1 DEF Posted
  <2>4. WorkerOK(w) /\ seen'[w] = seen[w] /\ UNCHANGED <<epoch, worker_count>>
    BY DEF WorkerShape, PostWake, pool_vars
  <2>5. pc[w] \in WorkerPcs
    BY DEF TypeOK, PcOK
  <2>6. w = k => pc[w] = "park" /\ seen[w] # epoch /\ wake[w] = 0
    BY <1>0, <2>3, <2>4, <2>5 DEF WorkerOK, WorkerPcs, Busy
  <2>. QED BY <1>0, <1>1, <1>2, <1>4, <2>1, <2>2, <2>4, <2>6 DEF WorkerOK, Busy
<1>8. JobCopies'
  <2>1. \A p \in Participants :
            pc'[p] \in {"claim", "run", "retire"} => pc'[p] = pc[p]
    BY <1>1
  <2>. QED BY <1>0, <1>4, <2>1 DEF JobCopies, PostWake, Pooled, pool_vars, call_vars, claim_vars
<1>9. Barrier'
  <2>1. Unretired' = Unretired
    BY <1>0, <1>1 DEF Unretired, Busy, PostWake, pool_vars
  <2>. QED BY <1>0, <1>1, <1>4, <2>1 DEF Barrier, PostWake, pool_vars, call_vars, JobPcs, LoopPcs,
           SetupPcs, Pooled
<1>. QED BY <1>3, <1>5, <1>6, <1>7, <1>8, <1>9

-----------------------------------------------------------------------------
(* The claim loop, and the workers.                                        *)

\* A worker past its shutdown check works for the job main is in.
LEMMA WorkingIsPooled ==
    ASSUME BarrierInv, NEW w \in Workers, Busy(w) \/ pc[w] \in {"load", "signal"}
    PROVE  /\ Pooled /\ ~Stopping /\ ~Quiet
           /\ Posted(w) /\ w \in 1 .. worker_count /\ ~Joined(w) /\ wake[w] = 0
           /\ pc[w] # "load" => seen[w] = epoch
           /\ pc[w] = "load" => seen[w] # epoch
<1>. USE DEF BarrierInv
<1>1. WorkerOK(w)
  BY DEF WorkerShape
<1>2. Pooled
  BY <1>1 DEF WorkerOK, Quiet, Busy, LoopPcs
<1>3. ~Stopping /\ ~Quiet
  BY <1>2 DEF Pooled, Stopping, Quiet, JobPcs, LoopPcs, StopPcs, JoinPcs
<1>4. started = worker_count
  BY <1>2 DEF PoolShape, Pooled, InitPcs, JobPcs, LoopPcs
<1>. QED BY <1>1, <1>2, <1>3, <1>4 DEF WorkerOK, Busy, LoopPcs, Posted

LEMMA UnretiredFinite ==
    ASSUME BarrierInv
    PROVE  IsFiniteSet(Unretired) /\ Unretired \subseteq 0 .. worker_count
<1>1. IsFiniteSet(0 .. worker_count)
  BY FS_Interval DEF BarrierInv, TypeOK, PoolOK
<1>. QED BY <1>1, FS_Subset DEF Unretired

\* A step within the claim loop, by main or by a worker.
LEMMA LoopStep ==
    ASSUME BarrierInv, NEW p \in Participants, pc[p] \in LoopPcs, pc'[p] \in LoopPcs, PcOK',
           \A q \in Participants \ {p} : pc'[q] = pc[q],
           UNCHANGED <<thread, worker_count, epoch, pending, shutdown, in_job, sem_vars, k,
                       started, call_vars, seen>>
    PROVE  PoolShape' /\ EpochOrder' /\ WorkerShape' /\ Barrier'
<1>. USE DEF BarrierInv
<1>1. MainStays
  BY DEF MainStays
<1>2. PoolShape' /\ EpochOrder'
  BY <1>1, PoolFrame, EpochFrame DEF sem_vars, call_vars
<1>3. /\ Pooled' <=> Pooled
      /\ Stopping' <=> Stopping
      /\ \A w : (Posted(w)' <=> Posted(w)) /\ (Joined(w)' <=> Joined(w))
  BY <1>1, ControlFrame
<1>4. WorkerShape'
  <2>. SUFFICES ASSUME NEW w \in Workers PROVE WorkerOK(w)'
    BY DEF WorkerShape
  <2>1. CASE w # p
    BY <1>3, <2>1, WorkerFrame DEF WorkerShape, sem_vars
  <2>2. CASE w = p
    <3>1. Busy(w) /\ Busy(w)' /\ WorkerOK(w)
      BY <2>2 DEF Busy, WorkerShape
    <3>. QED BY <1>3, <3>1, WorkingIsPooled DEF WorkerOK, Quiet, Busy, LoopPcs, sem_vars
  <2>. QED BY <2>1, <2>2
<1>5. Barrier'
  <2>1. pc'[0] = "await" <=> pc[0] = "await"
    BY DEF LoopPcs
  <2>2. \A w \in Workers : Busy(w)' <=> Busy(w)
    BY DEF Busy
  <2>3. Unretired' = Unretired
    BY <2>1, <2>2 DEF Unretired, TypeOK, PoolOK
  <2>4. \A w \in Workers : pc'[w] = "signal" => pc[w] = "signal"
    BY DEF LoopPcs
  <2>5. pc'[0] \in SetupPcs \cup {"publish", "clear", "inline", "inline_run"} => pc'[0] = pc[0]
    BY DEF LoopPcs, SetupPcs
  <2>6. InlinePath(worker_count', call'.chunks) <=> InlinePath(worker_count, call.chunks)
    BY DEF call_vars
  <2>. QED BY <1>3, <2>1, <2>3, <2>4, <2>5, <2>6 DEF Barrier, Pooled, SetupPcs, sem_vars
<1>. QED BY <1>2, <1>4, <1>5

LEMMA SnapshotSafe ==
    ASSUME BarrierInv, NEW p \in Participants, Snapshot(p)
    PROVE  BarrierInv'
<1>. USE DEF BarrierInv
<1>1. PcOK' /\ pc'[p] = "claim" /\ \A q \in Participants \ {p} : pc'[q] = pc[q]
  BY GotoMoves DEF Snapshot, TypeOK, MainPcs, WorkerPcs, LoopPcs
<1>2. TypeOK'
  <2>1. ClaimOK'
    BY DEF Snapshot, TypeOK, PoolOK, ClaimOK, call_vars
  <2>2. PoolOK' /\ SemOK' /\ CallOK' /\ (fatal \in BOOLEAN)'
    BY DEF Snapshot, TypeOK, PoolOK, SemOK, CallOK, pool_vars, sem_vars, call_vars
  <2>. QED BY <1>1, <2>1, <2>2 DEF TypeOK
<1>3. PoolShape' /\ EpochOrder' /\ WorkerShape' /\ Barrier'
  BY <1>1, LoopStep DEF Snapshot, LoopPcs, pool_vars
<1>4. JobCopies'
  <2>1. Pooled
    BY WorkingIsPooled DEF Pooled, JobPcs, Snapshot, Busy, LoopPcs
  <2>2. job = call /\ job' = job /\ call' = call
    BY <2>1 DEF Pooled, JobCopies, Snapshot, pool_vars, call_vars
  <2>3. snap'[p] = job /\ \A q \in Participants \ {p} : snap'[q] = snap[q]
    BY DEF Snapshot, TypeOK, ClaimOK
  <2>. QED BY <1>1, <2>2, <2>3 DEF JobCopies
<1>. QED BY <1>2, <1>3, <1>4

LEMMA ClaimSafe ==
    ASSUME BarrierInv, NEW p \in Participants, Claim(p)
    PROVE  BarrierInv'
<1>. USE DEF BarrierInv
<1>1. /\ PcOK' /\ pc'[p] \in {"retire", "run"}
      /\ \A q \in Participants \ {p} : pc'[q] = pc[q]
  BY GotoMoves DEF Claim, TypeOK, MainPcs, WorkerPcs, LoopPcs
<1>2. TypeOK'
  <2>1. ClaimOK'
    BY DEF Claim, TypeOK, PoolOK, ClaimOK, call_vars
  <2>2. PoolOK'
    BY DEF Claim, NextTicket, TypeOK, PoolOK
  <2>3. SemOK' /\ CallOK' /\ (fatal \in BOOLEAN)'
    BY DEF Claim, TypeOK, SemOK, CallOK, sem_vars, call_vars
  <2>. QED BY <1>1, <2>1, <2>2, <2>3 DEF TypeOK
<1>3. PoolShape' /\ EpochOrder' /\ WorkerShape' /\ Barrier'
  BY <1>1, LoopStep DEF Claim, LoopPcs
<1>4. JobCopies'
  <2>1. snap[p] = call
    BY DEF JobCopies, Claim
  <2>2. pc'[0] \in JobPcs \cup {"reset", "arm", "publish"} =>
            pc[0] \in JobPcs \cup {"reset", "arm", "publish"}
    BY <1>1 DEF Claim, JobPcs, LoopPcs
  <2>. QED BY <1>1, <2>1, <2>2 DEF JobCopies, Claim, call_vars
<1>. QED BY <1>2, <1>3, <1>4

LEMMA RunChunkSafe ==
    ASSUME BarrierInv, NEW p \in Participants, RunChunk(p)
    PROVE  BarrierInv'
<1>. USE DEF BarrierInv
<1>1. PcOK' /\ pc'[p] = "claim" /\ \A q \in Participants \ {p} : pc'[q] = pc[q]
  BY GotoMoves DEF RunChunk, TypeOK, MainPcs, WorkerPcs, LoopPcs
<1>2. TypeOK'
  <2>1. runs' \in [0 .. call.chunks - 1 -> Nat]
    BY CountUp DEF RunChunk, RunTicket, TypeOK, ClaimOK
  <2>2. ClaimOK'
    BY <2>1 DEF RunChunk, TypeOK, ClaimOK, call_vars
  <2>3. PoolOK' /\ SemOK' /\ CallOK' /\ (fatal \in BOOLEAN)'
    BY DEF RunChunk, TypeOK, PoolOK, SemOK, CallOK, pool_vars, sem_vars, call_vars
  <2>. QED BY <1>1, <2>2, <2>3 DEF TypeOK
<1>3. PoolShape' /\ EpochOrder' /\ WorkerShape' /\ Barrier'
  BY <1>1, LoopStep DEF RunChunk, LoopPcs, pool_vars
<1>4. JobCopies'
  <2>1. snap[p] = call
    BY DEF JobCopies, RunChunk
  <2>2. pc'[0] \in JobPcs \cup {"reset", "arm", "publish"} =>
            pc[0] \in JobPcs \cup {"reset", "arm", "publish"}
    BY <1>1 DEF RunChunk, JobPcs, LoopPcs
  <2>. QED BY <1>1, <2>1, <2>2 DEF JobCopies, RunChunk, pool_vars, call_vars
<1>. QED BY <1>2, <1>3, <1>4

LEMMA NestedCallSafe ==
    ASSUME BarrierInv, NEW p \in Participants, NestedCall(p)
    PROVE  BarrierInv'
<1>. USE DEF BarrierInv, NestedCall, pool_vars, sem_vars, call_vars, claim_vars
<1>1. TypeOK'
  BY DEF TypeOK, PoolOK, SemOK, PcOK, CallOK, ClaimOK
<1>2. PoolShape' /\ EpochOrder'
  BY PoolFrame, EpochFrame DEF MainStays
<1>3. WorkerShape' /\ JobCopies'
  BY DEF WorkerShape, WorkerOK, Quiet, Pooled, Stopping, Posted, Joined, Busy, JobCopies
<1>4. Barrier'
  <2>1. Unretired' = Unretired
    BY DEF Unretired, Busy
  <2>. QED BY <2>1 DEF Barrier, Pooled
<1>. QED BY <1>1, <1>2, <1>3, <1>4

\* Once every participant but main has retired, the workers are all parked.
LEMMA AllRetired ==
    ASSUME BarrierInv, Pooled, Unretired \subseteq {0}, \A w \in Workers : pc[w] # "signal"
    PROVE  \A w \in Workers :
               pc[w] \in {"none", "park"} /\ wake[w] = 0 /\ (pc[w] = "none" <=> w > started)
<1>. USE DEF BarrierInv
<1>1. started = worker_count /\ worker_count \in 0 .. MaxWorkers
  BY DEF PoolShape, Pooled, InitPcs, JobPcs, LoopPcs, TypeOK, PoolOK
<1>. TAKE w \in Workers
<1>2. WorkerOK(w) /\ pc[w] \in WorkerPcs
  BY DEF WorkerShape, TypeOK, PcOK
<1>3. Joined(w) <=> w > started
  BY DEF Joined, JoinPcs, Pooled, JobPcs, LoopPcs
<1>4. CASE w > worker_count
  BY <1>1, <1>2, <1>3, <1>4 DEF WorkerOK, Posted
<1>5. CASE w <= worker_count
  <2>1. seen[w] = epoch /\ ~Busy(w)
    BY <1>5 DEF Unretired
  <2>. QED BY <1>1, <1>2, <1>3, <1>5, <2>1 DEF WorkerOK, Busy, WorkerPcs
<1>. QED BY <1>1, <1>4, <1>5

\* The barrier opens: main goes on alone to clear in_job.
LEMMA BarrierOpens ==
    ASSUME BarrierInv, Pooled, Unretired \subseteq {0}, \A w \in Workers : pc[w] # "signal",
           PcOK', pc'[0] = "clear", \A w \in Workers : pc'[w] = pc[w],
           pending' = 0, done' = 0,
           UNCHANGED <<thread, worker_count, shutdown, in_job, sems, wake, k, started,
                       levels_left, call, epoch, next_epoch, seen>>
    PROVE  PoolShape' /\ EpochOrder' /\ WorkerShape' /\ JobCopies' /\ Barrier'
<1>. USE DEF BarrierInv
<1>1. /\ ~Pooled' /\ Quiet' /\ ~Stopping'
      /\ pc[0] \notin InitPcs \cup ShutdownPcs \cup StopPcs \cup {"idle", "level"}
      /\ pc[0] \in CallPcs
  BY DEF Pooled, Quiet, Stopping, JobPcs, LoopPcs, StopPcs, JoinPcs, InitPcs, ShutdownPcs, CallPcs
<1>2. PoolShape'
  BY <1>1 DEF PoolShape, Stopping, StopPcs, JoinPcs, InitPcs, ShutdownPcs, SetupPcs, JobPcs,
     CallPcs,
     LoopPcs
<1>3. EpochOrder'
  BY DEF EpochOrder, Pooled, SetupPcs, JobPcs, LoopPcs
<1>4. \A w \in Workers :
          pc[w] \in {"none", "park"} /\ wake[w] = 0 /\ (pc[w] = "none" <=> w > started)
  BY AllRetired
<1>5. WorkerShape'
  BY <1>1, <1>4 DEF WorkerShape, WorkerOK, Joined, JoinPcs, Quiet
<1>6. JobCopies'
  BY <1>1, <1>4, CopiesAtRest DEF Busy, LoopPcs
<1>7. Barrier'
  BY <1>1, <1>4, BarrierAtRest DEF SetupPcs
<1>. QED BY <1>2, <1>3, <1>5, <1>6, <1>7

LEMMA RetireMainSafe ==
    ASSUME BarrierInv, RetireMain
    PROVE  BarrierInv'
<1>. USE DEF BarrierInv
<1>1. /\ PcOK' /\ pc'[0] = (IF pending = 1 THEN "clear" ELSE "await")
      /\ \A w \in Workers : pc'[w] = pc[w]
  BY GotoMoves DEF RetireMain, TypeOK, MainPcs, LevelPcs
<1>2. Pooled /\ pc[0] = "retire" /\ worker_count \in 0 .. MaxWorkers
  BY DEF RetireMain, Pooled, JobPcs, LoopPcs, TypeOK, PoolOK
<1>3. 0 \in Unretired /\ pending = Cardinality(Unretired) /\ pending \in Nat
  BY <1>2 DEF Unretired, Barrier, TypeOK, PoolOK
<1>4. Cardinality(Unretired \ {0}) = pending - 1 /\ IsFiniteSet(Unretired \ {0}) /\ pending > 0
  <2>1. Cardinality(Unretired \ {0}) = pending - 1 /\ IsFiniteSet(Unretired \ {0})
    BY <1>3, UnretiredFinite, FS_RemoveElement
  <2>2. pending - 1 \in Nat
    BY <2>1, FS_CardinalityType
  <2>. QED BY <1>3, <2>1, <2>2
<1>5. TypeOK'
  <2>1. PoolOK'
    BY <1>4 DEF RetireMain, TypeOK, PoolOK
  <2>2. SemOK' /\ CallOK' /\ ClaimOK' /\ (fatal \in BOOLEAN)'
    BY DEF RetireMain, TypeOK, SemOK, CallOK, ClaimOK, sem_vars, call_vars, claim_vars
  <2>. QED BY <1>1, <2>1, <2>2 DEF TypeOK
<1>6. done = 0 /\ \A w \in Workers : pc[w] # "signal"
  BY <1>2 DEF Barrier
<1>7. CASE pending = 1
  <2>1. Unretired \ {0} = {}
    BY <1>4, <1>7, FS_EmptySet
  <2>. QED BY <1>1, <1>2, <1>5, <1>6, <1>7, <2>1, BarrierOpens DEF RetireMain, sem_vars, call_vars
<1>8. CASE pending # 1
  <2>1. MainStays /\ pc'[0] = "await"
    BY <1>1, <1>2, <1>8 DEF MainStays, LoopPcs
  <2>2. PoolShape' /\ EpochOrder'
    BY <2>1, PoolFrame, EpochFrame DEF RetireMain, sem_vars, call_vars
  <2>3. /\ Pooled' <=> Pooled
        /\ Stopping' <=> Stopping
        /\ \A w : (Posted(w)' <=> Posted(w)) /\ (Joined(w)' <=> Joined(w))
    BY <2>1, ControlFrame DEF RetireMain
  <2>4. WorkerShape'
    BY <1>1, <2>3, WorkerFrame DEF WorkerShape, RetireMain, sem_vars
  <2>5. JobCopies'
    BY <1>1, <1>2, <2>1 DEF JobCopies, RetireMain, Pooled, call_vars, claim_vars
  <2>6. Unretired' = Unretired \ {0}
    BY <1>1, <1>2, <2>1 DEF Unretired, Busy, RetireMain
  <2>7. ~InlinePath(worker_count', call'.chunks)
    BY <1>2 DEF Barrier, Pooled, RetireMain, call_vars
  <2>8. Barrier'
    BY <1>1, <1>4, <1>6, <2>1, <2>6, <2>7 DEF Barrier, RetireMain, sem_vars
  <2>. QED BY <1>5, <2>2, <2>4, <2>5, <2>8
<1>. QED BY <1>7, <1>8

LEMMA AwaitDoneSafe ==
    ASSUME BarrierInv, AwaitDone
    PROVE  BarrierInv'
<1>. USE DEF BarrierInv
<1>1. PcOK' /\ pc'[0] = "clear" /\ \A w \in Workers : pc'[w] = pc[w]
  BY GotoMoves DEF AwaitDone, TypeOK, MainPcs, LevelPcs
<1>2. /\ Pooled /\ done = 1 /\ pending = 0 /\ pending = Cardinality(Unretired)
      /\ \A w \in Workers : pc[w] # "signal"
  BY DEF AwaitDone, Pooled, JobPcs, Barrier
<1>3. TypeOK'
  BY <1>1, <1>2 DEF AwaitDone, TypeOK, PoolOK, SemOK, CallOK, ClaimOK, pool_vars, call_vars,
     claim_vars
<1>4. Unretired = {}
  BY <1>2, UnretiredFinite, FS_EmptySet
<1>. QED BY <1>1, <1>2, <1>3, <1>4, BarrierOpens DEF AwaitDone, pool_vars, call_vars

\* A step of one worker that leaves main, the pool and the barrier's participants alone.
LEMMA WorkerStep ==
    ASSUME BarrierInv, NEW w \in Workers, PcOK',
           \A q \in Participants \ {w} : pc'[q] = pc[q],
           \A v \in Workers \ {w} : wake'[v] = wake[v] /\ seen'[v] = seen[v],
           UNCHANGED <<thread, worker_count, epoch, shutdown, in_job, sems, k, started, call_vars>>
    PROVE  /\ PoolShape' /\ pc'[0] = pc[0]
           /\ (Pooled' <=> Pooled) /\ (Stopping' <=> Stopping)
           /\ \A v : (Posted(v)' <=> Posted(v)) /\ (Joined(v)' <=> Joined(v))
           /\ \A v \in Workers \ {w} : WorkerOK(v)'
           /\ seen' = seen => EpochOrder'
<1>. USE DEF BarrierInv
<1>1. MainStays /\ pc'[0] = pc[0]
  BY DEF MainStays
<1>2. PoolShape' /\ (seen' = seen => EpochOrder')
  BY <1>1, PoolFrame, EpochFrame DEF call_vars
<1>3. /\ (Pooled' <=> Pooled) /\ (Stopping' <=> Stopping)
      /\ \A v : (Posted(v)' <=> Posted(v)) /\ (Joined(v)' <=> Joined(v))
  BY <1>1, ControlFrame
<1>4. \A v \in Workers \ {w} : WorkerOK(v)'
  BY <1>3, WorkerFrame DEF WorkerShape
<1>. QED BY <1>1, <1>2, <1>3, <1>4

\* ... and the barrier, if the worker's share of it stays.
LEMMA BarrierFrame ==
    ASSUME BarrierInv, NEW w \in Workers, pc'[0] = pc[0],
           \A v \in Workers \ {w} : pc'[v] = pc[v] /\ seen'[v] = seen[v],
           pc'[w] # "signal",
           (seen'[w] # epoch \/ Busy(w)') <=> (seen[w] # epoch \/ Busy(w)),
           UNCHANGED <<worker_count, epoch, pending, done, call>>
    PROVE  Barrier'
<1>1. Unretired' = Unretired
  BY DEF Unretired, Busy, BarrierInv, TypeOK, PoolOK
<1>. QED BY <1>1 DEF Barrier, BarrierInv, Pooled

LEMMA WakeSafe ==
    ASSUME BarrierInv, NEW w \in Workers, Wake(w)
    PROVE  BarrierInv'
<1>. USE DEF BarrierInv
<1>1. PcOK' /\ pc'[w] = "check" /\ \A q \in Participants \ {w} : pc'[q] = pc[q]
  BY GotoMoves DEF Wake, TypeOK, WorkerPcs
<1>2. /\ wake' \in [Workers -> Nat] /\ wake'[w] = wake[w] - 1 /\ wake[w] > 0 /\ wake[w] \in Nat
      /\ \A v \in Workers \ {w} : wake'[v] = wake[v]
  BY DEF Wake, WakeSem, TypeOK, SemOK
<1>3. TypeOK'
  BY <1>1, <1>2 DEF Wake, TypeOK, PoolOK, SemOK, CallOK, ClaimOK, pool_vars, call_vars, claim_vars
<1>4. /\ PoolShape' /\ pc'[0] = pc[0] /\ EpochOrder'
      /\ (Pooled' <=> Pooled) /\ (Stopping' <=> Stopping)
      /\ \A v : (Posted(v)' <=> Posted(v)) /\ (Joined(v)' <=> Joined(v))
      /\ \A v \in Workers \ {w} : WorkerOK(v)'
  BY <1>1, <1>2, WorkerStep DEF Wake, pool_vars
<1>5. WorkerOK(w)'
  <2>1. WorkerOK(w) /\ pc[w] = "park"
    BY DEF WorkerShape, Wake
  <2>. QED BY <1>1, <1>2, <1>4, <2>1 DEF WorkerOK, Quiet, Busy, LoopPcs, Wake, pool_vars
<1>6. JobCopies'
  BY <1>1, <1>4 DEF JobCopies, Wake, pool_vars, call_vars, claim_vars
<1>7. Barrier'
  BY <1>1, <1>4, BarrierFrame DEF Wake, Busy, LoopPcs, pool_vars, call_vars
<1>. QED BY <1>3, <1>4, <1>5, <1>6, <1>7 DEF WorkerShape

LEMMA CheckShutdownSafe ==
    ASSUME BarrierInv, NEW w \in Workers, CheckShutdown(w)
    PROVE  BarrierInv'
<1>. USE DEF BarrierInv
<1>1. /\ PcOK' /\ pc'[w] = (IF shutdown # 0 THEN "exited" ELSE "load")
      /\ \A q \in Participants \ {w} : pc'[q] = pc[q]
  BY GotoMoves DEF CheckShutdown, TypeOK, WorkerPcs
<1>2. TypeOK'
  BY <1>1 DEF CheckShutdown, TypeOK, PoolOK, SemOK, CallOK, ClaimOK, pool_vars, sem_vars, call_vars,
     claim_vars
<1>3. /\ PoolShape' /\ pc'[0] = pc[0] /\ EpochOrder'
      /\ (Pooled' <=> Pooled) /\ (Stopping' <=> Stopping)
      /\ \A v : (Posted(v)' <=> Posted(v)) /\ (Joined(v)' <=> Joined(v))
      /\ \A v \in Workers \ {w} : WorkerOK(v)'
  BY <1>1, WorkerStep DEF CheckShutdown, pool_vars, sem_vars
<1>4. WorkerOK(w)'
  <2>1. WorkerOK(w) /\ pc[w] = "check" /\ ~Quiet
    BY DEF WorkerShape, CheckShutdown, WorkerOK
  <2>2. (shutdown # 0 <=> Stopping) /\ (Pooled <=> ~Stopping)
    <3>1. CASE Pooled
      BY <3>1 DEF PoolShape, Pooled, Stopping, StopPcs, JoinPcs, JobPcs, LoopPcs
    <3>2. CASE Stopping
      BY <3>2 DEF PoolShape, Pooled, Stopping, StopPcs, JoinPcs, JobPcs, LoopPcs, InitPcs,
         ShutdownPcs
    <3>. QED BY <2>1, <3>1, <3>2 DEF Quiet
  <2>. QED BY <1>1, <1>3, <2>1, <2>2 DEF WorkerOK, Quiet, Busy, LoopPcs, CheckShutdown, pool_vars,
           sem_vars
<1>5. JobCopies'
  BY <1>1, <1>3 DEF JobCopies, CheckShutdown, pool_vars, call_vars, claim_vars
<1>6. Barrier'
  BY <1>1, <1>3, BarrierFrame DEF CheckShutdown, Busy, LoopPcs, pool_vars, sem_vars, call_vars
<1>. QED BY <1>2, <1>3, <1>4, <1>5, <1>6 DEF WorkerShape

LEMMA LoadEpochSafe ==
    ASSUME BarrierInv, NEW w \in Workers, LoadEpoch(w)
    PROVE  BarrierInv'
<1>. USE DEF BarrierInv
<1>0. /\ Pooled /\ ~Stopping /\ ~Quiet /\ Posted(w) /\ ~Joined(w) /\ wake[w] = 0
      /\ seen[w] # epoch
  BY WorkingIsPooled DEF LoadEpoch
<1>1. PcOK' /\ pc'[w] = "snap" /\ \A q \in Participants \ {w} : pc'[q] = pc[q]
  BY <1>0, GotoMoves DEF LoadEpoch, TypeOK, WorkerPcs, LoopPcs
<1>2. /\ seen' \in [Workers -> 0 .. MaxJobs] /\ seen'[w] = epoch
      /\ \A v \in Workers \ {w} : seen'[v] = seen[v]
  BY <1>0 DEF LoadEpoch, TypeOK, PoolOK, ClaimOK
<1>3. TypeOK'
  BY <1>1, <1>2 DEF LoadEpoch, TypeOK, PoolOK, SemOK, CallOK, ClaimOK, pool_vars, sem_vars,
     call_vars,
     claim_vars
<1>4. /\ PoolShape' /\ pc'[0] = pc[0]
      /\ (Pooled' <=> Pooled) /\ (Stopping' <=> Stopping)
      /\ \A v : (Posted(v)' <=> Posted(v)) /\ (Joined(v)' <=> Joined(v))
      /\ \A v \in Workers \ {w} : WorkerOK(v)'
  BY <1>1, <1>2, WorkerStep DEF LoadEpoch, pool_vars, sem_vars
<1>5. EpochOrder'
  BY <1>2, <1>4 DEF EpochOrder, LoadEpoch, TypeOK, PoolOK, pool_vars, call_vars
<1>6. WorkerOK(w)'
  BY <1>0, <1>1, <1>2, <1>4 DEF WorkerOK, Quiet, LoadEpoch, pool_vars, sem_vars
<1>7. JobCopies'
  BY <1>1, <1>4 DEF JobCopies, LoadEpoch, pool_vars, call_vars, claim_vars
<1>8. Barrier'
  <2>1. Busy(w)'
    BY <1>1 DEF Busy, LoopPcs
  <2>. QED BY <1>0, <1>1, <1>2, <1>4, <2>1, BarrierFrame DEF LoadEpoch, pool_vars, sem_vars,
     call_vars
<1>. QED BY <1>3, <1>4, <1>5, <1>6, <1>7, <1>8 DEF WorkerShape

LEMMA RetireWorkerSafe ==
    ASSUME BarrierInv, NEW w \in Workers, RetireWorker(w)
    PROVE  BarrierInv'
<1>. USE DEF BarrierInv
<1>0. /\ Pooled /\ ~Stopping /\ ~Quiet /\ Posted(w) /\ ~Joined(w) /\ wake[w] = 0
      /\ seen[w] = epoch /\ w \in 1 .. worker_count /\ Busy(w)
  BY WorkingIsPooled DEF RetireWorker, Busy, LoopPcs
<1>1. /\ PcOK' /\ pc'[w] = (IF pending = 1 THEN "signal" ELSE "park")
      /\ \A q \in Participants \ {w} : pc'[q] = pc[q]
  BY GotoMoves DEF RetireWorker, TypeOK, WorkerPcs
<1>2. /\ w \in Unretired /\ pending = Cardinality(Unretired) /\ pending \in Nat
  BY <1>0 DEF Unretired, Barrier, TypeOK, PoolOK
<1>3. Cardinality(Unretired \ {w}) = pending - 1 /\ IsFiniteSet(Unretired \ {w}) /\ pending > 0
  <2>1. Cardinality(Unretired \ {w}) = pending - 1 /\ IsFiniteSet(Unretired \ {w})
    BY <1>2, UnretiredFinite, FS_RemoveElement
  <2>2. pending - 1 \in Nat
    BY <2>1, FS_CardinalityType
  <2>. QED BY <1>2, <2>1, <2>2
<1>4. TypeOK'
  <2>1. PoolOK'
    BY <1>3 DEF RetireWorker, TypeOK, PoolOK
  <2>2. SemOK' /\ CallOK' /\ ClaimOK' /\ (fatal \in BOOLEAN)'
    BY DEF RetireWorker, TypeOK, SemOK, CallOK, ClaimOK, sem_vars, call_vars, claim_vars
  <2>. QED BY <1>1, <2>1, <2>2 DEF TypeOK
<1>5. /\ PoolShape' /\ pc'[0] = pc[0] /\ EpochOrder'
      /\ (Pooled' <=> Pooled) /\ (Stopping' <=> Stopping)
      /\ \A v : (Posted(v)' <=> Posted(v)) /\ (Joined(v)' <=> Joined(v))
      /\ \A v \in Workers \ {w} : WorkerOK(v)'
  BY <1>1, WorkerStep DEF RetireWorker, sem_vars
<1>6. WorkerOK(w)'
  BY <1>0, <1>1, <1>5 DEF WorkerOK, Quiet, Busy, LoopPcs, RetireWorker, sem_vars
<1>7. JobCopies'
  BY <1>1, <1>5 DEF JobCopies, RetireWorker, call_vars, claim_vars
<1>8. Barrier'
  <2>1. ~Busy(w)'
    BY <1>1 DEF Busy, LoopPcs
  <2>2. Unretired' = Unretired \ {w}
    BY <1>0, <1>1, <1>5, <2>1 DEF Unretired, Busy, RetireWorker, TypeOK, PoolOK
  <2>3. done = 0 /\ \A v \in Workers : pc[v] # "signal"
    BY <1>3 DEF Barrier
  <2>4. pending = 1 => pc[0] = "await"
    <3>. SUFFICES ASSUME pending = 1 PROVE pc[0] = "await"
      OBVIOUS
    <3>1. Unretired \ {w} = {}
      BY <1>3, FS_EmptySet
    <3>. QED BY <3>1 DEF Unretired, TypeOK, PoolOK
  <2>5. pc[0] # "publish" /\ pc[0] # "clear" /\ pc[0] \notin {"inline", "inline_run"}
    BY <1>0 DEF Pooled, JobPcs, LoopPcs
  <2>6. ~InlinePath(worker_count', call'.chunks)
    BY <1>0 DEF Barrier, Pooled, RetireWorker, call_vars
  <2>7. Pooled' => pending' = Cardinality(Unretired')
    BY <1>3, <2>2 DEF RetireWorker
  <2>8. \A v \in Workers : pc'[v] = "signal" => v = w /\ pending = 1
    BY <1>1, <2>3
  <2>9. done' = 0 /\ pending' = pending - 1
    BY <2>3 DEF RetireWorker, sem_vars
  <2>. QED BY <1>2, <1>5, <2>4, <2>5, <2>6, <2>7, <2>8, <2>9 DEF Barrier
<1>. QED BY <1>4, <1>5, <1>6, <1>7, <1>8 DEF WorkerShape

LEMMA SignalDoneSafe ==
    ASSUME BarrierInv, NEW w \in Workers, SignalDone(w)
    PROVE  BarrierInv'
<1>. USE DEF BarrierInv
<1>0. /\ Pooled /\ ~Stopping /\ ~Quiet /\ Posted(w) /\ ~Joined(w) /\ wake[w] = 0
      /\ seen[w] = epoch
  BY WorkingIsPooled DEF SignalDone
<1>1. PcOK' /\ pc'[w] = "park" /\ \A q \in Participants \ {w} : pc'[q] = pc[q]
  BY GotoMoves DEF SignalDone, TypeOK, WorkerPcs
<1>2. /\ pc[0] = "await" /\ pending = 0 /\ done' = 1
      /\ \A v \in Workers \ {w} : pc[v] # "signal"
  BY DEF SignalDone, Barrier
<1>3. TypeOK'
  <2>1. SemOK'
    BY <1>2 DEF SignalDone, TypeOK, SemOK
  <2>2. PoolOK' /\ CallOK' /\ ClaimOK' /\ (fatal \in BOOLEAN)'
    BY DEF SignalDone, TypeOK, PoolOK, CallOK, ClaimOK, pool_vars, call_vars, claim_vars
  <2>. QED BY <1>1, <2>1, <2>2 DEF TypeOK
<1>4. /\ PoolShape' /\ pc'[0] = pc[0] /\ EpochOrder'
      /\ (Pooled' <=> Pooled) /\ (Stopping' <=> Stopping)
      /\ \A v : (Posted(v)' <=> Posted(v)) /\ (Joined(v)' <=> Joined(v))
      /\ \A v \in Workers \ {w} : WorkerOK(v)'
  BY <1>1, WorkerStep DEF SignalDone, pool_vars
<1>5. WorkerOK(w)'
  BY <1>0, <1>1, <1>4 DEF WorkerOK, Quiet, Busy, LoopPcs, SignalDone, pool_vars
<1>6. JobCopies'
  BY <1>1, <1>4 DEF JobCopies, SignalDone, pool_vars, call_vars, claim_vars
<1>7. Barrier'
  <2>1. ~Busy(w) /\ ~Busy(w)'
    BY <1>1 DEF SignalDone, Busy, LoopPcs
  <2>2. Unretired' = Unretired
    BY <1>0, <1>1, <1>4, <2>1 DEF Unretired, Busy, SignalDone, pool_vars, TypeOK, PoolOK
  <2>3. ~InlinePath(worker_count', call'.chunks)
    BY <1>0 DEF Barrier, Pooled, SignalDone, pool_vars, call_vars
  <2>4. \A v \in Workers : pc'[v] # "signal"
    BY <1>1, <1>2
  <2>. QED BY <1>0, <1>2, <1>4, <2>2, <2>3, <2>4 DEF Barrier, SignalDone, pool_vars
<1>. QED BY <1>3, <1>4, <1>5, <1>6, <1>7 DEF WorkerShape

-----------------------------------------------------------------------------
(* The invariant, and what follows from it.                                *)

LEMMA InitSafe == Init => BarrierInv
<1>. SUFFICES ASSUME Init PROVE BarrierInv
  OBVIOUS
<1>1. PcOK /\ pc[0] = "idle" /\ \A w \in Workers : pc[w] = "none"
  BY DEF Init, PcOK, MainPcs, MainIdle, WorkerPcs
<1>2. TypeOK
  <2>1. NoJob \in JobDescs /\ NoJob.chunks \in Nat
    BY JobDescFacts
  <2>2. PoolOK /\ fatal \in BOOLEAN
    <3>1. thread \in BOOLEAN /\ shuffle_on \in BOOLEAN /\ fatal \in BOOLEAN
      BY DEF Init
    <3>2. /\ worker_count \in 0 .. MaxWorkers /\ job \in JobDescs /\ epoch \in 0 .. MaxJobs
          /\ next_chunk \in 0 .. U32 - 1 /\ pending \in 0 .. MaxWorkers + 1
          /\ shutdown \in {0, 1} /\ in_job \in {0, 1}
      BY <2>1 DEF Init
    <3>. QED BY <3>1, <3>2 DEF PoolOK
  <2>3. SemOK /\ CallOK
    BY <2>1 DEF Init, SemOK, CallOK
  <2>4. ClaimOK
    BY <2>1 DEF Init, ClaimOK
  <2>. QED BY <1>1, <2>2, <2>3, <2>4 DEF TypeOK
<1>3. Quiet /\ ~Pooled /\ ~Stopping
  BY <1>1 DEF Quiet, Pooled, Stopping, JobPcs, LoopPcs, StopPcs, JoinPcs
<1>4. PoolShape /\ EpochOrder
  BY <1>1 DEF Init, PoolShape, EpochOrder, SemsOf, InitPcs, ShutdownPcs, Stopping, StopPcs, JoinPcs,
     SetupPcs, JobPcs, CallPcs, LoopPcs
<1>5. WorkerShape
  BY <1>1, <1>3 DEF Init, WorkerShape, WorkerOK, Joined
<1>6. JobCopies
  BY <1>1 DEF JobCopies, JobPcs, LoopPcs
<1>7. Barrier
  BY <1>1, <1>3 DEF Init, Barrier, SetupPcs, JobPcs, LoopPcs
<1>. QED BY <1>2, <1>4, <1>5, <1>6, <1>7 DEF BarrierInv

LEMMA NextSafe == BarrierInv /\ [Next]_vars => BarrierInv'
<1>. SUFFICES ASSUME BarrierInv, [Next]_vars PROVE BarrierInv'
  OBVIOUS
<1>1. CASE UNCHANGED vars
  <2>. USE <1>1 DEF BarrierInv, vars, pool_vars, sem_vars, call_vars, claim_vars
  <2>1. TypeOK'
    BY DEF TypeOK, PoolOK, SemOK, PcOK, CallOK, ClaimOK
  <2>2. PoolShape' /\ EpochOrder'
    BY PoolFrame, EpochFrame DEF MainStays
  <2>3. WorkerShape' /\ JobCopies'
    BY DEF WorkerShape, WorkerOK, Quiet, Pooled, Stopping, Posted, Joined, Busy, JobCopies
  <2>4. Barrier'
    <3>1. Unretired' = Unretired
      BY DEF Unretired, Busy
    <3>. QED BY <3>1 DEF Barrier, Pooled
  <2>. QED BY <2>1, <2>2, <2>3, <2>4
<1>2. CASE Client
  BY <1>2, JobsInitSafe, JobsShutdownSafe, ShuffleSetSafe, ParallelLevelsSafe DEF Client
<1>3. CASE Main
  <2>. 0 \in Participants
    OBVIOUS
  <2>1. CASE SemCreated \/ SemRefused \/ ThreadCreated \/ ThreadRefused \/ InitFailed \/ ShutDown
    BY <2>1, SemCreatedSafe, SemRefusedSafe, ThreadCreatedSafe, ThreadRefusedSafe, InitFailedSafe,
       ShutDownSafe
  <2>2. CASE StopPost("fail_post", "fail_join") \/ StopPost("down_post", "down_join")
    BY <2>2, StopPostSafe
  <2>3. CASE Join("fail_join") \/ Join("down_join")
    BY <2>3, JoinSafe
  <2>4. CASE \E a \in LevelArgs : EmptyLevel(a)
    BY <2>4, EmptyLevelSafe
  <2>5. CASE \E a \in LevelArgs, key \in Keys \cup {ShuffleOff} : EnterJob(a, key)
    BY <2>5, EnterJobSafe
  <2>6. CASE LevelsDone \/ InlineStart \/ InlineRun \/ WriteJob \/ ResetTickets \/ ArmBarrier
    BY <2>6, LevelsDoneSafe, InlineStartSafe, InlineRunSafe, WriteJobSafe, ResetTicketsSafe,
       ArmBarrierSafe
  <2>7. CASE PublishEpoch \/ PostWake \/ RetireMain \/ AwaitDone \/ Return
    BY <2>7, PublishEpochSafe, PostWakeSafe, RetireMainSafe, AwaitDoneSafe, ReturnSafe
  <2>8. CASE Snapshot(0) \/ Claim(0) \/ RunChunk(0)
    BY <2>8, SnapshotSafe, ClaimSafe, RunChunkSafe
  <2>. QED BY <1>3, <2>1, <2>2, <2>3, <2>4, <2>5, <2>6, <2>7, <2>8 DEF Main
<1>4. CASE \E w \in Workers : Worker(w)
  <2>. PICK w \in Workers : Worker(w)
    BY <1>4
  <2>1. w \in Participants
    OBVIOUS
  <2>. QED BY <2>1, WakeSafe, CheckShutdownSafe, LoadEpochSafe, SnapshotSafe, ClaimSafe,
     RunChunkSafe,
           RetireWorkerSafe, SignalDoneSafe DEF Worker
<1>5. CASE \E p \in Participants : NestedCall(p)
  BY <1>5, NestedCallSafe
<1>. QED BY <1>1, <1>2, <1>3, <1>4, <1>5 DEF Next, Running

\* The resources of the pool are in step with the calling thread, and the
\* participant count with the participants, for any number of workers, any
\* levels and any shuffle (jobs_init, parallel_for, jobs_worker_main).
THEOREM BarrierInvariant == Spec => []BarrierInv
<1>. QED BY InitSafe, NextSafe, PTL DEF Spec

\* Every field stays in its range: in particular pending never goes below
\* zero and no epoch passes the bound it is counted against.
THEOREM TypeCorrect == Spec => []TypeOK
<1>1. BarrierInv => TypeOK
  BY DEF BarrierInv
<1>. QED BY <1>1, BarrierInvariant, PTL

\* No worker works on anything but the call main is in: main may rewrite the
\* job and reset scratch without a lock (the RETIRE edge of parallel_for).
THEOREM QuietBetweenJobs == Spec => []QuietOutsideJob
<1>1. BarrierInv => QuietOutsideJob
  <2>. SUFFICES ASSUME BarrierInv, NEW w \in Workers, Busy(w)
       PROVE  pc[0] \in JobPcs /\ (pc[w] # "snap" => snap[w] = call)
    BY DEF QuietOutsideJob
  <2>1. pc[0] \in JobPcs
    BY WorkingIsPooled DEF Pooled
  <2>2. pc[w] # "snap" => snap[w] = call
    BY DEF BarrierInv, JobCopies, Busy, LoopPcs
  <2>. QED BY <2>1, <2>2
<1>. QED BY <1>1, BarrierInvariant, PTL

\* A done token is only ever there for the wait main is in.
THEOREM DoneTokenUsed == Spec => []DoneTokenIsForThisJob
<1>1. BarrierInv => DoneTokenIsForThisJob
  BY DEF BarrierInv, Barrier, DoneTokenIsForThisJob
<1>. QED BY <1>1, BarrierInvariant, PTL

\* The stale-post branch of jobs_worker_main is never taken.
THEOREM NoPostIsStale == Spec => []NoStalePost
<1>1. BarrierInv => NoStalePost
  BY WorkingIsPooled DEF NoStalePost
<1>. QED BY <1>1, BarrierInvariant, PTL

\* The nesting tripwire is set whenever a chunk function runs, on any thread.
THEOREM NestingCaught == Spec => []NestingIsCaught
<1>1. BarrierInv => NestingIsCaught
  <2>. SUFFICES ASSUME BarrierInv, NEW p \in Participants, pc[p] = "run" \/ pc[p] = "inline_run"
       PROVE  in_job = 1
    BY DEF NestingIsCaught
  <2>1. pc[p] = "inline_run" => p = 0
    BY DEF BarrierInv, TypeOK, PcOK, WorkerPcs, LoopPcs
  <2>2. pc[p] = "run" => Pooled
    BY WorkingIsPooled DEF Busy, LoopPcs, Pooled, JobPcs
  <2>. QED BY <2>1, <2>2 DEF BarrierInv, PoolShape, Pooled, CallPcs
<1>. QED BY <1>1, BarrierInvariant, PTL

\* No thread outlives its semaphores, and none of either outlives the pool.
THEOREM NothingLeaks == Spec => []NoOrphans
<1>1. BarrierInv => NoOrphans
  <2>. SUFFICES ASSUME BarrierInv PROVE NoOrphans
    OBVIOUS
  <2>. USE DEF BarrierInv
  <2>0. worker_count \in 0 .. MaxWorkers /\ started \in 0 .. MaxWorkers
    BY DEF TypeOK, PoolOK, CallOK
  <2>1. \A w \in Workers : pc[w] # "none" => w <= started
    BY <2>0 DEF WorkerShape, WorkerOK, Joined
  <2>2. started # 0 => started <= worker_count /\ sems = 0 .. worker_count
    <3>1. CASE pc[0] = "sem_create"
      BY <3>1 DEF PoolShape
    <3>2. CASE pc[0] = "thread_create"
      BY <2>0, <3>2 DEF PoolShape, SemsOf, TypeOK, CallOK
    <3>3. CASE pc[0] \in {"fail_post", "fail_join"}
      BY <2>0, <3>3 DEF PoolShape, SemsOf
    <3>4. CASE pc[0] \notin InitPcs
      BY <2>0, <3>4 DEF PoolShape, SemsOf, InitPcs
    <3>. QED BY <3>1, <3>2, <3>3, <3>4 DEF InitPcs
  <2>3. \A w \in Workers : pc[w] \notin {"none", "exited"} => {0, w} \subseteq sems
    BY <2>0, <2>1, <2>2
  <2>4. pc[0] \in JobPcs => sems = 0 .. worker_count /\ worker_count > 0
    BY DEF PoolShape, SemsOf, JobPcs, LoopPcs
  <2>5. ~thread => sems = {} /\ \A w \in Workers : pc[w] = "none"
    <3>. SUFFICES ASSUME ~thread PROVE sems = {} /\ \A w \in Workers : pc[w] = "none"
      OBVIOUS
    <3>1. worker_count = 0 /\ started = 0 /\ sems = {}
      BY DEF PoolShape, SemsOf, InitPcs
    <3>. QED BY <2>1, <3>1 DEF TypeOK
  <2>. QED BY <2>0, <2>3, <2>4, <2>5 DEF NoOrphans, JobPcs, LoopPcs
<1>. QED BY <1>1, BarrierInvariant, PTL

\* The five together: the pool is quiet between its jobs, tokens and posts are of the job
\* they are for, nesting is caught and nothing leaks (jobs.cpp).
THEOREM PoolIsSafe == Spec => []PoolInv
BY QuietBetweenJobs, DoneTokenUsed, NoPostIsStale, NestingCaught, NothingLeaks, PTL DEF PoolInv

-----------------------------------------------------------------------------
\* A shuffled ticket still stands for one chunk, and every chunk has a ticket.
LEMMA ChunkOfFacts ==
    ASSUME NEW d \in JobDescs
    PROVE  /\ \A t \in 0 .. d.chunks - 1 : ChunkOf(d, t) \in 0 .. d.chunks - 1
           /\ \A t, u \in 0 .. d.chunks - 1 : ChunkOf(d, t) = ChunkOf(d, u) => t = u
           /\ \A n \in 0 .. d.chunks - 1 : \E t \in 0 .. d.chunks - 1 : ChunkOf(d, t) = n
<1>1. CASE d.key = ShuffleOff
  BY <1>1 DEF ChunkOf
<1>2. CASE d.key # ShuffleOff /\ d.chunks \in ChunkCounts
  <2>1. d.key \in Keys
    BY <1>2 DEF JobDescs
  <2>2. \A t : ChunkOf(d, t) = Permute(t, d.chunks, d.key)
    BY <1>2 DEF ChunkOf
  <2>. QED BY <1>2, <2>1, <2>2, PermuteAssumption
<1>3. CASE d.chunks = 0
  BY <1>3
<1>. QED BY <1>1, <1>2, <1>3 DEF JobDescs

BusyIsPooled == \A p \in Participants : Busy(p) => Pooled

LEMMA RunningIsPooled == BarrierInv => BusyIsPooled
<1>. SUFFICES ASSUME BarrierInv, NEW p \in Participants, Busy(p) PROVE Pooled
  BY DEF BusyIsPooled
<1>1. CASE p = 0
  BY <1>1 DEF Busy, Pooled, JobPcs
<1>2. CASE p # 0
  BY <1>2, WorkingIsPooled
<1>. QED BY <1>1, <1>2

LEMMA RunningIsPooledNext == BarrierInv' => BusyIsPooled'
BY RunningIsPooled, PTL

-----------------------------------------------------------------------------
(* Parts of Progress.                                                      *)

RunsOf(t) == runs[ChunkOf(call, t)]
AtMostOnce == \A n \in DOMAIN runs : runs[n] <= 1
Counted == \A t \in 0 .. call.chunks - 1 : RunsOf(t) = IF Taken(t) THEN 1 ELSE 0
Fresh == \A t \in 0 .. call.chunks - 1 : RunsOf(t) = 0
Tickets ==
    /\ next_chunk <= call.chunks + Cardinality(Out)
    /\ Out # {} => next_chunk >= call.chunks
Running1 ==
    /\ \A p \in Participants : pc[p] = "run" => ticket[p] < next_chunk /\ ticket[p] < call.chunks
    /\ \A p, q \in Participants :
          pc[p] = "run" /\ pc[q] = "run" /\ ticket[p] = ticket[q] => p = q

ProgressByParts ==
    /\ pc[0] \in {"arm", "publish"} => next_chunk = 0
    /\ Pooled => Tickets
    /\ Running1
    /\ pc[0] = "inline_run" => ticket[0] < call.chunks
    /\ pc[0] \in CallPcs => Counted
    /\ AtMostOnce

LEMMA ProgressParts == Progress <=> ProgressByParts
BY DEF Progress, ProgressByParts, Tickets, Running1, Counted, RunsOf, AtMostOnce

LEMMA ProgressPartsNext == Progress' <=> ProgressByParts'
BY ProgressParts, PTL

\* What is counted by ticket bounds what is counted by chunk.
LEMMA CountedOnce ==
    ASSUME TypeOK, Counted
    PROVE  AtMostOnce
<1>. SUFFICES ASSUME NEW n \in DOMAIN runs PROVE runs[n] <= 1
  BY DEF AtMostOnce
<1>1. n \in 0 .. call.chunks - 1 /\ call \in JobDescs
  BY DEF TypeOK, ClaimOK, CallOK
<1>2. PICK t \in 0 .. call.chunks - 1 : ChunkOf(call, t) = n
  BY <1>1, ChunkOfFacts
<1>. QED BY <1>2 DEF Counted, RunsOf

LEMMA CountedOnceNext == TypeOK' /\ Counted' => AtMostOnce'
<1>1. TypeOK /\ Counted => AtMostOnce
  BY CountedOnce
<1>. QED BY <1>1, PTL

\* Outside the claim loop nobody runs a chunk of the pool.
LEMMA AtRest ==
    ASSUME BarrierInv', ~Pooled',
           pc'[0] \in {"arm", "publish"} => next_chunk' = 0,
           pc'[0] = "inline_run" => ticket'[0] < call'.chunks,
           pc'[0] \in CallPcs => Counted',
           AtMostOnce'
    PROVE  Progress'
<1>1. \A p \in Participants : pc'[p] # "run"
  BY RunningIsPooledNext DEF BusyIsPooled, Busy, LoopPcs
<1>2. Running1'
  BY <1>1 DEF Running1
<1>. QED BY <1>2, ProgressPartsNext DEF ProgressByParts

LEMMA AwayFromCall ==
    ASSUME Progress, BarrierInv', pc'[0] \notin CallPcs, UNCHANGED runs
    PROVE  Progress'
<1>1. AtMostOnce'
  BY ProgressParts DEF ProgressByParts, AtMostOnce
<1>. QED BY <1>1, AtRest DEF Pooled, CallPcs, SetupPcs

\* Before the first ticket is drawn no chunk has run.
BeforePcs == SetupPcs \cup {"inline"}

LEMMA BeforeTickets ==
    ASSUME BarrierInv', pc'[0] \in BeforePcs, Fresh',
           pc'[0] \in {"arm", "publish"} => next_chunk' = 0
    PROVE  Progress'
<1>1. ~Pooled' /\ \A t : ~Taken(t)'
  BY DEF BeforePcs, SetupPcs, Pooled, JobPcs, LoopPcs, Taken
<1>2. Counted'
  BY <1>1 DEF Counted, Fresh
<1>3. AtMostOnce'
  BY <1>2, CountedOnceNext DEF BarrierInv
<1>. QED BY <1>1, <1>2, <1>3, AtRest DEF BeforePcs, SetupPcs

LEMMA NoneBefore ==
    ASSUME Progress, pc[0] \in BeforePcs
    PROVE  Fresh
<1>1. \A t : ~Taken(t)
  BY DEF BeforePcs, SetupPcs, Pooled, JobPcs, LoopPcs, Taken
<1>. QED BY <1>1, ProgressParts DEF ProgressByParts, Counted, Fresh, BeforePcs, CallPcs

\* A step that draws and runs nothing, and moves nobody in or out.
LEMMA ProgressFrame ==
    ASSUME Progress, UNCHANGED <<next_chunk, ticket, runs, call>>,
           Pooled' <=> Pooled, Out' = Out,
           \A p \in Participants : pc'[p] = "run" <=> pc[p] = "run",
           pc'[0] \in {"arm", "publish"} => pc[0] \in {"arm", "publish"},
           pc'[0] \in CallPcs => pc[0] \in CallPcs,
           (pc'[0] = "inline_run" <=> pc[0] = "inline_run") /\ (pc'[0] = "clear" <=> pc[0] = "clear")
    PROVE  Progress'
<1>1. \A t : Taken(t)' <=> Taken(t)
  BY DEF Taken, Held
<1>2. Counted' <=> Counted
  BY <1>1 DEF Counted, RunsOf
<1>3. (Running1' <=> Running1) /\ (Tickets' <=> Tickets) /\ (AtMostOnce' <=> AtMostOnce)
  BY DEF Running1, Tickets, AtMostOnce
<1>. QED BY <1>2, <1>3, ProgressParts, ProgressPartsNext DEF ProgressByParts

-----------------------------------------------------------------------------
(* The calling thread outside the claim loop.                              *)

LEMMA AwayProgress ==
    ASSUME IInv, BarrierInv',
           \/ \E wc \in 0 .. MaxWorkers : JobsInit(wc)
           \/ SemCreated \/ SemRefused \/ ThreadCreated \/ ThreadRefused
           \/ JobsShutdown \/ StopPost("fail_post", "fail_join") \/ StopPost("down_post", "down_join")
           \/ Join("fail_join") \/ Join("down_join") \/ InitFailed \/ ShutDown
           \/ ShuffleSet \/ (\E m \in 1 .. MaxLevels : ParallelLevels(m))
           \/ (\E a \in LevelArgs : EmptyLevel(a)) \/ LevelsDone \/ Return
    PROVE  Progress'
<1>1. UNCHANGED runs
  BY DEF JobsInit, SemCreated, SemRefused, ThreadCreated, ThreadRefused, JobsShutdown, StopPost,
     Join, InitFailed, ShutDown, ShuffleSet, ParallelLevels, EmptyLevel, LevelsDone, Return, claim_vars
<1>2. pc \in [Participants -> WorkerPcs \cup MainPcs]
  BY DEF IInv, BarrierInv, TypeOK, PcOK
<1>3. pc'[0] \notin CallPcs
  <2>1. CASE \/ \E wc \in 0 .. MaxWorkers : JobsInit(wc)
             \/ SemCreated \/ SemRefused \/ ThreadRefused \/ JobsShutdown
             \/ StopPost("fail_post", "fail_join") \/ StopPost("down_post", "down_join")
             \/ InitFailed \/ ShutDown
    BY <1>2, <2>1 DEF JobsInit, SemCreated, SemRefused, ThreadRefused, JobsShutdown, StopPost,
       InitFailed, ShutDown, Goto, CallPcs, SetupPcs, JobPcs, LoopPcs
  <2>2. CASE \/ ShuffleSet \/ (\E m \in 1 .. MaxLevels : ParallelLevels(m))
             \/ (\E a \in LevelArgs : EmptyLevel(a)) \/ LevelsDone \/ Return
    BY <1>2, <2>2 DEF ShuffleSet, ParallelLevels, EmptyLevel, LevelsDone, Return, Goto, CallPcs,
       SetupPcs, JobPcs, LoopPcs
  <2>3. CASE ThreadCreated
    <3>1. k # 0 /\ k \in Participants
      BY <2>3 DEF ThreadCreated, IInv, BarrierInv, PoolShape, TypeOK, PoolOK, CallOK
    <3>. QED BY <1>2, <2>3, <3>1 DEF ThreadCreated, CallPcs, SetupPcs, JobPcs, LoopPcs
  <2>4. CASE Join("fail_join") \/ Join("down_join")
    <3>1. k # 0
      BY <2>4 DEF Join, IInv, BarrierInv, PoolShape, Stopping, StopPcs, JoinPcs, TypeOK, CallOK
    <3>. QED BY <1>2, <2>4, <3>1 DEF Join, Goto, CallPcs, SetupPcs, JobPcs, LoopPcs
  <2>. QED BY <2>1, <2>2, <2>3, <2>4
<1>. QED BY <1>1, <1>3, AwayFromCall DEF IInv

LEMMA EnterJobProgress ==
    ASSUME IInv, BarrierInv', NEW a \in LevelArgs, NEW key \in Keys \cup {ShuffleOff}, EnterJob(a, key)
    PROVE  Progress'
<1>1. pc'[0] \in {"inline", "write"}
  BY DEF EnterJob, Goto, IInv, BarrierInv, TypeOK, PcOK
<1>2. call' \in JobDescs /\ runs' = [n \in 0 .. call'.chunks - 1 |-> 0]
  BY JobDescFacts DEF EnterJob
<1>3. Fresh'
  <2>. DEFINE c == call'.chunks
  <2>1. \A t \in 0 .. c - 1 : ChunkOf(call', t) \in 0 .. c - 1
    BY <1>2, ChunkOfFacts
  <2>. QED BY <1>2, <2>1 DEF Fresh, RunsOf, ChunkOf
<1>. QED BY <1>1, <1>3, BeforeTickets DEF BeforePcs, SetupPcs

LEMMA SetUpProgress ==
    ASSUME IInv, BarrierInv', WriteJob \/ ResetTickets \/ ArmBarrier
    PROVE  Progress'
<1>1. /\ pc[0] \in BeforePcs /\ pc'[0] \in {"reset", "arm", "publish"}
      /\ pc'[0] \in {"arm", "publish"} => next_chunk' = 0
      /\ UNCHANGED <<runs, call>>
  BY DEF WriteJob, ResetTickets, ArmBarrier, Goto, IInv, BarrierInv, TypeOK, PcOK, BeforePcs,
     SetupPcs, claim_vars, call_vars, Progress
<1>2. Fresh'
  BY <1>1, NoneBefore DEF Fresh, RunsOf, IInv
<1>. QED BY <1>1, <1>2, BeforeTickets DEF BeforePcs, SetupPcs

LEMMA InlineStartProgress ==
    ASSUME IInv, BarrierInv', InlineStart
    PROVE  Progress'
<1>1. pc[0] = "inline" /\ pc'[0] = "inline_run" /\ ticket'[0] = 0 /\ UNCHANGED <<runs, call>>
  BY DEF InlineStart, Goto, IInv, BarrierInv, TypeOK, PcOK, ClaimOK, call_vars
<1>2. Fresh
  BY <1>1, NoneBefore DEF IInv, BeforePcs
<1>3. ~Pooled' /\ \A t \in Nat : ~Taken(t)'
  BY <1>1 DEF Pooled, JobPcs, LoopPcs, Taken
<1>4. call.chunks \in Nat /\ call.chunks > 0
  BY <1>1, JobDescFacts DEF IInv, BarrierInv, TypeOK, CallOK, PoolShape, CallPcs
<1>5. Counted'
  BY <1>1, <1>2, <1>3, <1>4 DEF Counted, Fresh, RunsOf
<1>6. AtMostOnce'
  BY <1>5, CountedOnceNext DEF BarrierInv
<1>. QED BY <1>1, <1>3, <1>4, <1>5, <1>6, AtRest

\* Running the chunk of one ticket counts for no other ticket.
LEMMA TicketRun ==
    ASSUME TypeOK, NEW u \in 0 .. call.chunks - 1, UNCHANGED call,
           runs' = [runs EXCEPT ![ChunkOf(call, u)] = @ + 1],
           NEW t \in 0 .. call.chunks - 1
    PROVE  RunsOf(t)' = IF t = u THEN RunsOf(t) + 1 ELSE RunsOf(t)
<1>. DEFINE ct == ChunkOf(call, t)
            cu == ChunkOf(call, u)
<1>1. call \in JobDescs /\ runs \in [0 .. call.chunks - 1 -> Nat]
  BY DEF TypeOK, CallOK, ClaimOK
<1>2. ct \in 0 .. call.chunks - 1 /\ (ct = cu <=> t = u)
  BY <1>1, ChunkOfFacts
<1>3. RunsOf(t) = runs[ct] /\ RunsOf(t)' = runs'[ct]
  BY DEF RunsOf, ChunkOf
<1>. HIDE DEF ct, cu
<1>4. runs' = [runs EXCEPT ![cu] = @ + 1]
  BY DEF cu
<1>. QED BY <1>1, <1>2, <1>3, <1>4

LEMMA InlineRunProgress ==
    ASSUME IInv, BarrierInv', InlineRun
    PROVE  Progress'
<1>. DEFINE u == ticket[0]
            last == ~(u + 1 < call.chunks)
<1>1. /\ pc[0] = "inline_run" /\ pc'[0] = (IF last THEN "clear" ELSE "inline_run")
      /\ u \in Nat /\ ticket'[0] = u + 1 /\ call' = call
      /\ runs' = [runs EXCEPT ![ChunkOf(call, u)] = @ + 1]
  BY DEF InlineRun, RunTicket, Goto, IInv, BarrierInv, TypeOK, PcOK, ClaimOK, call_vars
<1>2. /\ call \in JobDescs /\ call.chunks \in Nat /\ u < call.chunks
      /\ runs \in [0 .. call.chunks - 1 -> Nat]
  BY <1>1, JobDescFacts DEF IInv, Progress, BarrierInv, TypeOK, CallOK, ClaimOK
<1>3. Counted
  BY <1>1, ProgressParts DEF IInv, ProgressByParts, CallPcs
<1>4. \A t \in 0 .. call.chunks - 1 : Taken(t) <=> t < u
  BY <1>1 DEF Taken, Pooled, JobPcs, LoopPcs
<1>5. \A t \in 0 .. call.chunks - 1 : Taken(t)' <=> t < u + 1
  BY <1>1, <1>2 DEF Taken, Pooled, JobPcs, LoopPcs
<1>6. \A t \in 0 .. call.chunks - 1 : RunsOf(t)' = IF t = u THEN RunsOf(t) + 1 ELSE RunsOf(t)
  <2>1. TypeOK /\ UNCHANGED call /\ u \in 0 .. call.chunks - 1
    BY <1>1, <1>2 DEF IInv, BarrierInv
  <2>2. runs' = [runs EXCEPT ![ChunkOf(call, u)] = @ + 1]
    BY <1>1
  <2>. QED BY <2>1, <2>2, TicketRun
<1>7. Counted'
  BY <1>1, <1>2, <1>3, <1>4, <1>5, <1>6 DEF Counted
<1>8. AtMostOnce'
  BY <1>7, CountedOnceNext DEF BarrierInv
<1>9. ~Pooled' /\ pc'[0] \notin {"arm", "publish"} /\ (pc'[0] = "inline_run" => ticket'[0] < call'.chunks)
  BY <1>1 DEF Pooled, JobPcs, LoopPcs
<1>. QED BY <1>7, <1>8, <1>9, AtRest

\* The epoch moves: nobody has drawn a ticket of it.
LEMMA PublishProgress ==
    ASSUME IInv, BarrierInv', PublishEpoch
    PROVE  Progress'
<1>1. /\ pc[0] = "publish" /\ pc'[0] = "post" /\ \A w \in Workers : pc'[w] = pc[w]
      /\ UNCHANGED <<runs, call, next_chunk, worker_count, seen, ticket>>
  BY DEF PublishEpoch, Goto, IInv, BarrierInv, TypeOK, PcOK, call_vars, claim_vars
<1>2. next_chunk = 0 /\ call.chunks \in Nat
  BY <1>1, JobDescFacts DEF IInv, Progress, BarrierInv, TypeOK, CallOK
<1>3. \A w \in 1 .. worker_count : seen'[w] # epoch'
  <2>1. \A w \in 1 .. worker_count : w \in Workers /\ w <= started
    BY <1>1 DEF IInv, BarrierInv, TypeOK, PoolOK, PoolShape, InitPcs
  <2>2. epoch' = epoch + 1 /\ epoch \in Nat /\ \A w \in Workers : seen[w] \in Nat
    BY <1>1 DEF PublishEpoch, IInv, BarrierInv, EpochOrder, SetupPcs, TypeOK, PoolOK, ClaimOK
  <2>. QED BY <1>1, <2>1, <2>2 DEF IInv, BarrierInv, EpochOrder
<1>4. Out' = {}
  BY <1>1, <1>3 DEF Out, IInv, BarrierInv, TypeOK, PoolOK
<1>5. Tickets'
  BY <1>1, <1>2, <1>4, FS_EmptySet DEF Tickets
<1>6. \A p \in Participants : pc'[p] # "run"
  BY <1>1, RunningIsPooled DEF BusyIsPooled, Busy, LoopPcs, Pooled, JobPcs, IInv
<1>7. Running1'
  BY <1>6 DEF Running1
<1>8. Fresh
  BY <1>1, NoneBefore DEF IInv, BeforePcs, SetupPcs
<1>9. \A t \in 0 .. call.chunks - 1 : ~Taken(t)'
  BY <1>1, <1>2 DEF Taken
<1>10. Counted'
  BY <1>1, <1>8, <1>9 DEF Counted, Fresh, RunsOf
<1>11. AtMostOnce'
  BY <1>10, CountedOnceNext DEF BarrierInv
<1>. QED BY <1>1, <1>5, <1>7, <1>10, <1>11, ProgressPartsNext DEF ProgressByParts

-----------------------------------------------------------------------------
(* The claim loop.                                                         *)

LEMMA OutFinite ==
    ASSUME TypeOK
    PROVE  /\ IsFiniteSet(Out) /\ Cardinality(Out) \in Nat
           /\ \A p \in 0 .. worker_count : p \notin Out =>
                 /\ Cardinality(Out) <= worker_count
                 /\ Cardinality(Out \cup {p}) = Cardinality(Out) + 1
<1>1. /\ IsFiniteSet(0 .. worker_count) /\ Cardinality(0 .. worker_count) = worker_count + 1
      /\ worker_count \in Nat
  BY FS_Interval DEF TypeOK, PoolOK
<1>2. Out \subseteq 0 .. worker_count
  BY DEF Out
<1>3. IsFiniteSet(Out) /\ Cardinality(Out) \in Nat
  BY <1>1, <1>2, FS_Subset, FS_CardinalityType
<1>4. ASSUME NEW p \in 0 .. worker_count, p \notin Out
      PROVE  Cardinality(Out) <= worker_count /\ Cardinality(Out \cup {p}) = Cardinality(Out) + 1
  <2>. DEFINE All == 0 .. worker_count
              Others == All \ {p}
  <2>0. IsFiniteSet(All) /\ Cardinality(All) = worker_count + 1 /\ p \in All
    BY <1>1
  <2>. HIDE DEF All
  <2>1. IsFiniteSet(Others) /\ Cardinality(Others) = Cardinality(All) - 1
    BY <2>0, FS_RemoveElement
  <2>2. Out \subseteq Others
    BY <1>2, <1>4 DEF All
  <2>3. Cardinality(Out) <= Cardinality(Others)
    BY <2>1, <2>2, FS_Subset
  <2>4. Cardinality(Out \cup {p}) = Cardinality(Out) + 1
    BY <1>3, <1>4, FS_AddElement
  <2>. QED BY <1>1, <1>3, <2>0, <2>1, <2>3, <2>4
<1>. QED BY <1>3, <1>4

\* A participant in the loop is one of the pool's, has the call's job, and is not out.
LEMMA InLoop ==
    ASSUME IInv, NEW p \in Participants, pc[p] \in {"claim", "run"}
    PROVE  /\ Pooled /\ p \in 0 .. worker_count /\ p \notin Out
           /\ snap[p] = call /\ (p # 0 => seen[p] = epoch)
           /\ call \in JobDescs /\ call.chunks \in ChunkCounts
           /\ call.chunks \in Nat /\ next_chunk \in Nat /\ worker_count \in 0 .. MaxWorkers
           /\ Tickets /\ Running1 /\ Counted
<1>. USE DEF IInv
<1>1. Busy(p) /\ Pooled /\ pc[0] \in CallPcs
  BY RunningIsPooled DEF BusyIsPooled, Busy, LoopPcs, Pooled, CallPcs
<1>2. p # 0 => p \in 1 .. worker_count /\ seen[p] = epoch
  BY <1>1, WorkingIsPooled
<1>3. worker_count \in 0 .. MaxWorkers /\ next_chunk \in Nat /\ call \in JobDescs
  BY DEF BarrierInv, TypeOK, PoolOK, CallOK
<1>4. call.chunks > 0 /\ call.chunks \in ChunkCounts /\ call.chunks \in Nat
  BY <1>1, <1>3, JobDescFacts DEF BarrierInv, PoolShape, JobDescs
<1>5. snap[p] = call
  BY DEF BarrierInv, JobCopies
<1>6. p \notin Out
  BY DEF Out
<1>. QED BY <1>1, <1>2, <1>3, <1>4, <1>5, <1>6, ProgressParts DEF ProgressByParts

LEMMA SnapshotProgress ==
    ASSUME IInv, BarrierInv', NEW p \in Participants, Snapshot(p)
    PROVE  Progress'
<1>1. /\ pc[p] = "snap" /\ pc'[p] = "claim" /\ \A q \in Participants \ {p} : pc'[q] = pc[q]
      /\ UNCHANGED <<next_chunk, ticket, runs, call, seen, epoch, worker_count>>
  BY DEF Snapshot, Goto, IInv, BarrierInv, TypeOK, PcOK, pool_vars, call_vars
<1>2. Out' = Out
  BY <1>1 DEF Out, IInv, BarrierInv, TypeOK, PoolOK
<1>3. Pooled' <=> Pooled
  BY <1>1 DEF Pooled, JobPcs, LoopPcs
<1>4. pc'[0] = pc[0] \/ (pc[0] = "snap" /\ pc'[0] = "claim")
  BY <1>1
<1>. QED BY <1>1, <1>2, <1>3, <1>4, ProgressFrame DEF IInv, CallPcs, JobPcs, LoopPcs

\* A ticket is drawn: it is nobody else's, and the counter does not wrap.
LEMMA ClaimProgress ==
    ASSUME IInv, BarrierInv', NEW p \in Participants, Claim(p)
    PROVE  Progress'
<1>. DEFINE n == next_chunk
            c == call.chunks
<1>1. /\ pc[p] = "claim" /\ \A q \in Participants \ {p} : pc'[q] = pc[q]
      /\ pc'[p] = IF n >= snap[p].chunks THEN "retire" ELSE "run"
      /\ UNCHANGED <<runs, call, seen, epoch, worker_count>>
      /\ ticket'[p] = n /\ \A q \in Participants \ {p} : ticket'[q] = ticket[q]
  BY DEF Claim, Goto, IInv, BarrierInv, TypeOK, PcOK, ClaimOK, call_vars
<1>2. /\ Pooled /\ p \in 0 .. worker_count /\ p \notin Out /\ snap[p] = call /\ (p # 0 => seen[p] = epoch)
      /\ c \in ChunkCounts /\ c \in Nat /\ n \in Nat /\ worker_count \in 0 .. MaxWorkers
      /\ Tickets /\ Running1 /\ Counted
  BY <1>1, InLoop
<1>3. /\ Cardinality(Out) \in Nat /\ Cardinality(Out) <= worker_count
      /\ Cardinality(Out \cup {p}) = Cardinality(Out) + 1
  BY <1>2, OutFinite DEF IInv, BarrierInv
<1>4. next_chunk' = n + 1
  <2>1. n + 1 < U32
    BY <1>2, <1>3, NoTicketWrap DEF Tickets
  <2>. QED BY <1>2, <2>1 DEF Claim, NextTicket
<1>5. pc'[0] = pc[0] \/ (pc[0] = "claim" /\ pc'[0] \in {"retire", "run"})
  BY <1>1
<1>6. Pooled' /\ pc'[0] \notin {"arm", "publish", "inline_run", "clear"}
  BY <1>2, <1>5 DEF Pooled, JobPcs, LoopPcs
<1>7. CASE n >= c
  <2>1. pc'[p] = "retire"
    BY <1>1, <1>2, <1>7
  <2>2. Out' = Out \cup {p}
    BY <1>1, <1>2, <2>1 DEF Out
  <2>3. Tickets'
    BY <1>1, <1>2, <1>3, <1>4, <1>7, <2>2 DEF Tickets
  <2>4. \A q \in Participants : pc'[q] = "run" <=> pc[q] = "run" /\ q # p
    BY <1>1, <2>1
  <2>5. Running1'
    <3>1. \A q \in Participants : ticket[q] \in Nat
      BY DEF IInv, BarrierInv, TypeOK, ClaimOK
    <3>. QED BY <1>1, <1>2, <1>4, <2>4, <3>1 DEF Running1
  <2>6. \A t \in 0 .. c - 1 : Held(t)' <=> Held(t)
    BY <1>1, <2>4 DEF Held
  <2>7. \A t \in 0 .. c - 1 : Taken(t)' <=> Taken(t)
    BY <1>2, <1>4, <1>5, <1>6, <1>7, <2>6 DEF Taken, Pooled, JobPcs, LoopPcs
  <2>8. Counted'
    BY <1>1, <1>2, <2>7 DEF Counted, RunsOf
  <2>. QED BY <1>6, <2>3, <2>5, <2>8, CountedOnceNext, ProgressPartsNext DEF ProgressByParts, BarrierInv
<1>8. CASE n < c
  <2>1. pc'[p] = "run"
    BY <1>1, <1>2, <1>8
  <2>2. Out = {} /\ Out' = {}
    BY <1>1, <1>2, <1>8, <2>1 DEF Out, Tickets
  <2>3. Tickets'
    BY <1>1, <1>2, <1>4, <1>8, <2>2, FS_EmptySet DEF Tickets
  <2>4. \A q \in Participants : pc'[q] = "run" <=> pc[q] = "run" \/ q = p
    BY <1>1, <2>1
  <2>5. \A q \in Participants : ticket[q] \in Nat
    BY DEF IInv, BarrierInv, TypeOK, ClaimOK
  <2>6. Running1'
    BY <1>1, <1>2, <1>4, <1>8, <2>4, <2>5 DEF Running1
  <2>7. \A t \in 0 .. c - 1 : Held(t)' <=> Held(t) \/ t = n
    BY <1>1, <2>4 DEF Held
  <2>8. \A t \in 0 .. c - 1 : Taken(t)' <=> Taken(t)
    BY <1>2, <1>4, <1>5, <1>6, <2>7 DEF Taken, Pooled, JobPcs, LoopPcs
  <2>9. Counted'
    BY <1>1, <1>2, <2>8 DEF Counted, RunsOf
  <2>. QED BY <1>6, <2>3, <2>6, <2>9, CountedOnceNext, ProgressPartsNext DEF ProgressByParts, BarrierInv
<1>. QED BY <1>2, <1>7, <1>8

\* The chunk of a ticket runs: the ticket was held by this participant alone.
LEMMA RunChunkProgress ==
    ASSUME IInv, BarrierInv', NEW p \in Participants, RunChunk(p)
    PROVE  Progress'
<1>. DEFINE u == ticket[p]
            c == call.chunks
<1>1. /\ pc[p] = "run" /\ pc'[p] = "claim" /\ \A q \in Participants \ {p} : pc'[q] = pc[q]
      /\ UNCHANGED <<next_chunk, ticket, call, seen, epoch, worker_count>>
  BY DEF RunChunk, Goto, IInv, BarrierInv, TypeOK, PcOK, pool_vars, call_vars
<1>2. /\ Pooled /\ p \in 0 .. worker_count /\ snap[p] = call /\ c \in Nat /\ next_chunk \in Nat
      /\ Tickets /\ Running1 /\ Counted
  BY <1>1, InLoop
<1>3. u \in 0 .. c - 1 /\ u < next_chunk
  BY <1>1, <1>2 DEF Running1, IInv, BarrierInv, TypeOK, ClaimOK
<1>4. runs' = [runs EXCEPT ![ChunkOf(call, u)] = @ + 1]
  BY <1>2 DEF RunChunk, RunTicket
<1>5. \A t \in 0 .. c - 1 : RunsOf(t)' = IF t = u THEN RunsOf(t) + 1 ELSE RunsOf(t)
  BY <1>1, <1>3, <1>4, TicketRun DEF IInv, BarrierInv
<1>6. \A q \in Participants : pc'[q] = "run" <=> pc[q] = "run" /\ q # p
  BY <1>1
<1>7. pc'[0] = pc[0] \/ (pc[0] = "run" /\ pc'[0] = "claim")
  BY <1>1
<1>8. Pooled' /\ pc'[0] \notin {"arm", "publish", "inline_run", "clear"} /\ pc[0] \notin {"inline_run", "clear"}
  BY <1>2, <1>7 DEF Pooled, JobPcs, LoopPcs
<1>9. Out' = Out
  BY <1>1 DEF Out, IInv, BarrierInv, TypeOK, PoolOK
<1>10. Tickets' /\ Running1'
  BY <1>1, <1>2, <1>6, <1>9 DEF Tickets, Running1
<1>11. \A t \in 0 .. c - 1 : Held(t)' <=> Held(t) /\ t # u
  BY <1>1, <1>2, <1>6 DEF Held, Running1
<1>12. Held(u)
  BY <1>1 DEF Held
<1>13. \A t \in 0 .. c - 1 : Taken(t)' <=> Taken(t) \/ t = u
  BY <1>1, <1>2, <1>3, <1>8, <1>11 DEF Taken
<1>14. ~Taken(u)
  BY <1>8, <1>12 DEF Taken
<1>15. Counted'
  BY <1>1, <1>2, <1>3, <1>5, <1>13, <1>14 DEF Counted
<1>. QED BY <1>8, <1>10, <1>15, CountedOnceNext, ProgressPartsNext DEF ProgressByParts, BarrierInv

-----------------------------------------------------------------------------
(* What wakes and retires the participants draws and runs nothing.         *)

LEMMA PostWakeProgress ==
    ASSUME IInv, BarrierInv', PostWake
    PROVE  Progress'
<1>1. /\ pc[0] = "post" /\ pc'[0] \in {"post", "snap"} /\ \A w \in Workers : pc'[w] = pc[w]
      /\ UNCHANGED <<next_chunk, ticket, runs, call, seen, epoch, worker_count>>
  BY DEF PostWake, Goto, IInv, BarrierInv, TypeOK, PcOK, pool_vars, call_vars, claim_vars
<1>2. Out' = Out
  BY <1>1 DEF Out, IInv, BarrierInv, TypeOK, PoolOK
<1>3. Pooled /\ Pooled' /\ pc[0] \in CallPcs
  BY <1>1 DEF Pooled, JobPcs, LoopPcs, CallPcs
<1>4. \A p \in Participants : pc'[p] = "run" <=> pc[p] = "run"
  BY <1>1
<1>. QED BY <1>1, <1>2, <1>3, <1>4, ProgressFrame DEF IInv

\* A worker's step outside the claim loop.
LEMMA WorkerProgress ==
    ASSUME IInv, BarrierInv', NEW w \in Workers,
           Wake(w) \/ CheckShutdown(w) \/ LoadEpoch(w) \/ RetireWorker(w) \/ SignalDone(w)
    PROVE  Progress'
<1>0. /\ pc[w] \in {"park", "check", "load", "retire", "signal"} /\ w # 0
      /\ worker_count \in Nat
  BY DEF Wake, CheckShutdown, LoadEpoch, RetireWorker, SignalDone, IInv, BarrierInv, TypeOK, PoolOK
<1>1. /\ pc'[w] # "run" /\ \A q \in Participants \ {w} : pc'[q] = pc[q]
      /\ UNCHANGED <<next_chunk, ticket, runs, call, epoch, worker_count>>
  BY DEF Wake, CheckShutdown, LoadEpoch, RetireWorker, SignalDone, Goto, IInv, BarrierInv, TypeOK,
     PcOK, pool_vars, call_vars, claim_vars
<1>2. \A v \in Workers \ {w} : seen'[v] = seen[v]
  BY DEF Wake, CheckShutdown, LoadEpoch, RetireWorker, SignalDone, IInv, BarrierInv, TypeOK, ClaimOK
<1>3. WorkerOK(w) /\ pc[w] \in WorkerPcs
  BY DEF IInv, BarrierInv, WorkerShape, TypeOK, PcOK
<1>4. pc'[0] = pc[0] /\ (Pooled' <=> Pooled)
  BY <1>0, <1>1 DEF Pooled
<1>5. Pooled => (w \in Out' <=> w \in Out)
  <2>. SUFFICES ASSUME Pooled, w <= worker_count
       PROVE  /\ seen'[w] = epoch' /\ pc'[w] \in {"retire", "signal", "park"}
              <=> seen[w] = epoch /\ pc[w] \in {"retire", "signal", "park"}
    BY <1>0, <1>1 DEF Out
  <2>1. CASE Wake(w)
    <3>1. seen[w] # epoch /\ seen'[w] = seen[w]
      BY <1>3, <2>1 DEF Wake, WorkerOK, WakeSem
    <3>. QED BY <1>1, <3>1
  <2>2. CASE CheckShutdown(w)
    <3>1. seen[w] # epoch /\ seen'[w] = seen[w]
      BY <1>3, <2>2 DEF CheckShutdown, WorkerOK
    <3>. QED BY <1>1, <3>1
  <2>3. CASE LoadEpoch(w)
    <3>1. pc[w] = "load" /\ seen[w] # epoch
      BY <1>3, <2>3 DEF LoadEpoch, WorkerOK
    <3>2. pc'[w] = "snap"
      BY <2>3, <3>1 DEF LoadEpoch, Goto, IInv, BarrierInv, TypeOK, PcOK
    <3>. QED BY <3>1, <3>2
  <2>4. CASE RetireWorker(w)
    <3>1. pc[w] = "retire" /\ pc'[w] \in {"signal", "park"} /\ seen'[w] = seen[w]
      BY <2>4 DEF RetireWorker, Goto, IInv, BarrierInv, TypeOK, PcOK
    <3>. QED BY <1>1, <3>1
  <2>5. CASE SignalDone(w)
    <3>1. pc[w] = "signal" /\ pc'[w] = "park" /\ seen'[w] = seen[w]
      BY <2>5 DEF SignalDone, Goto, IInv, BarrierInv, TypeOK, PcOK
    <3>. QED BY <1>1, <3>1
  <2>. QED BY <2>1, <2>2, <2>3, <2>4, <2>5
<1>6. \A p \in Participants : pc'[p] = "run" <=> pc[p] = "run"
  BY <1>0, <1>1
<1>7. CASE Pooled
  <2>1. Out' = Out
    <3>1. \A p \in (0 .. worker_count) \ {w} : p \in Out' <=> p \in Out
      BY <1>0, <1>1, <1>2, <1>4 DEF Out, IInv, BarrierInv, TypeOK, PoolOK
    <3>2. Out \subseteq 0 .. worker_count /\ Out' \subseteq 0 .. worker_count
      BY <1>1 DEF Out
    <3>3. \A p : p \in Out' <=> p \in Out
      <4>. TAKE p
      <4>1. CASE p = w
        BY <1>5, <1>7, <4>1
      <4>2. CASE p # w
        BY <3>1, <3>2, <4>2
      <4>. QED BY <4>1, <4>2
    <3>. HIDE DEF Out
    <3>. QED BY <3>3
  <2>. QED BY <1>1, <1>4, <1>6, <2>1, ProgressFrame DEF IInv
<1>8. CASE ~Pooled
  <2>1. \A t : Taken(t)' <=> Taken(t)
    BY <1>1, <1>4, <1>8 DEF Taken
  <2>2. Counted' <=> Counted
    BY <1>1, <2>1 DEF Counted, RunsOf
  <2>3. AtMostOnce' <=> AtMostOnce
    BY <1>1 DEF AtMostOnce
  <2>. QED BY <1>1, <1>4, <1>8, <2>2, <2>3, ProgressParts, AtRest DEF IInv, ProgressByParts
<1>. QED BY <1>7, <1>8

\* The barrier opens: every ticket of the call has been drawn and run.
LEMMA OpensProgress ==
    ASSUME IInv, BarrierInv', Pooled, pc'[0] = "clear", UNCHANGED <<runs, call>>,
           0 \in Out, \A p \in Participants : pc[p] # "run"
    PROVE  Progress'
<1>1. call.chunks \in Nat /\ next_chunk \in Nat /\ pc[0] \in CallPcs
  BY JobDescFacts DEF IInv, BarrierInv, TypeOK, CallOK, PoolOK, Pooled, CallPcs
<1>2. next_chunk >= call.chunks
  BY ProgressParts DEF IInv, ProgressByParts, Tickets
<1>3. \A t \in 0 .. call.chunks - 1 : Taken(t) /\ Taken(t)'
  BY <1>1, <1>2 DEF Taken, Held
<1>4. Counted'
  BY <1>1, <1>3, ProgressParts DEF Counted, RunsOf, IInv, ProgressByParts
<1>5. AtMostOnce'
  BY <1>4, CountedOnceNext DEF BarrierInv
<1>. QED BY <1>4, <1>5, AtRest DEF Pooled, JobPcs, LoopPcs

LEMMA RetireMainProgress ==
    ASSUME IInv, BarrierInv', RetireMain
    PROVE  Progress'
<1>1. /\ pc[0] = "retire" /\ pc'[0] = (IF pending = 1 THEN "clear" ELSE "await")
      /\ \A w \in Workers : pc'[w] = pc[w]
      /\ UNCHANGED <<next_chunk, ticket, runs, call, seen, epoch, worker_count>>
  BY DEF RetireMain, Goto, IInv, BarrierInv, TypeOK, PcOK, call_vars, claim_vars
<1>2. Pooled /\ 0 \in Out
  BY <1>1 DEF Pooled, JobPcs, LoopPcs, Out, IInv, BarrierInv, TypeOK, PoolOK
<1>3. CASE pending = 1
  <2>1. ~Pooled'
    BY <1>1, <1>3 DEF Pooled, JobPcs, LoopPcs
  <2>2. \A w \in Workers : pc[w] # "run"
    BY <1>1, <2>1, RunningIsPooledNext DEF BusyIsPooled, Busy, LoopPcs
  <2>. QED BY <1>1, <1>2, <1>3, <2>2, OpensProgress
<1>4. CASE pending # 1
  <2>1. Out' = Out
    BY <1>1, <1>4 DEF Out, IInv, BarrierInv, TypeOK, PoolOK
  <2>2. Pooled' /\ pc[0] \in CallPcs
    BY <1>1, <1>4 DEF Pooled, JobPcs, LoopPcs, CallPcs
  <2>3. \A p \in Participants : pc'[p] = "run" <=> pc[p] = "run"
    BY <1>1
  <2>. QED BY <1>1, <1>2, <1>4, <2>1, <2>2, <2>3, ProgressFrame DEF IInv
<1>. QED BY <1>3, <1>4

LEMMA AwaitDoneProgress ==
    ASSUME IInv, BarrierInv', AwaitDone
    PROVE  Progress'
<1>1. /\ pc[0] = "await" /\ pc'[0] = "clear" /\ \A w \in Workers : pc'[w] = pc[w]
      /\ UNCHANGED <<runs, call>>
  BY DEF AwaitDone, Goto, IInv, BarrierInv, TypeOK, PcOK, call_vars, claim_vars
<1>2. Pooled /\ 0 \in Out
  BY <1>1 DEF Pooled, JobPcs, LoopPcs, Out, IInv, BarrierInv, TypeOK, PoolOK
<1>3. \A w \in Workers : pc[w] # "run"
  BY <1>1, RunningIsPooledNext DEF BusyIsPooled, Busy, LoopPcs, Pooled, JobPcs
<1>. QED BY <1>1, <1>2, <1>3, OpensProgress

LEMMA NestedCallProgress ==
    ASSUME IInv, BarrierInv', (\E p \in Participants : NestedCall(p)) \/ UNCHANGED vars
    PROVE  Progress'
<1>1. UNCHANGED <<next_chunk, ticket, runs, call, seen, epoch, worker_count, pc>>
  BY DEF NestedCall, vars, pool_vars, call_vars, claim_vars
<1>2. Out' = Out /\ (Pooled' <=> Pooled)
  BY <1>1 DEF Out, Pooled
<1>. QED BY <1>1, <1>2, ProgressFrame DEF IInv

-----------------------------------------------------------------------------
LEMMA InitProgress == Init => Progress
<1>. SUFFICES ASSUME Init PROVE Progress
  OBVIOUS
<1>1. \A p \in Participants : pc[p] \in {"idle", "none"}
  BY DEF Init
<1>2. pc[0] = "idle"
  BY DEF Init
<1>3. DOMAIN runs = {}
  BY JobDescFacts DEF Init
<1>. QED BY <1>1, <1>2, <1>3 DEF Progress, Pooled, JobPcs, LoopPcs, CallPcs, SetupPcs

LEMMA NextProgress == IInv /\ [Next]_vars => IInv'
<1>. SUFFICES ASSUME IInv, [Next]_vars PROVE IInv'
  OBVIOUS
<1>1. BarrierInv'
  BY NextSafe DEF IInv
<1>2. Progress'
  <2>1. CASE UNCHANGED vars
    BY <1>1, <2>1, NestedCallProgress
  <2>2. CASE Client
    BY <1>1, <2>2, AwayProgress DEF Client
  <2>3. CASE Main
    <3>. 0 \in Participants
      OBVIOUS
    <3>1. CASE \/ SemCreated \/ SemRefused \/ ThreadCreated \/ ThreadRefused
               \/ StopPost("fail_post", "fail_join") \/ StopPost("down_post", "down_join")
               \/ Join("fail_join") \/ Join("down_join") \/ InitFailed \/ ShutDown
               \/ (\E a \in LevelArgs : EmptyLevel(a)) \/ LevelsDone \/ Return
      BY <1>1, <3>1, AwayProgress
    <3>2. CASE \E a \in LevelArgs, key \in Keys \cup {ShuffleOff} : EnterJob(a, key)
      BY <1>1, <3>2, EnterJobProgress
    <3>3. CASE InlineStart \/ InlineRun \/ WriteJob \/ ResetTickets \/ ArmBarrier \/ PublishEpoch
      BY <1>1, <3>3, InlineStartProgress, InlineRunProgress, SetUpProgress, PublishProgress
    <3>4. CASE Snapshot(0) \/ Claim(0) \/ RunChunk(0)
      BY <1>1, <3>4, SnapshotProgress, ClaimProgress, RunChunkProgress
    <3>5. CASE PostWake \/ RetireMain \/ AwaitDone
      BY <1>1, <3>5, PostWakeProgress, RetireMainProgress, AwaitDoneProgress
    <3>. QED BY <2>3, <3>1, <3>2, <3>3, <3>4, <3>5 DEF Main
  <2>4. CASE \E w \in Workers : Worker(w)
    <3>. PICK w \in Workers : Worker(w)
      BY <2>4
    <3>1. w \in Participants
      OBVIOUS
    <3>. QED BY <1>1, <3>1, WorkerProgress, SnapshotProgress, ClaimProgress, RunChunkProgress DEF Worker
  <2>5. CASE \E p \in Participants : NestedCall(p)
    BY <1>1, <2>5, NestedCallProgress
  <2>. QED BY <2>1, <2>2, <2>3, <2>4, <2>5 DEF Next, Running
<1>. QED BY <1>1, <1>2 DEF IInv

\* The tickets and the chunks they ran are in step, for any number of participants and chunks: no
\* ticket is lost or handed out twice (jobs_claim_loop).
THEOREM Invariant == Spec => []IInv
<1>1. Init => IInv
  BY InitSafe, InitProgress DEF IInv
<1>. QED BY <1>1, NextProgress, PTL DEF Spec

LEMMA ReturnsWithAllRun == IInv => EveryChunkOnce
<1>. SUFFICES ASSUME IInv PROVE EveryChunkOnce
  OBVIOUS
<1>1. AtMostOnce
  BY ProgressParts DEF IInv, ProgressByParts
<1>2. pc[0] = "clear" => \A n \in DOMAIN runs : runs[n] = 1
  <2>. SUFFICES ASSUME pc[0] = "clear", NEW n \in DOMAIN runs PROVE runs[n] = 1
    OBVIOUS
  <2>1. n \in 0 .. call.chunks - 1 /\ call \in JobDescs
    BY DEF IInv, BarrierInv, TypeOK, ClaimOK, CallOK
  <2>2. PICK t \in 0 .. call.chunks - 1 : ChunkOf(call, t) = n
    BY <2>1, ChunkOfFacts
  <2>3. Counted /\ Taken(t)
    BY ProgressParts DEF IInv, ProgressByParts, Taken, CallPcs
  <2>. QED BY <2>2, <2>3 DEF Counted, RunsOf
<1>3. pc[0] = "clear" /\ ~InlinePath(worker_count, call.chunks) => pending = 0
  BY DEF IInv, BarrierInv, Barrier
<1>. QED BY <1>1, <1>2, <1>3 DEF EveryChunkOnce, AtMostOnce

\* Every chunk of a parallel_for has run exactly once when it returns, and none ever twice,
\* whatever the participants' order, the shuffle and the wakes (jobs.h).
THEOREM EveryChunkRunsOnce == Spec => []EveryChunkOnce
<1>. QED BY ReturnsWithAllRun, Invariant, PTL

-----------------------------------------------------------------------------
(* The pool implements the promise of jobs.h.                              *)

InCall == in_job = 1 <=> pc[0] \in CallPcs

LEMMA CallIsMarked == IInv => InCall
BY DEF IInv, BarrierInv, PoolShape, InCall

LEMMA CallIsMarkedNext == IInv' => InCall'
BY CallIsMarked, PTL

\* A step that neither enters nor leaves a call and runs no chunk.
LEMMA PromiseStutter ==
    ASSUME IInv, IInv', UNCHANGED runs, pc'[0] \in CallPcs <=> pc[0] \in CallPcs
    PROVE  UNCHANGED <<in_job = 1, runs>>
BY CallIsMarked, CallIsMarkedNext DEF InCall

\* The chunk of a ticket that has not run yet.
LEMMA PromiseExecute ==
    ASSUME IInv, IInv', pc[0] \in CallPcs, pc'[0] \in CallPcs,
           NEW u \in 0 .. call.chunks - 1, ~Taken(u),
           runs' = [runs EXCEPT ![ChunkOf(call, u)] = @ + 1]
    PROVE  \E n \in DOMAIN runs : Promise!Execute(n)
<1>. DEFINE n == ChunkOf(call, u)
<1>1. call \in JobDescs /\ runs \in [0 .. call.chunks - 1 -> Nat]
  BY DEF IInv, BarrierInv, TypeOK, CallOK, ClaimOK
<1>2. n \in DOMAIN runs
  BY <1>1, ChunkOfFacts
<1>3. runs[n] = 0
  BY ProgressParts DEF IInv, ProgressByParts, Counted, RunsOf
<1>4. (in_job = 1) /\ ((in_job' = 1) <=> (in_job = 1))
  BY CallIsMarked, CallIsMarkedNext DEF InCall
<1>. HIDE DEF n
<1>5. runs' = [runs EXCEPT ![n] = 1]
  <2>1. runs' = [runs EXCEPT ![n] = runs[n] + 1]
    BY DEF n
  <2>2. runs[n] + 1 = 1
    BY <1>3
  <2>. QED BY <2>1, <2>2
<1>6. Promise!Execute(n)
  BY <1>3, <1>4, <1>5 DEF Promise!Execute
<1>. QED BY <1>2, <1>6

LEMMA PromiseInit == Init => Promise!Init
<1>. SUFFICES ASSUME Init PROVE Promise!Init
  OBVIOUS
<1>1. NoJob.chunks = 0 /\ in_job = 0 /\ runs = [c \in 0 .. NoJob.chunks - 1 |-> 0]
  BY JobDescFacts DEF Init
<1>2. 0 .. NoJob.chunks - 1 = {}
  BY <1>1
<1>3. runs = [n \in {} |-> 0]
  BY <1>1, <1>2
<1>. QED BY <1>1, <1>3 DEF Promise!Init

LEMMA PromiseNext == IInv /\ IInv' /\ [Next]_vars => [Promise!Next]_<<in_job = 1, runs>>
<1>. SUFFICES ASSUME IInv, IInv', [Next]_vars PROVE Promise!Next \/ UNCHANGED <<in_job = 1, runs>>
  OBVIOUS
<1>0. pc \in [Participants -> WorkerPcs \cup MainPcs]
  BY DEF IInv, BarrierInv, TypeOK, PcOK
<1>1. CASE \E a \in LevelArgs, key \in Keys \cup {ShuffleOff} : EnterJob(a, key)
  <2>1. PICK a \in LevelArgs, key \in Keys \cup {ShuffleOff} : EnterJob(a, key)
    BY <1>1
  <2>. DEFINE c == ChunkCount(a.count, a.grain)
  <2>2. c \in ChunkCounts \ {0}
    BY <2>1, ChunkCountType DEF EnterJob, ChunkCounts
  <2>3. Promise!Call(c)
    BY <2>1 DEF EnterJob, Promise!Call
  <2>. QED BY <2>2, <2>3 DEF Promise!Next
<1>2. CASE InlineRun
  <2>1. /\ pc[0] \in CallPcs /\ pc'[0] \in CallPcs /\ ticket[0] \in 0 .. call.chunks - 1
        /\ ~Taken(ticket[0])
    BY <1>0, <1>2, JobDescFacts DEF InlineRun, Goto, CallPcs, Taken, Pooled, JobPcs, LoopPcs, IInv, Progress,
       BarrierInv, TypeOK, ClaimOK, CallOK
  <2>2. runs' = [runs EXCEPT ![ChunkOf(call, ticket[0])] = @ + 1]
    BY <1>2 DEF InlineRun, RunTicket
  <2>. QED BY <2>1, <2>2, PromiseExecute DEF Promise!Next
<1>3. CASE \E p \in Participants : RunChunk(p)
  <2>1. PICK p \in Participants : RunChunk(p)
    BY <1>3
  <2>2. pc[p] = "run"
    BY <2>1 DEF RunChunk
  <2>3. Pooled /\ snap[p] = call /\ Running1 /\ call.chunks \in Nat
    BY <2>2, InLoop
  <2>4. ticket[p] \in 0 .. call.chunks - 1 /\ ~Taken(ticket[p])
    <3>1. ticket[p] \in Nat /\ ticket[p] < call.chunks
      BY <2>2, <2>3 DEF Running1, IInv, BarrierInv, TypeOK, ClaimOK
    <3>2. Held(ticket[p])
      BY <2>2 DEF Held
    <3>. QED BY <2>3, <3>1, <3>2 DEF Taken, Pooled, JobPcs, LoopPcs
  <2>5. pc[0] \in CallPcs /\ pc'[0] \in CallPcs
    BY <1>0, <2>1, <2>3 DEF RunChunk, Goto, Pooled, CallPcs, JobPcs, LoopPcs
  <2>6. runs' = [runs EXCEPT ![ChunkOf(call, ticket[p])] = @ + 1]
    BY <2>1, <2>3 DEF RunChunk, RunTicket
  <2>. QED BY <2>4, <2>5, <2>6, PromiseExecute DEF Promise!Next
<1>4. CASE Return
  <2>1. /\ in_job = 1 /\ in_job' = 0 /\ UNCHANGED runs /\ pc[0] = "clear"
    BY <1>4, CallIsMarked DEF Return, claim_vars, InCall, CallPcs
  <2>2. \A n \in DOMAIN runs : runs[n] = 1
    BY <2>1, ReturnsWithAllRun DEF EveryChunkOnce
  <2>. QED BY <2>1, <2>2 DEF Promise!Return, Promise!Next
<1>5. CASE \/ \E wc \in 0 .. MaxWorkers : JobsInit(wc)
           \/ SemCreated \/ SemRefused \/ ThreadRefused \/ JobsShutdown
           \/ StopPost("fail_post", "fail_join") \/ StopPost("down_post", "down_join")
           \/ InitFailed \/ ShutDown
  <2>1. pc[0] \notin CallPcs /\ pc'[0] \notin CallPcs /\ UNCHANGED runs
    BY <1>0, <1>5 DEF JobsInit, SemCreated, SemRefused, ThreadRefused, JobsShutdown, StopPost,
       InitFailed, ShutDown, Goto, CallPcs, SetupPcs, JobPcs, LoopPcs, claim_vars
  <2>. QED BY <2>1, PromiseStutter
<1>6. CASE \/ ShuffleSet \/ (\E m \in 1 .. MaxLevels : ParallelLevels(m))
           \/ (\E a \in LevelArgs : EmptyLevel(a)) \/ LevelsDone
  <2>1. pc[0] \notin CallPcs /\ pc'[0] \notin CallPcs /\ UNCHANGED runs
    BY <1>0, <1>6 DEF ShuffleSet, ParallelLevels, EmptyLevel, LevelsDone, Goto, CallPcs,
       SetupPcs, JobPcs, LoopPcs, claim_vars
  <2>. QED BY <2>1, PromiseStutter
<1>7. CASE ThreadCreated \/ Join("fail_join") \/ Join("down_join")
  <2>1. k # 0 /\ pc[0] \notin CallPcs /\ UNCHANGED runs
    BY <1>7 DEF ThreadCreated, Join, IInv, BarrierInv, PoolShape, Stopping, StopPcs, JoinPcs,
       TypeOK, CallOK, CallPcs, SetupPcs, JobPcs, LoopPcs, claim_vars
  <2>2. pc'[0] \in {pc[0], "idle"}
    BY <1>0, <1>7, <2>1 DEF ThreadCreated, Join, Goto
  <2>3. pc'[0] \notin CallPcs
    BY <2>1, <2>2 DEF CallPcs, SetupPcs, JobPcs, LoopPcs
  <2>. QED BY <2>1, <2>3, PromiseStutter
<1>8. CASE InlineStart \/ WriteJob \/ ResetTickets \/ ArmBarrier \/ PublishEpoch \/ PostWake
           \/ RetireMain \/ AwaitDone
  <2>1. pc[0] \in CallPcs /\ pc'[0] \in CallPcs /\ UNCHANGED runs
    BY <1>0, <1>8 DEF InlineStart, WriteJob, ResetTickets, ArmBarrier, PublishEpoch, PostWake,
       RetireMain, AwaitDone, Goto, CallPcs, SetupPcs, JobPcs, LoopPcs, claim_vars
  <2>. QED BY <2>1, PromiseStutter
<1>9. CASE \E p \in Participants : Snapshot(p) \/ Claim(p)
  <2>1. PICK p \in Participants : Snapshot(p) \/ Claim(p)
    BY <1>9
  <2>2. UNCHANGED runs
    BY <2>1 DEF Snapshot, Claim
  <2>3. pc'[0] = pc[0] \/ {pc[0], pc'[0]} \subseteq LoopPcs
    BY <1>0, <2>1 DEF Snapshot, Claim, Goto, LoopPcs
  <2>. QED BY <2>2, <2>3, PromiseStutter DEF CallPcs, JobPcs
<1>10. CASE \E w \in Workers :
               Wake(w) \/ CheckShutdown(w) \/ LoadEpoch(w) \/ RetireWorker(w) \/ SignalDone(w)
  <2>1. UNCHANGED runs /\ pc'[0] = pc[0]
    BY <1>0, <1>10 DEF Wake, CheckShutdown, LoadEpoch, RetireWorker, SignalDone, Goto, claim_vars
  <2>. QED BY <2>1, PromiseStutter
<1>11. CASE (\E p \in Participants : NestedCall(p)) \/ UNCHANGED vars
  <2>1. UNCHANGED <<runs, in_job>>
    BY <1>11 DEF NestedCall, claim_vars, pool_vars, vars
  <2>. QED BY <2>1
<1>. QED BY <1>1, <1>2, <1>3, <1>4, <1>5, <1>6, <1>7, <1>8, <1>9, <1>10, <1>11
         DEF Next, Running, Client, Main, Worker

\* Whatever its threads do, the pool does nothing that parallel_for's promise does not allow:
\* calls never overlap, every chunk of one runs once, in any order, before it returns (jobs.h).
THEOREM PoolKeepsPromise == Spec => KeepsPromise
<1>. QED BY Invariant, PromiseInit, PromiseNext, PTL DEF Spec, KeepsPromise, Promise!Spec

-----------------------------------------------------------------------------
(* What the threads see of each other's memory (JobsVisibility).           *)

LEMMA AccessesDiffer ==
    /\ \A p, q : ChunksBy(p) = ChunksBy(q) => p = q
    /\ \A p : ChunksBy(p) # MainWrites
BY DEF ChunksBy, MainWrites

\* Every operation on the relation keeps its type.
LEMMA SeenTypes ==
    ASSUME SeenOK, NEW p \in Participants, NEW q \in Participants, NEW x \in Words,
           NEW a \in Accesses,
           Accessed(p, a) \/ Wiped \/ Released(p, x) \/ Acquired(p, x) \/ Exchanged(p, x)
               \/ Handed(q, p) \/ Unseen
    PROVE  SeenOK'
<1>. USE DEF SeenOK
<1>1. MainWrites \in Accesses /\ 0 \in Participants
  BY DEF Accesses
<1>2. \A r \in Participants : knows[r] \subseteq Accesses
  OBVIOUS
<1>3. \A y \in Words : carries[y] \subseteq Accesses
  OBVIOUS
<1>4. CASE Accessed(p, a)
  BY <1>2, <1>3, <1>4 DEF Accessed
<1>5. CASE Wiped
  BY <1>1, <1>2, <1>5 DEF Wiped
<1>6. CASE Released(p, x)
  BY <1>2, <1>6 DEF Released
<1>7. CASE Acquired(p, x)
  BY <1>2, <1>3, <1>7 DEF Acquired
<1>8. CASE Exchanged(p, x)
  BY <1>2, <1>3, <1>8 DEF Exchanged
<1>9. CASE Handed(q, p)
  BY <1>2, <1>9 DEF Handed
<1>10. CASE Unseen
  BY <1>10 DEF Unseen, seen_vars
<1>. QED BY <1>4, <1>5, <1>6, <1>7, <1>8, <1>9, <1>10

\* Nobody forgets anything but what main has just written anew.
KeepsChunks == \A p \in Participants : knows[p] \ {MainWrites} \subseteq knows'[p]

\* What main writes or hands over outside the pooled part of a call.
LEMMA MainEffects ==
    ASSUME SeenInv, NEW p \in Participants, NEW q \in Participants, NEW x \in Words,
           Accessed(0, MainWrites) \/ Accessed(0, ChunksBy(0)) \/ Wiped \/ Released(0, x)
               \/ Handed(q, p) \/ Unseen
    PROVE  SeenOK' /\ knows[0] \subseteq knows'[0] /\ OwnSeen'
<1>. USE DEF SeenInv, SeenOK, OwnSeen
<1>0. 0 \in Participants /\ MainWrites \in Accesses /\ ChunksBy(0) \in Accesses
  BY DEF Accesses, AllChunks
<1>1. SeenOK'
  BY <1>0, SeenTypes
<1>2. CASE Accessed(0, MainWrites)
  BY <1>0, <1>1, <1>2, AccessesDiffer DEF Accessed
<1>3. CASE Accessed(0, ChunksBy(0))
  BY <1>0, <1>1, <1>3, AccessesDiffer DEF Accessed
<1>4. CASE Wiped
  BY <1>0, <1>1, <1>4, AccessesDiffer DEF Wiped
<1>5. CASE Released(0, x) \/ Unseen
  BY <1>0, <1>1, <1>5 DEF Released, Unseen, seen_vars
<1>6. CASE Handed(q, p)
  BY <1>0, <1>1, <1>6 DEF Handed
<1>. QED BY <1>1, <1>2, <1>3, <1>4, <1>5, <1>6

\* Main is, and stays, where no worker works.
LEMMA AwaySeen ==
    ASSUME BarrierInv', SeenInv, ~Pooled, ~Pooled',
           SeenOK', knows[0] \subseteq knows'[0], OwnSeen'
    PROVE  SeenInv'
<1>1. \A w \in Workers : ~Busy(w)'
  BY RunningIsPooledNext DEF BusyIsPooled
<1>2. ResultsSeen' /\ JobSeen' /\ HandedOver'
  BY <1>1 DEF SeenInv, Visible, ResultsSeen, JobSeen, HandedOver
<1>. QED BY <1>2 DEF SeenInv, Visible

\* Within the pooled part, nothing is forgotten and no worker takes up the job or retires.
LEMMA GrowingSeen ==
    ASSUME SeenInv, SeenOK', Pooled, Pooled',
           \A p \in Participants : knows[p] \subseteq knows'[p],
           \A x \in Words : carries[x] \subseteq carries'[x],
           \A w \in Workers : Busy(w)' => Busy(w),
           \A w \in Workers : w \notin Unretired' => w \notin Unretired
    PROVE  SeenInv'
<1>. USE DEF SeenInv
<1>1. "epoch" \in Words /\ "pending" \in Words /\ 0 \in Participants
  BY DEF Words
<1>2. OwnSeen'
  BY <1>1 DEF OwnSeen
<1>3. HandedOver'
  BY <1>1 DEF HandedOver
<1>4. ResultsSeen' /\ JobSeen'
  BY DEF Visible, ResultsSeen, JobSeen
<1>. QED BY <1>2, <1>3, <1>4 DEF Visible

LEMMA PublishSeen ==
    ASSUME BarrierInv, SeenInv, SeenPublish
    PROVE  SeenInv'
<1>. USE DEF SeenInv, SeenPublish
<1>1. pc[0] = "publish" /\ ~Pooled
  BY DEF PublishEpoch, Pooled, JobPcs, LoopPcs
<1>2. pc \in [Participants -> WorkerPcs \cup MainPcs] /\ 0 \in Participants
  BY DEF BarrierInv, TypeOK, PcOK
<1>3. Pooled' /\ \A w \in Workers : pc'[w] = pc[w]
  BY <1>2 DEF PublishEpoch, Goto, Pooled, JobPcs
<1>4. \A w \in Workers : ~Busy(w)'
  BY <1>1, <1>3, RunningIsPooled DEF BusyIsPooled, Busy
<1>5. knows' = knows /\ carries' = [carries EXCEPT !["epoch"] = knows[0]]
  BY DEF Released
<1>6. SeenOK' /\ OwnSeen'
  BY <1>2, MainEffects DEF Words
<1>7. MainWrites \in carries'["epoch"]
  BY <1>5 DEF SeenOK, OwnSeen, Words
<1>8. \A w \in Workers : ChunksBy(w) \in knows'[0]
  BY <1>1, <1>5 DEF Visible, ResultsSeen, AllChunks
<1>. QED BY <1>3, <1>4, <1>6, <1>7, <1>8 DEF HandedOver, Visible, ResultsSeen, JobSeen

LEMMA LoadEpochSeen ==
    ASSUME BarrierInv, SeenInv, NEW w \in Workers, LoadEpoch(w), Acquired(w, "epoch")
    PROVE  SeenInv'
<1>. USE DEF SeenInv
<1>1. Pooled /\ w \in 1 .. worker_count /\ epoch # seen[w]
  BY WorkingIsPooled DEF LoadEpoch
<1>2. pc \in [Participants -> WorkerPcs \cup MainPcs] /\ seen \in [Workers -> 0 .. MaxJobs]
  BY DEF BarrierInv, TypeOK, PcOK, ClaimOK
<1>3. pc' = [pc EXCEPT ![w] = "snap"] /\ seen' = [seen EXCEPT ![w] = epoch]
      /\ UNCHANGED <<epoch, worker_count>>
  BY <1>1 DEF LoadEpoch, Goto, pool_vars
<1>4. Pooled' /\ \A v \in Workers \ {w} : (Busy(v)' <=> Busy(v))
  BY <1>1, <1>2, <1>3 DEF Pooled, Busy
<1>5. \A v \in Workers : v \notin Unretired' => v \notin Unretired
  BY <1>1, <1>2, <1>3 DEF Unretired, Busy, LoopPcs
<1>6. SeenOK'
  BY SeenTypes DEF Words, Accesses
<1>7. /\ carries' = carries
      /\ knows' = [knows EXCEPT ![w] = @ \cup carries["epoch"]]
  BY DEF Acquired
<1>8. OwnSeen'
  BY <1>7 DEF OwnSeen, SeenOK
<1>9. HandedOver'
  BY <1>1, <1>5, <1>7 DEF HandedOver, SeenOK
<1>10. JobSeen'
  <2>. SUFFICES ASSUME NEW v \in Workers, Busy(v)' PROVE MainWrites \in knows'[v]
    BY DEF JobSeen
  <2>1. CASE v = w
    BY <1>1, <1>7, <2>1 DEF HandedOver, SeenOK
  <2>2. CASE v # w
    BY <1>4, <1>7, <2>2 DEF Visible, JobSeen, SeenOK
  <2>. QED BY <2>1, <2>2
<1>. QED BY <1>4, <1>6, <1>8, <1>9, <1>10 DEF Visible, ResultsSeen

\* A participant reads the job or works on a chunk: what it did is not yet handed over.
LEMMA WorkSeen ==
    ASSUME BarrierInv, SeenInv, NEW p \in Participants, Snapshot(p) \/ RunChunk(p),
           Accessed(p, ChunksBy(p))
    PROVE  SeenInv'
<1>. USE DEF SeenInv
<1>1. Busy(p) /\ Busy(p)'
  BY DEF Snapshot, RunChunk, Goto, Busy, LoopPcs, BarrierInv, TypeOK, PcOK
<1>2. Pooled
  BY <1>1, RunningIsPooled DEF BusyIsPooled
<1>3. /\ \A q \in Participants \ {p} : pc'[q] = pc[q]
      /\ UNCHANGED <<seen, epoch, worker_count>>
  BY DEF Snapshot, RunChunk, Goto, pool_vars, BarrierInv, TypeOK, PcOK
<1>4. Pooled' /\ \A v \in Workers : (Busy(v)' <=> Busy(v))
  BY <1>1, <1>2, <1>3 DEF Pooled, Busy, JobPcs
<1>5. Unretired' = Unretired
  BY <1>1, <1>3, <1>4 DEF Unretired, Busy, LoopPcs, BarrierInv, TypeOK, PoolOK
<1>6. SeenOK'
  BY SeenTypes DEF Words, Accesses, AllChunks
<1>7. /\ \A q \in Participants : \A a : a \in knows[q] /\ a # ChunksBy(p) => a \in knows'[q]
      /\ \A x \in Words : \A a : a \in carries[x] /\ a # ChunksBy(p) => a \in carries'[x]
      /\ ChunksBy(p) \in knows'[p]
  BY DEF Accessed
<1>8. MainWrites # ChunksBy(p) /\ \A q \in Participants \ {p} : ChunksBy(q) # ChunksBy(p)
  BY AccessesDiffer
<1>9. OwnSeen'
  <2>1. MainWrites \in knows'[0]
    BY <1>7, <1>8 DEF OwnSeen
  <2>2. \A q \in Participants : ChunksBy(q) \in knows'[q]
    BY <1>7, <1>8 DEF OwnSeen
  <2>. QED BY <2>1, <2>2 DEF OwnSeen
<1>10. HandedOver'
  <2>1. MainWrites \in carries'["epoch"]
    BY <1>2, <1>7, <1>8 DEF HandedOver, Words
  <2>2. ASSUME NEW v \in Workers \ Unretired
        PROVE  ChunksBy(v) \in knows'[0] \cup carries'["pending"]
    <3>1. v # p
      <4>1. CASE p \in Workers
        BY <1>1, <4>1, WorkingIsPooled DEF Unretired
      <4>2. CASE p \notin Workers
        BY <4>2
      <4>. QED BY <4>1, <4>2
    <3>. QED BY <1>2, <1>7, <1>8, <3>1 DEF HandedOver, Words
  <2>. QED BY <1>5, <2>1, <2>2 DEF HandedOver
<1>11. JobSeen'
  BY <1>4, <1>7, <1>8 DEF Visible, JobSeen
<1>. QED BY <1>4, <1>6, <1>9, <1>10, <1>11 DEF Visible, ResultsSeen

LEMMA ClaimSeen ==
    ASSUME BarrierInv, SeenInv, NEW p \in Participants, Claim(p), Exchanged(p, "next_chunk")
    PROVE  SeenInv'
<1>1. Busy(p) /\ Busy(p)'
  BY DEF Claim, Goto, Busy, LoopPcs, BarrierInv, TypeOK, PcOK
<1>2. Pooled
  BY <1>1, RunningIsPooled DEF BusyIsPooled
<1>3. /\ \A q \in Participants \ {p} : pc'[q] = pc[q]
      /\ UNCHANGED <<seen, epoch, worker_count>>
  BY DEF Claim, Goto, BarrierInv, TypeOK, PcOK
<1>4. Pooled' /\ \A v \in Workers : (Busy(v)' <=> Busy(v))
  BY <1>1, <1>2, <1>3 DEF Pooled, Busy, JobPcs
<1>5. Unretired' = Unretired
  BY <1>1, <1>3, <1>4 DEF Unretired, Busy, LoopPcs, BarrierInv, TypeOK, PoolOK
<1>6. SeenOK'
  BY SeenTypes DEF Words, Accesses, SeenInv
<1>7. /\ \A q \in Participants : knows[q] \subseteq knows'[q]
      /\ \A x \in Words : carries[x] \subseteq carries'[x]
  BY DEF Exchanged, SeenInv, SeenOK
<1>. QED BY <1>2, <1>4, <1>5, <1>6, <1>7, GrowingSeen

LEMMA RetireSeen ==
    ASSUME BarrierInv, SeenInv, NEW w \in Workers, SeenRetire(w)
    PROVE  SeenInv'
<1>. USE DEF SeenInv, SeenRetire
<1>1. Busy(w) /\ pc[w] = "retire"
  BY DEF RetireWorker, Busy, LoopPcs
<1>2. Pooled /\ w \in 1 .. worker_count
  BY <1>1, WorkingIsPooled
<1>3. /\ \A q \in Participants \ {w} : pc'[q] = pc[q]
      /\ pc'[w] \in {"signal", "park"}
      /\ UNCHANGED <<seen, epoch, worker_count>>
  BY DEF RetireWorker, Goto, BarrierInv, TypeOK, PcOK
<1>4. Pooled' /\ ~Busy(w)' /\ \A v \in Workers \ {w} : (Busy(v)' <=> Busy(v))
  BY <1>2, <1>3 DEF Pooled, Busy, JobPcs, LoopPcs
<1>5. \A v \in Workers \ {w} : v \notin Unretired' => v \notin Unretired
  BY <1>3, <1>4 DEF Unretired
<1>6. SeenOK'
  BY SeenTypes DEF Words, Accesses
<1>7. /\ \A q \in Participants : knows[q] \subseteq knows'[q]
      /\ \A x \in Words : carries[x] \subseteq carries'[x]
      /\ knows[w] \subseteq carries'["pending"]
  BY DEF Exchanged, SeenOK, Words
<1>8. OwnSeen'
  BY <1>7 DEF OwnSeen
<1>9. HandedOver'
  <2>1. MainWrites \in carries'["epoch"]
    BY <1>2, <1>7 DEF HandedOver, Words
  <2>2. ChunksBy(w) \in carries'["pending"]
    BY <1>7 DEF OwnSeen
  <2>3. \A v \in Workers \ Unretired : ChunksBy(v) \in knows'[0] \cup carries'["pending"]
    BY <1>2, <1>7 DEF HandedOver, Words
  <2>. QED BY <1>5, <2>1, <2>2, <2>3 DEF HandedOver
<1>10. JobSeen'
  BY <1>4, <1>7 DEF Visible, JobSeen
<1>. QED BY <1>4, <1>6, <1>8, <1>9, <1>10 DEF Visible, ResultsSeen

\* Once all have retired, what pending carries is all that main lacks.
LEMMA AllHandedOver ==
    ASSUME SeenInv, Pooled, Unretired \subseteq {0}
    PROVE  AllChunks \subseteq knows[0] \cup carries["pending"]
<1>1. \A w \in Workers : w \notin Unretired
  OBVIOUS
<1>. QED BY <1>1 DEF SeenInv, HandedOver, OwnSeen, AllChunks

LEMMA RetireMainSeen ==
    ASSUME BarrierInv, BarrierInv', SeenInv, RetireMain, Exchanged(0, "pending")
    PROVE  SeenInv'
<1>. USE DEF SeenInv
<1>1. pc[0] = "retire" /\ Pooled
  BY DEF RetireMain, Pooled, JobPcs, LoopPcs
<1>2. /\ pc'[0] = IF pending = 1 THEN "clear" ELSE "await"
      /\ \A w \in Workers : pc'[w] = pc[w]
      /\ UNCHANGED <<seen, epoch, worker_count>>
  BY DEF RetireMain, Goto, BarrierInv, TypeOK, PcOK
<1>3. SeenOK'
  BY SeenTypes DEF Words, Accesses
<1>4. /\ \A q \in Participants : knows[q] \subseteq knows'[q]
      /\ \A x \in Words : carries[x] \subseteq carries'[x]
      /\ knows'[0] = knows[0] \cup carries["pending"]
  BY DEF Exchanged, SeenOK, Words
<1>5. \A v \in Workers : (Busy(v)' <=> Busy(v))
  BY <1>2 DEF Busy
<1>6. CASE pending = 1
  <2>1. 0 \in Unretired /\ 1 = Cardinality(Unretired)
    BY <1>1, <1>6 DEF Unretired, Barrier, BarrierInv, TypeOK, PoolOK
  <2>2. Cardinality(Unretired \ {0}) = 0 /\ IsFiniteSet(Unretired \ {0})
    BY <2>1, UnretiredFinite, FS_RemoveElement
  <2>3. Unretired \subseteq {0}
    BY <2>2, FS_EmptySet
  <2>4. AllChunks \subseteq knows'[0]
    BY <1>1, <1>4, <2>3, AllHandedOver
  <2>5. ~Pooled'
    BY <1>2, <1>6 DEF Pooled, JobPcs, LoopPcs
  <2>6. \A w \in Workers : ~Busy(w)'
    BY <2>5, RunningIsPooledNext DEF BusyIsPooled
  <2>. QED BY <1>3, <1>4, <2>4, <2>5, <2>6 DEF OwnSeen, HandedOver, Visible, ResultsSeen, JobSeen
<1>7. CASE pending # 1
  <2>1. Pooled'
    BY <1>2, <1>7 DEF Pooled, JobPcs
  <2>2. \A w \in Workers : w \notin Unretired' => w \notin Unretired
    BY <1>2, <1>5 DEF Unretired
  <2>. QED BY <1>1, <1>3, <1>4, <1>5, <2>1, <2>2, GrowingSeen
<1>. QED BY <1>6, <1>7

LEMMA AwaitSeen ==
    ASSUME BarrierInv, BarrierInv', SeenInv, SeenAwait
    PROVE  SeenInv'
<1>. USE DEF SeenInv, SeenAwait
<1>1. Pooled /\ pending = 0 /\ pending = Cardinality(Unretired)
  BY DEF AwaitDone, Pooled, JobPcs, Barrier, BarrierInv
<1>2. Unretired = {}
  BY <1>1, UnretiredFinite, FS_EmptySet
<1>3. ~Pooled'
  BY DEF AwaitDone, Goto, Pooled, JobPcs, LoopPcs, BarrierInv, TypeOK, PcOK
<1>4. SeenOK'
  BY SeenTypes DEF Words, Accesses
<1>5. /\ \A q \in Participants : knows[q] \subseteq knows'[q]
      /\ knows'[0] = knows[0] \cup carries["pending"]
  BY DEF Acquired, SeenOK
<1>6. AllChunks \subseteq knows'[0]
  BY <1>1, <1>2, <1>5, AllHandedOver
<1>7. \A w \in Workers : ~Busy(w)'
  BY <1>3, RunningIsPooledNext DEF BusyIsPooled
<1>. QED BY <1>3, <1>4, <1>5, <1>6, <1>7 DEF OwnSeen, HandedOver, Visible, ResultsSeen, JobSeen

\* A step of the pool that moves nobody into or out of the claim loop.
LEMMA UnseenSeen ==
    ASSUME BarrierInv, SeenInv, SeenOK', Pooled,
           \A p \in Participants : knows[p] \subseteq knows'[p], UNCHANGED carries,
           UNCHANGED <<seen, epoch, worker_count>>,
           pc'[0] \in JobPcs \ {"await"} \/ pc'[0] = pc[0],
           \A w \in Workers : Busy(w)' <=> Busy(w)
    PROVE  SeenInv'
<1>1. Pooled'
  BY DEF Pooled
<1>2. \A w \in Workers : w \notin Unretired' => w \notin Unretired
  BY DEF Unretired
<1>. QED BY <1>1, <1>2, GrowingSeen

LEMMA SeenStep ==
    ASSUME BarrierInv, BarrierInv', SeenInv, SeenNext
    PROVE  SeenInv'
<1>0. pc \in [Participants -> WorkerPcs \cup MainPcs] /\ 0 \in Participants
      /\ pc[0] \in MainPcs /\ k \in Nat /\ {"epoch", "next_chunk", "pending", "shutdown"} \subseteq Words
  BY DEF BarrierInv, TypeOK, PcOK, CallOK, Words
<1>1. CASE fatal /\ UNCHANGED <<vars, seen_vars>>
  <2>1. UNCHANGED <<knows, carries, pc, seen, epoch, worker_count>>
    BY <1>1 DEF vars, seen_vars, pool_vars
  <2>2. (Pooled' <=> Pooled) /\ Unretired' = Unretired /\ \A w \in Workers : Busy(w)' <=> Busy(w)
    BY <2>1 DEF Pooled, Unretired, Busy
  <2>. QED BY <2>1, <2>2 DEF SeenInv, SeenOK, OwnSeen, HandedOver, Visible, ResultsSeen, JobSeen
<1>2. CASE SeenClient
  <2>1. ~Pooled /\ ~Pooled'
    BY <1>0, <1>2 DEF SeenClient, JobsInit, JobsShutdown, ShuffleSet, ParallelLevels, Goto, Pooled,
       JobPcs, LoopPcs
  <2>2. Wiped \/ Released(0, "shutdown") \/ Unseen
    BY <1>2 DEF SeenClient
  <2>3. SeenOK' /\ knows[0] \subseteq knows'[0] /\ OwnSeen'
    BY <1>0, <2>2, MainEffects
  <2>. QED BY <2>1, <2>3, AwaySeen
<1>3. CASE \/ (SemRefused \/ InitFailed) /\ Wiped
           \/ ThreadRefused /\ Released(0, "shutdown")
           \/ (ShutDown \/ WriteJob) /\ Accessed(0, MainWrites)
           \/ InlineStart /\ Released(0, "epoch")
           \/ InlineRun /\ Accessed(0, ChunksBy(0))
           \/ ResetTickets /\ Released(0, "next_chunk")
           \/ ArmBarrier /\ Released(0, "pending")
  <2>1. ~Pooled /\ ~Pooled'
    BY <1>0, <1>3 DEF SemRefused, InitFailed, ThreadRefused, ShutDown, WriteJob, InlineStart,
       InlineRun, ResetTickets, ArmBarrier, Goto, Pooled, JobPcs, LoopPcs
  <2>2. SeenOK' /\ knows[0] \subseteq knows'[0] /\ OwnSeen'
    BY <1>0, <1>3, MainEffects
  <2>. QED BY <2>1, <2>2, AwaySeen
<1>4. CASE ThreadCreated /\ Handed(0, k)
  <2>1. pc[0] = "thread_create" /\ k \in Participants \ {0}
    BY <1>4 DEF ThreadCreated, BarrierInv, PoolShape, TypeOK, PoolOK, CallOK
  <2>2. ~Pooled /\ ~Pooled'
    BY <1>0, <1>4, <2>1 DEF ThreadCreated, Pooled, JobPcs, LoopPcs
  <2>3. SeenOK' /\ knows[0] \subseteq knows'[0] /\ OwnSeen'
    BY <1>0, <1>4, <2>1, MainEffects
  <2>. QED BY <2>2, <2>3, AwaySeen
<1>5. CASE (Join("fail_join") \/ Join("down_join")) /\ Handed(k, 0)
  <2>1. pc[0] \in {"fail_join", "down_join"} /\ k \in Participants \ {0}
    BY <1>5 DEF Join, BarrierInv, PoolShape, Stopping, StopPcs, JoinPcs, TypeOK, CallOK
  <2>2. ~Pooled /\ ~Pooled'
    BY <1>0, <1>5, <2>1 DEF Join, Goto, Pooled, JobPcs, LoopPcs
  <2>3. SeenOK' /\ knows[0] \subseteq knows'[0] /\ OwnSeen'
    BY <1>0, <1>5, <2>1, MainEffects
  <2>. QED BY <2>2, <2>3, AwaySeen
<1>6. CASE (\/ SemCreated \/ StopPost("fail_post", "fail_join") \/ StopPost("down_post", "down_join")
            \/ (\E a \in LevelArgs : EmptyLevel(a) \/ \E key \in Keys \cup {ShuffleOff} : EnterJob(a, key))
            \/ LevelsDone \/ Return) /\ Unseen
  <2>1. ~Pooled /\ ~Pooled'
    BY <1>0, <1>6 DEF SemCreated, StopPost, EmptyLevel, EnterJob, LevelsDone, Return, Goto, Pooled,
       JobPcs, LoopPcs
  <2>2. SeenOK' /\ knows[0] \subseteq knows'[0] /\ OwnSeen'
    BY <1>0, <1>6, MainEffects
  <2>. QED BY <2>1, <2>2, AwaySeen
<1>7. CASE SeenPublish
  BY <1>7, PublishSeen
<1>8. CASE PostWake /\ Unseen
  <2>1. pc[0] = "post" /\ Pooled
    BY <1>8 DEF PostWake, Pooled, JobPcs
  <2>2. pc'[0] \in {"snap", "post"} /\ \A w \in Workers : pc'[w] = pc[w]
    BY <1>0, <1>8 DEF PostWake, Goto
  <2>3. UNCHANGED <<knows, carries, seen, epoch, worker_count>>
    BY <1>8 DEF PostWake, Unseen, seen_vars, pool_vars
  <2>4. SeenOK'
    BY <2>3 DEF SeenInv, SeenOK
  <2>. QED BY <2>1, <2>2, <2>3, <2>4, UnseenSeen DEF Busy, JobPcs, LoopPcs
<1>9. CASE RetireMain /\ Exchanged(0, "pending")
  BY <1>9, RetireMainSeen
<1>10. CASE SeenAwait
  BY <1>10, AwaitSeen
<1>11. CASE \E p \in Participants : SeenClaimLoop(p)
  BY <1>11, WorkSeen, ClaimSeen DEF SeenClaimLoop
<1>12. ASSUME NEW w \in Workers, CheckShutdown(w), Acquired(w, "shutdown")
       PROVE  SeenInv'
  <2>1. SeenOK'
    BY <1>0, <1>12, SeenTypes DEF SeenInv, Accesses
  <2>2. \A p \in Participants : knows[p] \subseteq knows'[p]
    BY <1>12 DEF Acquired, SeenInv, SeenOK
  <2>3. pc'[0] = pc[0] /\ UNCHANGED <<carries, seen, epoch, worker_count>>
    BY <1>0, <1>12 DEF CheckShutdown, Goto, Acquired, pool_vars
  <2>4. \A v \in Workers : Busy(v)' <=> Busy(v)
    BY <1>0, <1>12 DEF CheckShutdown, Goto, Busy, LoopPcs
  <2>5. CASE Pooled
    BY <2>1, <2>2, <2>3, <2>4, <2>5, UnseenSeen
  <2>6. CASE ~Pooled
    <3>1. ~Pooled' /\ OwnSeen'
      BY <2>2, <2>3, <2>6 DEF Pooled, SeenInv, OwnSeen
    <3>. QED BY <1>0, <2>1, <2>2, <2>6, <3>1, AwaySeen
  <2>. QED BY <2>5, <2>6
<1>13. CASE \E w \in Workers : LoadEpoch(w) /\ Acquired(w, "epoch")
  BY <1>13, LoadEpochSeen
<1>14. CASE \E w \in Workers : SeenRetire(w)
  BY <1>14, RetireSeen
<1>15. ASSUME Unseen, (\E w \in Workers : Wake(w) \/ SignalDone(w)) \/ \E p \in Participants : NestedCall(p)
       PROVE  SeenInv'
  <2>1. pc'[0] = pc[0] /\ UNCHANGED <<knows, carries, seen, epoch, worker_count>>
    BY <1>0, <1>15 DEF Wake, SignalDone, NestedCall, Goto, Unseen, seen_vars, pool_vars
  <2>2. \A v \in Workers : Busy(v)' <=> Busy(v)
    BY <1>0, <1>15 DEF Wake, SignalDone, NestedCall, Goto, Busy, LoopPcs
  <2>3. SeenOK' /\ OwnSeen'
    BY <2>1 DEF SeenInv, SeenOK, OwnSeen
  <2>4. CASE Pooled
    BY <2>1, <2>2, <2>3, <2>4, UnseenSeen
  <2>5. CASE ~Pooled
    BY <2>1, <2>3, <2>5, AwaySeen DEF Pooled
  <2>. QED BY <2>4, <2>5
<1>. QED BY <1>1, <1>2, <1>3, <1>4, <1>5, <1>6, <1>7, <1>8, <1>9, <1>10, <1>11, <1>12, <1>13,
            <1>14, <1>15, <1>0
         DEF SeenNext, SeenRunning, SeenMain, SeenWorker

LEMMA SeenStart == SeenInit => SeenInv
<1>. SUFFICES ASSUME SeenInit PROVE SeenInv
  OBVIOUS
<1>1. pc[0] = "idle" /\ \A w \in Workers : pc[w] = "none"
  BY DEF SeenInit, Init
<1>2. ~Pooled /\ \A w \in Workers : ~Busy(w)
  BY <1>1 DEF Pooled, Busy, JobPcs, LoopPcs
<1>3. SeenOK /\ \A p \in Participants : knows[p] = Accesses
  BY DEF SeenInit, SeenOK
<1>. QED BY <1>2, <1>3 DEF SeenInv, OwnSeen, HandedOver, Visible, ResultsSeen, JobSeen, Accesses,
            AllChunks

LEMMA SeenIsPool == SeenNext => [Next]_vars
BY DEF SeenNext, SeenRunning, SeenClient, SeenMain, SeenPublish, SeenAwait, SeenClaimLoop, SeenWorker,
   SeenRetire, Next, Running, Client, Main, Worker, Participants

\* For any number of workers and chunks, the acquire and release orders of atomic.h
\* are enough, whatever the semaphores order: when parallel_for returns main sees all
\* that the workers did, and a worker that takes up a job sees all that main prepared.
THEOREM WorkIsVisible == SeenSpec => []Visible
<1>1. SeenInit => Init
  BY DEF SeenInit
<1>2. [SeenNext]_<<vars, seen_vars>> => [Next]_vars
  BY SeenIsPool
<1>3. SeenSpec => []BarrierInv
  BY <1>1, <1>2, BarrierInvariant, PTL DEF SeenSpec, Spec
<1>4. BarrierInv /\ BarrierInv' /\ SeenInv /\ [SeenNext]_<<vars, seen_vars>> => SeenInv'
  <2>1. CASE SeenNext
    BY <2>1, SeenStep
  <2>2. CASE UNCHANGED <<vars, seen_vars>>
    <3>1. UNCHANGED <<knows, carries, pc, seen, epoch, worker_count>>
      BY <2>2 DEF vars, seen_vars, pool_vars
    <3>2. (Pooled' <=> Pooled) /\ Unretired' = Unretired /\ \A w \in Workers : Busy(w)' <=> Busy(w)
      BY <3>1 DEF Pooled, Unretired, Busy
    <3>. QED BY <3>1, <3>2 DEF SeenInv, SeenOK, OwnSeen, HandedOver, Visible, ResultsSeen, JobSeen
  <2>. QED BY <2>1, <2>2
<1>5. SeenInv => Visible
  BY DEF SeenInv
<1>. QED BY <1>3, <1>4, <1>5, SeenStart, PTL DEF SeenSpec

-----------------------------------------------------------------------------
(* The shuffle.  Powers of two and the width of the network.               *)

LEMMA Least ==
    ASSUME NEW S, S \subseteq Nat, S # {}
    PROVE  \E m \in S : \A i \in S : m <= i
<1>1. PICK m \in S : \A i \in S : ~(<<i, m>> \in OpToRel(<, Nat))
  BY NatLessThanWellFounded, WFMin
<1>2. \A i \in S : ~(i < m)
  BY <1>1 DEF OpToRel
<1>. QED BY <1>2

\* f lists what G makes of a, again and again.
Repeats(G, a, n, f) == f[0] = a /\ \A i \in 1 .. n : f[i] = G[f[i - 1]]

LEMMA RepeatsExists ==
    ASSUME NEW S, NEW a \in S, NEW n \in Nat, NEW G \in [S -> S]
    PROVE  \E f \in [0 .. n -> S] : Repeats(G, a, n, f)
<1>. DEFINE Good(m) == \E f \in [0 .. m -> S] : Repeats(G, a, m, f)
            T == {m \in 0 .. n : ~Good(m)}
<1>1. ASSUME T # {} PROVE FALSE
  <2>1. PICK m \in T : \A j \in T : m <= j
    <3>1. T \subseteq Nat
      OBVIOUS
    <3>. HIDE DEF T
    <3>. QED BY <1>1, <3>1, Least
  <2>2. m \in 0 .. n /\ ~Good(m)
    OBVIOUS
  <2>3. m # 0
    <3>. SUFFICES ASSUME m = 0 PROVE FALSE
      OBVIOUS
    <3>. DEFINE f == [i \in 0 .. 0 |-> a]
    <3>1. f \in [0 .. 0 -> S] /\ Repeats(G, a, 0, f)
      BY DEF Repeats
    <3>. QED BY <2>2, <3>1
  <2>4. m - 1 \in 0 .. n /\ m - 1 \notin T
    BY <2>1, <2>2, <2>3
  <2>5. Good(m - 1)
    BY <2>4
  <2>6. PICK g \in [0 .. m - 1 -> S] : Repeats(G, a, m - 1, g)
    BY <2>5
  <2>7. PICK x \in S : x = G[g[m - 1]]
    <3>1. g[m - 1] \in S
      BY <2>2, <2>3
    <3>. QED BY <3>1
  <2>. DEFINE f == [i \in 0 .. m |-> IF i = m THEN x ELSE g[i]]
  <2>8. /\ f \in [0 .. m -> S] /\ f[m] = x /\ f[0] = g[0]
        /\ \A i \in 0 .. m - 1 : f[i] = g[i]
    BY <2>2, <2>3
  <2>. HIDE DEF f
  <2>9. \A i \in 1 .. m : f[i] = G[f[i - 1]]
    <3>. SUFFICES ASSUME NEW i \in 1 .. m PROVE f[i] = G[f[i - 1]]
      OBVIOUS
    <3>1. CASE i = m
      <4>1. m - 1 \in 0 .. m - 1
        BY <2>2, <2>3
      <4>. QED BY <2>7, <2>8, <3>1, <4>1
    <3>2. CASE i # m
      <4>1. i \in 1 .. m - 1 /\ i \in 0 .. m - 1 /\ i - 1 \in 0 .. m - 1
        BY <2>2, <3>2
      <4>. QED BY <2>6, <2>8, <4>1 DEF Repeats
    <3>. QED BY <3>1, <3>2
  <2>10. Repeats(G, a, m, f)
    BY <2>6, <2>8, <2>9 DEF Repeats
  <2>. QED BY <2>2, <2>8, <2>10
<1>2. n \in 0 .. n /\ n \notin T
  BY <1>1
<1>. QED BY <1>2

IsShl(f) == f = [b \in 0 .. 32 |-> IF b = 0 THEN 1 ELSE 2 * f[b - 1]]
Positive == Nat \ {0}

LEMMA ShlSteps ==
    /\ Shl[0] = 1
    /\ \A b \in 1 .. 32 : Shl[b] = 2 * Shl[b - 1]
    /\ \A b \in 0 .. 32 : Shl[b] \in Positive
<1>. DEFINE G == [x \in Positive |-> 2 * x]
<1>1. G \in [Positive -> Positive] /\ 1 \in Positive
  BY DEF Positive
<1>. HIDE DEF G
<1>2. PICK f \in [0 .. 32 -> Positive] : Repeats(G, 1, 32, f)
  BY <1>1, RepeatsExists
<1>3. f[0] = 1 /\ \A b \in 1 .. 32 : f[b] = 2 * f[b - 1]
  <2>. SUFFICES ASSUME NEW b \in 1 .. 32 PROVE f[b] = 2 * f[b - 1]
    BY <1>2 DEF Repeats
  <2>1. b - 1 \in 0 .. 32
    OBVIOUS
  <2>. QED BY <1>2, <2>1 DEF Repeats, G
<1>4. IsShl(f)
  <2>1. f = [b \in 0 .. 32 |-> f[b]]
    OBVIOUS
  <2>2. \A b \in 0 .. 32 : f[b] = IF b = 0 THEN 1 ELSE 2 * f[b - 1]
    BY <1>3
  <2>. QED BY <2>1, <2>2 DEF IsShl
<1>5. PICK g : g = CHOOSE h : IsShl(h)
  OBVIOUS
<1>6. IsShl(g) /\ Shl = g
  <2>1. IsShl(g)
    BY <1>4, <1>5
  <2>. QED BY <1>5, <2>1 DEF Shl, IsShl
<1>7. \A b \in 0 .. 32 : g[b] = IF b = 0 THEN 1 ELSE 2 * g[b - 1]
  BY <1>6 DEF IsShl
<1>8. g[0] = 1 /\ \A b \in 1 .. 32 : g[b] = 2 * g[b - 1]
  BY <1>7
<1>9. \A b \in 0 .. 32 : g[b] \in Positive
  <2>. DEFINE T == {b \in 0 .. 32 : g[b] \notin Positive}
  <2>1. ASSUME T # {} PROVE FALSE
    <3>1. PICK m \in T : \A j \in T : m <= j
      <4>1. T \subseteq Nat
        OBVIOUS
      <4>. HIDE DEF T
      <4>. QED BY <2>1, <4>1, Least
    <3>2. CASE m = 0
      BY <1>8, <3>2 DEF Positive
    <3>3. CASE m # 0
      <4>1. m \in 1 .. 32 /\ m - 1 \in 0 .. 32 /\ m - 1 \notin T
        BY <3>1, <3>3
      <4>2. g[m - 1] \in Positive
        BY <4>1
      <4>. QED BY <1>8, <4>1, <4>2 DEF Positive
    <3>. QED BY <3>2, <3>3
  <2>. QED BY <2>1
<1>. QED BY <1>6, <1>8, <1>9

\* Two halves of a width make a word of twice the width.
LEMMA ShlSquare == ASSUME NEW h \in 0 .. 16 PROVE Shl[2 * h] = Shl[h] * Shl[h]
<1>. DEFINE T == {i \in 0 .. 16 : Shl[2 * i] # Shl[i] * Shl[i]}
<1>1. ASSUME T # {} PROVE FALSE
  <2>1. PICK m \in T : \A j \in T : m <= j
    <3>1. T \subseteq Nat
      OBVIOUS
    <3>. HIDE DEF T
    <3>. QED BY <1>1, <3>1, Least
  <2>2. CASE m = 0
    BY <2>2, ShlSteps
  <2>3. CASE m # 0
    <3>1. m \in 1 .. 16 /\ m - 1 \in 0 .. 16 /\ m - 1 \notin T
      BY <2>1, <2>3
    <3>2. PICK s \in Nat : s = Shl[m - 1]
      <4>1. m - 1 \in 0 .. 32
        BY <3>1
      <4>2. Shl[m - 1] \in Nat
        BY <4>1, ShlSteps DEF Positive
      <4>. QED BY <4>2
    <3>3. Shl[m] = 2 * s
      <4>1. m \in 1 .. 32
        BY <3>1
      <4>2. Shl[m] = 2 * Shl[m - 1]
        BY <4>1, ShlSteps
      <4>. QED BY <3>2, <4>2
    <3>4. Shl[2 * (m - 1)] = s * s
      BY <3>1, <3>2
    <3>5. Shl[2 * m] = 4 * (s * s)
      <4>1. /\ 2 * m \in 1 .. 32 /\ 2 * m - 1 \in 1 .. 32
            /\ (2 * m - 1) - 1 = 2 * (m - 1)
        BY <3>1
      <4>2. Shl[2 * m] = 2 * Shl[2 * m - 1]
        BY <4>1, ShlSteps
      <4>3. Shl[2 * m - 1] = 2 * Shl[2 * (m - 1)]
        BY <4>1, ShlSteps
      <4>. QED BY <3>4, <4>2, <4>3
    <3>6. 4 * (s * s) = (2 * s) * (2 * s)
      OBVIOUS
    <3>. QED BY <3>1, <3>3, <3>5, <3>6
  <2>. QED BY <2>2, <2>3
<1>. QED BY <1>1

\* The words of the network's width name every chunk.
LEMMA WidthFits ==
    ASSUME NEW chunks \in 0 .. U32 - 1
    PROVE  HalfBits(chunks) \in 1 .. 16 /\ chunks <= Shl[2 * HalfBits(chunks)]
<1>. DEFINE S == {b \in 1 .. 32 : Shl[b] >= chunks}
            P(b) == Shl[b] >= chunks /\ \A a \in 1 .. b - 1 : Shl[a] < chunks
<1>1. S # {} /\ S \subseteq Nat
  <2>1. PICK b \in 1 .. 32 : U32 <= Shl[b]
    BY JobsAssumption
  <2>2. Shl[b] \in Nat
    BY ShlSteps DEF Positive
  <2>3. Shl[b] >= chunks
    BY <2>1, <2>2, WidthAssumption
  <2>4. b \in S
    BY <2>3
  <2>. QED BY <2>4
<1>2. PICK m \in S : \A j \in S : m <= j
  <2>. HIDE DEF S
  <2>. QED BY <1>1, Least
<1>3. P(m) /\ m \in 1 .. 32
  <2>1. m \in 1 .. 32 /\ Shl[m] >= chunks
    OBVIOUS
  <2>2. ASSUME NEW a \in 1 .. m - 1 PROVE Shl[a] < chunks
    <3>1. a \in 1 .. 32 /\ a \notin S
      BY <1>2, <2>1
    <3>2. Shl[a] \in Nat
      BY <3>1, ShlSteps DEF Positive
    <3>3. ~(Shl[a] >= chunks)
      BY <3>1
    <3>. QED BY <3>2, <3>3
  <2>. QED BY <2>1, <2>2
<1>4. PICK b : b = CHOOSE c \in 1 .. 32 : P(c)
  OBVIOUS
<1>5. b \in 1 .. 32 /\ P(b)
  <2>. HIDE DEF P
  <2>. QED BY <1>3, <1>4
<1>6. DomainBits(chunks) = IF b % 2 = 1 THEN b + 1 ELSE b
  BY <1>4 DEF DomainBits
<1>7. PICK d \in Nat : d = DomainBits(chunks)
  BY <1>5, <1>6
<1>8. d % 2 = 0 /\ d \in 2 .. 32 /\ chunks <= Shl[d]
  <2>1. CASE b % 2 = 1
    <3>1. d = b + 1 /\ d % 2 = 0 /\ d \in 2 .. 32
      BY <1>5, <1>6, <1>7, <2>1
    <3>2. Shl[d] = 2 * Shl[b] /\ Shl[b] \in Nat
      BY <1>5, <3>1, ShlSteps DEF Positive
    <3>3. Shl[b] >= chunks
      BY <1>5
    <3>. QED BY <3>1, <3>2, <3>3, WidthAssumption
  <2>2. CASE b % 2 # 1
    <3>1. d = b /\ d % 2 = 0 /\ d \in 2 .. 32
      BY <1>5, <1>6, <1>7, <2>2
    <3>. QED BY <1>5, <3>1, ShlSteps, WidthAssumption DEF Positive
  <2>. QED BY <2>1, <2>2
<1>9. d = 2 * (d \div 2) /\ d \div 2 \in 1 .. 16
  BY <1>8
<1>. QED BY <1>7, <1>8, <1>9 DEF HalfBits

-----------------------------------------------------------------------------
(* The network is a permutation of its words.                              *)

IsNetwork(half, F) ==
    /\ half \in 1 .. 16
    /\ F \in [0 .. 3 -> [HalfWords(half) -> HalfWords(half)]]
    /\ \A a, b \in HalfWords(half) :
          HalfXor(a, b) \in HalfWords(half) /\ HalfXor(a, HalfXor(a, b)) = b
Pairs(half) == HalfWords(half) \X HalfWords(half)
Split(x, half) == <<x \div Shl[half], x % Shl[half]>>
Join2(lr, half) == lr[1] * Shl[half] + lr[2]
FourRounds(lr, F) == Round(Round(Round(Round(lr, F[0]), F[1]), F[2]), F[3])

LEMMA RoundIn ==
    ASSUME NEW half, NEW F, IsNetwork(half, F), NEW p \in Pairs(half), NEW i \in 0 .. 3
    PROVE  Round(p, F[i]) \in Pairs(half)
<1>1. F[i][p[2]] \in HalfWords(half) /\ p[1] \in HalfWords(half) /\ p[2] \in HalfWords(half)
  BY DEF IsNetwork, Pairs
<1>2. HalfXor(F[i][p[2]], p[1]) \in HalfWords(half)
  BY <1>1 DEF IsNetwork
<1>. QED BY <1>1, <1>2 DEF Round, Pairs

\* A round is undone by the same exclusive or.
LEMMA RoundBack ==
    ASSUME NEW half, NEW F, IsNetwork(half, F), NEW p \in Pairs(half), NEW q \in Pairs(half),
           NEW i \in 0 .. 3, Round(p, F[i]) = Round(q, F[i])
    PROVE  p = q
<1>1. p[2] = q[2] /\ HalfXor(F[i][p[2]], p[1]) = HalfXor(F[i][q[2]], q[1])
  BY DEF Round
<1>2. /\ F[i][p[2]] \in HalfWords(half) /\ p[1] \in HalfWords(half) /\ q[1] \in HalfWords(half)
  BY DEF IsNetwork, Pairs
<1>3. /\ HalfXor(F[i][p[2]], HalfXor(F[i][p[2]], p[1])) = p[1]
      /\ HalfXor(F[i][p[2]], HalfXor(F[i][p[2]], q[1])) = q[1]
  BY <1>2 DEF IsNetwork
<1>4. p[1] = q[1]
  BY <1>1, <1>3
<1>. QED BY <1>1, <1>4 DEF Pairs

LEMMA RoundsPermute ==
    ASSUME NEW half, NEW F, IsNetwork(half, F), NEW p \in Pairs(half), NEW q \in Pairs(half)
    PROVE  FourRounds(p, F) \in Pairs(half) /\ (FourRounds(p, F) = FourRounds(q, F) => p = q)
<1>. DEFINE p1 == Round(p, F[0])
            p2 == Round(p1, F[1])
            p3 == Round(p2, F[2])
            q1 == Round(q, F[0])
            q2 == Round(q1, F[1])
            q3 == Round(q2, F[2])
<1>1. p1 \in Pairs(half) /\ q1 \in Pairs(half)
  BY RoundIn
<1>2. p1 = q1 => p = q
  BY RoundBack
<1>. HIDE DEF p1, q1
<1>3. p2 \in Pairs(half) /\ q2 \in Pairs(half)
  BY <1>1, RoundIn
<1>4. p2 = q2 => p1 = q1
  BY <1>1, RoundBack
<1>. HIDE DEF p2, q2
<1>5. p3 \in Pairs(half) /\ q3 \in Pairs(half)
  BY <1>3, RoundIn
<1>6. p3 = q3 => p2 = q2
  BY <1>3, RoundBack
<1>. HIDE DEF p3, q3
<1>7. Round(p3, F[3]) \in Pairs(half)
  BY <1>5, RoundIn
<1>8. Round(p3, F[3]) = Round(q3, F[3]) => p3 = q3
  BY <1>5, RoundBack
<1>9. FourRounds(p, F) = Round(p3, F[3]) /\ FourRounds(q, F) = Round(q3, F[3])
  BY DEF FourRounds, p1, p2, p3, q1, q2, q3
<1>. QED BY <1>2, <1>4, <1>6, <1>7, <1>8, <1>9

LEMMA TimesGrows == ASSUME NEW a \in Nat, NEW b \in Nat, NEW s \in Nat, a <= b PROVE a * s <= b * s
<1>1. PICK e \in Nat : b = a + e
  <2>1. b - a \in Nat /\ b = a + (b - a)
    OBVIOUS
  <2>. QED BY <2>1
<1>2. b * s = a * s + e * s /\ e * s >= 0 /\ a * s \in Nat
  BY <1>1
<1>. QED BY <1>2

LEMMA SplitIsPair ==
    ASSUME NEW half \in 1 .. 16, NEW x \in NetworkWords(half), NEW y \in NetworkWords(half)
    PROVE  Split(x, half) \in Pairs(half) /\ (Split(x, half) = Split(y, half) => x = y)
<1>1. PICK s \in Nat \ {0} : s = Shl[half]
  BY ShlSteps DEF Positive
<1>2. x \in 0 .. s * s - 1 /\ y \in 0 .. s * s - 1
  <2>1. Shl[2 * half] = s * s
    BY <1>1, ShlSquare
  <2>. QED BY <2>1 DEF NetworkWords
<1>3. /\ x = (s * (x \div s)) + (x % s) /\ x % s \in 0 .. s - 1
      /\ y = (s * (y \div s)) + (y % s)
  <2>1. x \in Int /\ y \in Int /\ s \in Int /\ s > 0
    BY <1>1, <1>2
  <2>2. x = (s * (x \div s)) + (x % s) /\ x % s \in 0 .. s - 1
    BY <2>1
  <2>3. y = (s * (y \div s)) + (y % s)
    BY <2>1
  <2>. QED BY <2>2, <2>3
<1>4. x \div s \in 0 .. s - 1
  <2>1. PICK q \in Int : q = x \div s
    BY <1>1, <1>2
  <2>2. q >= 0
    BY <1>1, <1>2, <2>1
  <2>3. ASSUME q >= s PROVE FALSE
    <3>1. s * q >= s * s
      <4>1. s \in Nat /\ q \in Nat /\ s <= q /\ s * q = q * s
        BY <1>1, <2>1, <2>3
      <4>. QED BY <4>1, TimesGrows
    <3>. QED BY <1>1, <1>2, <1>3, <2>1, <3>1
  <2>. QED BY <1>1, <2>1, <2>2, <2>3
<1>. QED BY <1>1, <1>2, <1>3, <1>4 DEF Split, Pairs, HalfWords

LEMMA JoinIsWord ==
    ASSUME NEW half \in 1 .. 16, NEW p \in Pairs(half), NEW q \in Pairs(half)
    PROVE  Join2(p, half) \in NetworkWords(half) /\ (Join2(p, half) = Join2(q, half) => p = q)
<1>1. PICK s \in Nat \ {0} : s = Shl[half]
  BY ShlSteps DEF Positive
<1>2. Shl[2 * half] = s * s
  BY <1>1, ShlSquare
<1>3. PICK a, b, c, d \in 0 .. s - 1 : p = <<a, b>> /\ q = <<c, d>>
  BY <1>1 DEF Pairs, HalfWords
<1>4. Join2(p, half) = a * s + b /\ Join2(q, half) = c * s + d
  BY <1>1, <1>3 DEF Join2
<1>5. a * s + b \in 0 .. s * s - 1
  <2>1. a * s <= (s - 1) * s /\ a * s >= 0
    <3>1. a \in Nat /\ s \in Nat /\ s - 1 \in Nat /\ a <= s - 1 /\ a * s \in Nat
      BY <1>1, <1>3
    <3>. QED BY <3>1, TimesGrows
  <2>2. (s - 1) * s = s * s - s
    BY <1>1
  <2>. QED BY <1>1, <1>3, <2>1, <2>2
<1>6. ASSUME a * s + b = c * s + d PROVE a = c /\ b = d
  <2>1. ASSUME a < c PROVE FALSE
    <3>1. (a + 1) * s <= c * s
      <4>1. a + 1 \in Nat /\ c \in Nat /\ s \in Nat /\ a + 1 <= c
        BY <1>1, <1>3, <2>1
      <4>. QED BY <4>1, TimesGrows
    <3>2. (a + 1) * s = a * s + s
      <4>1. a \in Nat /\ s \in Nat
        BY <1>1, <1>3
      <4>. QED BY <4>1
    <3>. QED BY <1>1, <1>3, <1>6, <3>1, <3>2
  <2>2. ASSUME c < a PROVE FALSE
    <3>1. (c + 1) * s <= a * s
      <4>1. c + 1 \in Nat /\ a \in Nat /\ s \in Nat /\ c + 1 <= a
        BY <1>1, <1>3, <2>2
      <4>. QED BY <4>1, TimesGrows
    <3>2. (c + 1) * s = c * s + s
      <4>1. c \in Nat /\ s \in Nat
        BY <1>1, <1>3
      <4>. QED BY <4>1
    <3>. QED BY <1>1, <1>3, <1>6, <3>1, <3>2
  <2>3. a = c
    BY <1>3, <2>1, <2>2
  <2>. QED BY <1>1, <1>3, <1>6, <2>3
<1>. QED BY <1>2, <1>3, <1>4, <1>5, <1>6 DEF NetworkWords

LEMMA FeistelPermutes ==
    ASSUME NEW half, NEW F, IsNetwork(half, F), NEW x \in NetworkWords(half), NEW y \in NetworkWords(half)
    PROVE  /\ Feistel(x, half, F) \in NetworkWords(half)
           /\ Feistel(x, half, F) = Feistel(y, half, F) => x = y
<1>1. PICK p, q : p = Split(x, half) /\ q = Split(y, half)
  OBVIOUS
<1>2. half \in 1 .. 16
  BY DEF IsNetwork
<1>3. p \in Pairs(half) /\ q \in Pairs(half) /\ (p = q => x = y)
  BY <1>1, <1>2, SplitIsPair
<1>4. PICK u, v : u = FourRounds(p, F) /\ v = FourRounds(q, F)
  OBVIOUS
<1>5. u \in Pairs(half) /\ v \in Pairs(half) /\ (u = v => p = q)
  BY <1>3, <1>4, RoundsPermute
<1>6. Join2(u, half) \in NetworkWords(half) /\ (Join2(u, half) = Join2(v, half) => u = v)
  BY <1>2, <1>5, JoinIsWord
<1>7. Feistel(x, half, F) = Join2(u, half) /\ Feistel(y, half, F) = Join2(v, half)
  BY <1>1, <1>4 DEF Feistel, Join2, FourRounds, Split
<1>. QED BY <1>3, <1>5, <1>6, <1>7

-----------------------------------------------------------------------------
(* Walking a permutation G of the words W until it is back among the c     *)
(* first of them: what w[n] makes of a word is where it comes to in at     *)
(* most n steps, or -1.                                                    *)

IsWalk(W, G, c, cap, w) ==
    /\ c \in Nat /\ cap \in Nat /\ W \subseteq Nat /\ 0 .. c - 1 \subseteq W
    /\ G \in [W -> W] /\ \A y, z \in W : G[y] = G[z] => y = z
    /\ w \in [0 .. cap -> [W -> Int]]
    /\ \A y \in W : w[0][y] = -1
    /\ \A n \in 1 .. cap : \A y \in W :
          /\ G[y] < c => w[n][y] = G[y]
          /\ ~(G[y] < c) => w[n][y] = w[n - 1][G[y]]

\* The walk from y comes to x at its nth step.
EndsIn(w, n, y, x) == w[n][y] = x /\ x # -1 /\ w[n - 1][y] = -1

LEMMA WalkStays ==
    ASSUME NEW W, NEW G, NEW c, NEW cap, NEW w, IsWalk(W, G, c, cap, w)
    PROVE  \A n \in 1 .. cap : \A y \in W : w[n - 1][y] # -1 => w[n][y] = w[n - 1][y]
<1>. DEFINE P(n) == \A y \in W : w[n - 1][y] # -1 => w[n][y] = w[n - 1][y]
            T == {n \in 1 .. cap : ~P(n)}
<1>1. ASSUME T # {} PROVE FALSE
  <2>1. PICK n \in T : \A j \in T : n <= j
    <3>1. T \subseteq Nat
      BY DEF IsWalk
    <3>. HIDE DEF T
    <3>. QED BY <1>1, <3>1, Least
  <2>2. PICK y \in W : w[n - 1][y] # -1 /\ w[n][y] # w[n - 1][y]
    OBVIOUS
  <2>3. n \in 1 .. cap /\ n # 1 /\ cap \in Nat
    BY <2>2 DEF IsWalk
  <2>4. n - 1 \in 1 .. cap /\ n - 1 \notin T
    BY <2>1, <2>3
  <2>5. P(n - 1)
    BY <2>4
  <2>6. G[y] \in W
    BY DEF IsWalk
  <2>7. CASE G[y] < c
    <3>1. w[n][y] = G[y] /\ w[n - 1][y] = G[y]
      BY <2>3, <2>4, <2>7 DEF IsWalk
    <3>. QED BY <2>2, <3>1
  <2>8. CASE ~(G[y] < c)
    <3>1. w[n][y] = w[n - 1][G[y]] /\ w[n - 1][y] = w[(n - 1) - 1][G[y]]
      BY <2>3, <2>4, <2>8 DEF IsWalk
    <3>2. w[(n - 1) - 1][G[y]] # -1 => w[n - 1][G[y]] = w[(n - 1) - 1][G[y]]
      BY <2>5, <2>6
    <3>. QED BY <2>2, <3>1, <3>2
  <2>. QED BY <2>7, <2>8
<1>. HIDE DEF P
<1>2. ASSUME NEW n \in 1 .. cap PROVE P(n)
  BY <1>1
<1>. QED BY <1>2 DEF P

LEMMA WalkEnds ==
    ASSUME NEW W, NEW G, NEW c, NEW cap, NEW w, IsWalk(W, G, c, cap, w),
           NEW n \in 0 .. cap, NEW y \in W, NEW x, w[n][y] = x, x # -1
    PROVE  \E m \in 1 .. cap : EndsIn(w, m, y, x)
<1>. DEFINE T == {m \in 0 .. cap : w[m][y] = x}
<1>1. PICK m \in T : \A j \in T : m <= j
  <2>1. T \subseteq Nat /\ n \in T
    BY DEF IsWalk
  <2>. HIDE DEF T
  <2>. QED BY <2>1, Least
<1>2. m \in 0 .. cap /\ w[m][y] = x /\ m # 0 /\ cap \in Nat
  BY DEF IsWalk
<1>3. m \in 1 .. cap /\ m - 1 \in 0 .. cap /\ m - 1 \notin T
  BY <1>1, <1>2
<1>4. w[m - 1][y] # x
  BY <1>3
<1>5. w[m - 1][y] = -1
  BY <1>2, <1>3, <1>4, WalkStays
<1>. QED BY <1>2, <1>3, <1>5 DEF EndsIn

LEMMA EndsStep ==
    ASSUME NEW W, NEW G, NEW c, NEW cap, NEW w, IsWalk(W, G, c, cap, w),
           NEW n \in 1 .. cap, NEW y \in W, NEW x, EndsIn(w, n, y, x)
    PROVE  /\ G[y] \in W
           /\ G[y] < c => n = 1 /\ x = G[y]
           /\ ~(G[y] < c) => n > 1 /\ EndsIn(w, n - 1, G[y], x)
<1>1. G[y] \in W /\ G[y] \in Nat /\ cap \in Nat
  BY DEF IsWalk
<1>2. n = 1 \/ n - 1 \in 1 .. cap
  BY <1>1
<1>3. ASSUME G[y] < c PROVE n = 1 /\ x = G[y]
  <2>1. w[n][y] = G[y]
    BY <1>3 DEF IsWalk
  <2>2. ASSUME n - 1 \in 1 .. cap PROVE FALSE
    <3>1. w[n - 1][y] = G[y]
      BY <1>3, <2>2 DEF IsWalk
    <3>. QED BY <1>1, <3>1 DEF EndsIn
  <2>. QED BY <1>2, <2>1, <2>2 DEF EndsIn
<1>4. ASSUME ~(G[y] < c) PROVE n > 1 /\ EndsIn(w, n - 1, G[y], x)
  <2>1. w[n][y] = w[n - 1][G[y]]
    BY <1>4 DEF IsWalk
  <2>2. n # 1
    BY <1>1, <2>1 DEF EndsIn, IsWalk
  <2>3. n - 1 \in 1 .. cap
    BY <1>2, <2>2
  <2>4. w[n - 1][y] = w[(n - 1) - 1][G[y]]
    BY <1>4, <2>3 DEF IsWalk
  <2>. QED BY <1>1, <2>1, <2>3, <2>4 DEF EndsIn
<1>. QED BY <1>1, <1>3, <1>4

\* Two walks as long as each other come together only if they began together.
LEMMA WalksApart ==
    ASSUME NEW W, NEW G, NEW c, NEW cap, NEW w, IsWalk(W, G, c, cap, w)
    PROVE  \A n \in 1 .. cap : \A y, z \in W : \A x :
              EndsIn(w, n, y, x) /\ EndsIn(w, n, z, x) => y = z
<1>. DEFINE P(n) == \A y, z \in W : \A x : EndsIn(w, n, y, x) /\ EndsIn(w, n, z, x) => y = z
            T == {n \in 1 .. cap : ~P(n)}
<1>1. ASSUME T # {} PROVE FALSE
  <2>1. PICK n \in T : \A j \in T : n <= j
    <3>1. T \subseteq Nat
      BY DEF IsWalk
    <3>. HIDE DEF T
    <3>. QED BY <1>1, <3>1, Least
  <2>2. PICK y \in W, z \in W : \E x : EndsIn(w, n, y, x) /\ EndsIn(w, n, z, x) /\ y # z
    OBVIOUS
  <2>3. PICK x : EndsIn(w, n, y, x) /\ EndsIn(w, n, z, x) /\ y # z
    BY <2>2
  <2>4. n \in 1 .. cap /\ cap \in Nat
    BY DEF IsWalk
  <2>. HIDE DEF T
  <2>5. /\ G[y] \in W /\ (G[y] < c => n = 1 /\ x = G[y])
        /\ ~(G[y] < c) => n > 1 /\ EndsIn(w, n - 1, G[y], x)
    BY <2>3, <2>4, EndsStep
  <2>6. /\ G[z] \in W /\ (G[z] < c => n = 1 /\ x = G[z])
        /\ ~(G[z] < c) => n > 1 /\ EndsIn(w, n - 1, G[z], x)
    BY <2>3, <2>4, EndsStep
  <2>7. G[y] # G[z]
    BY <2>3 DEF IsWalk
  <2>8. n > 1 /\ EndsIn(w, n - 1, G[y], x) /\ EndsIn(w, n - 1, G[z], x)
    BY <2>4, <2>5, <2>6, <2>7
  <2>9. n - 1 \in 1 .. cap /\ n - 1 \notin T
    BY <2>1, <2>4, <2>8
  <2>10. P(n - 1)
    BY <2>9 DEF T
  <2>. HIDE DEF P
  <2>11. \A u, v \in W : \A s : EndsIn(w, n - 1, u, s) /\ EndsIn(w, n - 1, v, s) => u = v
    BY <2>10 DEF P
  <2>. QED BY <2>5, <2>6, <2>7, <2>8, <2>11
<1>. HIDE DEF P
<1>2. ASSUME NEW n \in 1 .. cap PROVE P(n)
  BY <1>1
<1>. QED BY <1>2 DEF P

\* A longer walk passes a word from which m steps are left, and it is not among the c first.
LEMMA WalkPasses ==
    ASSUME NEW W, NEW G, NEW c, NEW cap, NEW w, IsWalk(W, G, c, cap, w)
    PROVE  \A n \in 1 .. cap : \A y \in W : \A x : \A m \in 1 .. n - 1 :
              EndsIn(w, n, y, x) => \E z \in W : ~(z < c) /\ EndsIn(w, m, z, x)
<1>. DEFINE P(n) == \A y \in W : \A x : \A m \in 1 .. n - 1 :
                       EndsIn(w, n, y, x) => \E z \in W : ~(z < c) /\ EndsIn(w, m, z, x)
            T == {n \in 1 .. cap : ~P(n)}
<1>1. ASSUME T # {} PROVE FALSE
  <2>1. PICK n \in T : \A j \in T : n <= j
    <3>1. T \subseteq Nat
      BY DEF IsWalk
    <3>. HIDE DEF T
    <3>. QED BY <1>1, <3>1, Least
  <2>2. ~P(n)
    OBVIOUS
  <2>3. PICK y \in W : ~ \A x : \A m \in 1 .. n - 1 :
            EndsIn(w, n, y, x) => \E z \in W : ~(z < c) /\ EndsIn(w, m, z, x)
    BY <2>2
  <2>4. PICK x : ~ \A m \in 1 .. n - 1 :
            EndsIn(w, n, y, x) => \E z \in W : ~(z < c) /\ EndsIn(w, m, z, x)
    BY <2>3
  <2>5. PICK m \in 1 .. n - 1 :
            ~(EndsIn(w, n, y, x) => \E z \in W : ~(z < c) /\ EndsIn(w, m, z, x))
    BY <2>4
  <2>6. EndsIn(w, n, y, x) /\ ~ \E z \in W : ~(z < c) /\ EndsIn(w, m, z, x)
    BY <2>5
  <2>7. n \in 1 .. cap /\ cap \in Nat
    BY DEF IsWalk
  <2>. HIDE DEF T
  <2>8. /\ G[y] \in W /\ (G[y] < c => n = 1 /\ x = G[y])
        /\ ~(G[y] < c) => n > 1 /\ EndsIn(w, n - 1, G[y], x)
    BY <2>6, <2>7, EndsStep
  <2>9. n > 1 /\ ~(G[y] < c) /\ EndsIn(w, n - 1, G[y], x)
    BY <2>6, <2>7, <2>8
  <2>10. m # n - 1
    BY <2>6, <2>8, <2>9
  <2>11. n - 1 \in 1 .. cap /\ n - 1 \notin T /\ m \in 1 .. (n - 1) - 1
    BY <2>1, <2>6, <2>7, <2>9, <2>10
  <2>12. P(n - 1)
    BY <2>11 DEF T
  <2>. HIDE DEF P
  <2>13. \A u \in W : \A s : \A l \in 1 .. (n - 1) - 1 :
           EndsIn(w, n - 1, u, s) => \E z \in W : ~(z < c) /\ EndsIn(w, l, z, s)
    BY <2>12 DEF P
  <2>. QED BY <2>6, <2>8, <2>9, <2>11, <2>13
<1>. HIDE DEF P
<1>2. ASSUME NEW n \in 1 .. cap PROVE P(n)
  BY <1>1
<1>. QED BY <1>2 DEF P

LEMMA WalkPermutes ==
    ASSUME NEW W, NEW G, NEW c, NEW cap, NEW w, IsWalk(W, G, c, cap, w),
           NEW t \in 0 .. c - 1, NEW u \in 0 .. c - 1, NEW x, x # -1, w[cap][t] = x
    PROVE  x \in 0 .. c - 1 /\ (w[cap][u] = x => t = u)
<1>1. t \in W /\ u \in W /\ cap \in 0 .. cap /\ c \in Nat /\ t \in Nat /\ u \in Nat /\ cap \in Nat
  BY DEF IsWalk
<1>2. PICK n \in 1 .. cap : EndsIn(w, n, t, x)
  BY <1>1, WalkEnds
<1>3. x \in 0 .. c - 1
  <2>. DEFINE P(j) == \A y \in W : EndsIn(w, j, y, x) => x \in 0 .. c - 1
              T == {j \in 1 .. cap : ~P(j)}
  <2>1. ASSUME T # {} PROVE FALSE
    <3>1. PICK j \in T : \A i \in T : j <= i
      <4>1. T \subseteq Nat
        BY <1>1
      <4>. HIDE DEF T
      <4>. QED BY <2>1, <4>1, Least
    <3>2. PICK y \in W : EndsIn(w, j, y, x) /\ x \notin 0 .. c - 1
      OBVIOUS
    <3>3. j \in 1 .. cap
      OBVIOUS
    <3>. HIDE DEF T
    <3>4. /\ G[y] \in W /\ (G[y] < c => j = 1 /\ x = G[y])
          /\ ~(G[y] < c) => j > 1 /\ EndsIn(w, j - 1, G[y], x)
      BY <3>2, <3>3, EndsStep
    <3>5. G[y] \in Nat
      BY <3>4 DEF IsWalk
    <3>6. CASE G[y] < c
      BY <1>1, <3>2, <3>4, <3>5, <3>6
    <3>7. CASE ~(G[y] < c)
      <4>1. j - 1 \in 1 .. cap /\ j - 1 \notin T
        BY <1>1, <3>1, <3>3, <3>4, <3>7
      <4>2. P(j - 1)
        BY <4>1 DEF T
      <4>. QED BY <3>2, <3>4, <3>7, <4>2
    <3>. QED BY <3>6, <3>7
  <2>2. P(n)
    BY <2>1
  <2>. QED BY <1>1, <1>2, <2>2
<1>4. ASSUME w[cap][u] = x PROVE t = u
  <2>1. PICK m \in 1 .. cap : EndsIn(w, m, u, x)
    BY <1>1, <1>4, WalkEnds
  <2>2. CASE n = m
    <3>1. EndsIn(w, n, u, x)
      BY <2>1, <2>2
    <3>. QED BY <1>1, <1>2, <3>1, WalksApart
  <2>3. CASE n < m
    <3>1. n \in 1 .. m - 1
      BY <2>3
    <3>2. PICK z \in W : ~(z < c) /\ EndsIn(w, n, z, x)
      BY <1>1, <2>1, <3>1, WalkPasses
    <3>3. z = t
      BY <1>1, <1>2, <3>2, WalksApart
    <3>. QED BY <1>1, <3>2, <3>3
  <2>4. CASE m < n
    <3>1. m \in 1 .. n - 1
      BY <2>4
    <3>2. PICK z \in W : ~(z < c) /\ EndsIn(w, m, z, x)
      BY <1>1, <1>2, <3>1, WalkPasses
    <3>3. z = u
      BY <1>1, <2>1, <3>2, WalksApart
    <3>. QED BY <1>1, <3>2, <3>3
  <2>. QED BY <2>2, <2>3, <2>4
<1>. QED BY <1>3, <1>4

\* No walk goes on for longer than there are words: the words whose walks go on are fewer after
\* each step, as long as one of the c first is among them.
LEMMA WalksEnd ==
    ASSUME NEW W, NEW G, NEW c, NEW cap, NEW w, IsWalk(W, G, c, cap, w),
           IsFiniteSet(W), Cardinality(W) <= cap, NEW t \in 0 .. c - 1
    PROVE  w[cap][t] # -1
<1>. DEFINE D(n) == {y \in W : w[n][y] = -1}
            Q(n) == D(n) \cap (0 .. c - 1) = {} \/ Cardinality(D(n)) + n <= Cardinality(W)
            T == {n \in 0 .. cap : ~Q(n)}
<1>1. cap \in Nat /\ Cardinality(W) \in Nat /\ \A n : IsFiniteSet(D(n)) /\ Cardinality(D(n)) \in Nat
  <2>1. \A n : D(n) \in SUBSET W
    OBVIOUS
  <2>. HIDE DEF D
  <2>2. ASSUME NEW n PROVE IsFiniteSet(D(n)) /\ Cardinality(D(n)) \in Nat
    <3>1. IsFiniteSet(D(n))
      BY <2>1, FS_Subset
    <3>. QED BY <3>1, FS_CardinalityType
  <2>3. Cardinality(W) \in Nat
    BY FS_CardinalityType
  <2>. QED BY <2>2, <2>3 DEF IsWalk
<1>2. Q(0)
  <2>1. D(0) = W
    BY DEF IsWalk
  <2>. QED BY <1>1, <2>1
<1>3. ASSUME NEW n \in 1 .. cap, Q(n - 1) PROVE Q(n)
  <2>. SUFFICES ASSUME NEW u \in D(n) \cap (0 .. c - 1)
                PROVE  Cardinality(D(n)) + n <= Cardinality(W)
    OBVIOUS
  <2>1. u \in D(n - 1) /\ u \in 0 .. c - 1 /\ c \in Nat
    <3>1. u \in W /\ w[n][u] = -1
      OBVIOUS
    <3>2. w[n - 1][u] # -1 => w[n][u] = w[n - 1][u]
      BY <3>1, WalkStays
    <3>. QED BY <3>1, <3>2 DEF IsWalk
  <2>2. Cardinality(D(n - 1)) + (n - 1) <= Cardinality(W)
    <3>. HIDE DEF D
    <3>. QED BY <1>3, <2>1
  <2>. DEFINE g == [y \in D(n) |-> G[y]]
  <2>3. ASSUME NEW y \in D(n) PROVE G[y] \in D(n - 1) \ {u}
    <3>1. y \in W /\ w[n][y] = -1 /\ G[y] \in W /\ G[y] \in Nat
      BY DEF IsWalk
    <3>2. ~(G[y] < c)
      BY <3>1 DEF IsWalk
    <3>3. w[n - 1][G[y]] = -1
      BY <3>1, <3>2 DEF IsWalk
    <3>4. G[y] # u
      BY <2>1, <3>2
    <3>. QED BY <3>1, <3>3, <3>4
  <2>4. g \in [D(n) -> D(n - 1) \ {u}] /\ \A y, z \in D(n) : g[y] = g[z] => y = z
    <3>1. \A y \in D(n) : y \in W
      OBVIOUS
    <3>. QED BY <2>3, <3>1 DEF IsWalk
  <2>5. g \in Injection(D(n), D(n - 1) \ {u})
    <3>. HIDE DEF D, g
    <3>. QED BY <2>4 DEF Injection, IsInjective
  <2>. HIDE DEF D, g
  <2>6. /\ IsFiniteSet(D(n - 1) \ {u})
        /\ Cardinality(D(n - 1) \ {u}) = Cardinality(D(n - 1)) - 1
    BY <1>1, <2>1, FS_RemoveElement
  <2>7. Cardinality(D(n)) <= Cardinality(D(n - 1) \ {u})
    BY <2>5, <2>6, FS_Injection
  <2>. QED BY <1>1, <2>2, <2>6, <2>7
<1>4. T = {}
  <2>. SUFFICES ASSUME T # {} PROVE FALSE
    OBVIOUS
  <2>. HIDE DEF Q
  <2>1. PICK n \in T : \A j \in T : n <= j
    <3>1. T \subseteq Nat
      BY <1>1
    <3>. HIDE DEF T
    <3>. QED BY <3>1, Least
  <2>2. n \in 1 .. cap /\ n - 1 \in 0 .. cap /\ n - 1 \notin T
    BY <1>1, <1>2, <2>1
  <2>3. Q(n - 1)
    BY <2>2
  <2>. QED BY <1>3, <2>2, <2>3
<1>5. Q(cap)
  <2>. HIDE DEF Q
  <2>. QED BY <1>1, <1>4
<1>. SUFFICES ASSUME w[cap][t] = -1 PROVE FALSE
  OBVIOUS
<1>6. t \in D(cap) \cap (0 .. c - 1)
  BY DEF IsWalk
<1>7. Cardinality(D(cap)) = 0
  <2>. HIDE DEF D
  <2>1. Cardinality(D(cap)) + cap <= Cardinality(W)
    BY <1>5, <1>6
  <2>. QED BY <1>1, <2>1
<1>8. D(cap) = {}
  <2>1. IsFiniteSet(D(cap))
    BY <1>1
  <2>. HIDE DEF D
  <2>. QED BY <1>7, <2>1, FS_EmptySet
<1>. QED BY <1>6, <1>8

-----------------------------------------------------------------------------
(* What ShufflePermute makes of the tickets.                               *)

WalkOn(v, W, half, chunks, F) ==
    [y \in W |-> IF Feistel(y, half, F) < chunks THEN Feistel(y, half, F) ELSE v[Feistel(y, half, F)]]
WalkStep(v, left, half, chunks, F) ==
    [y \in NetworkWords(half) |->
        IF left = 0 THEN NotConverged
        ELSE IF Feistel(y, half, F) < chunks THEN Feistel(y, half, F)
             ELSE v[left - 1][Feistel(y, half, F)]]
IsWalkOf(v, half, chunks, F) == v = [left \in 0 .. WalkCap |-> WalkStep(v, left, half, chunks, F)]

LEMMA WalkExists ==
    ASSUME NEW chunks \in Nat, NEW half, NEW F, IsNetwork(half, F)
    PROVE  \E v \in [0 .. WalkCap -> [NetworkWords(half) -> Int]] : IsWalkOf(v, half, chunks, F)
<1>1. PICK W : W = NetworkWords(half)
  OBVIOUS
<1>2. PICK S : S = [W -> Int]
  OBVIOUS
<1>3. PICK a : a = [y \in W |-> -1]
  OBVIOUS
<1>4. half \in 1 .. 16 /\ W \subseteq Nat /\ WalkCap \in Nat /\ \A y \in W : Feistel(y, half, F) \in W
  <2>1. half \in 1 .. 16
    BY DEF IsNetwork
  <2>2. W \subseteq Nat
    BY <1>1, <2>1 DEF NetworkWords
  <2>. QED BY <1>1, <2>1, <2>2, FeistelPermutes, JobsAssumption
<1>. DEFINE G == [v \in S |-> WalkOn(v, W, half, chunks, F)]
<1>5. G \in [S -> S] /\ a \in S
  <2>1. ASSUME NEW v \in S PROVE WalkOn(v, W, half, chunks, F) \in S
    <3>1. ASSUME NEW y \in W
          PROVE (IF Feistel(y, half, F) < chunks THEN Feistel(y, half, F) ELSE v[Feistel(y, half, F)]) \in Int
      <4>1. PICK z \in W : z = Feistel(y, half, F)
        BY <1>4
      <4>2. v[z] \in Int /\ z \in Int
        BY <1>2, <1>4
      <4>. QED BY <4>1, <4>2
    <3>. QED BY <1>2, <3>1 DEF WalkOn
  <2>. QED BY <1>2, <1>3, <2>1
<1>. HIDE DEF G
<1>6. PICK v \in [0 .. WalkCap -> S] : Repeats(G, a, WalkCap, v)
  BY <1>4, <1>5, RepeatsExists
<1>7. ASSUME NEW n \in 0 .. WalkCap PROVE v[n] = WalkStep(v, n, half, chunks, F)
  <2>1. CASE n = 0
    BY <1>1, <1>3, <1>6, <2>1 DEF Repeats, WalkStep, NotConverged
  <2>2. CASE n # 0
    <3>1. n \in 1 .. WalkCap /\ n - 1 \in 0 .. WalkCap
      BY <1>4, <2>2
    <3>2. v[n] = G[v[n - 1]] /\ v[n - 1] \in S
      BY <1>6, <3>1 DEF Repeats
    <3>3. v[n] = WalkOn(v[n - 1], W, half, chunks, F)
      BY <3>2 DEF G
    <3>. QED BY <1>1, <2>2, <3>3 DEF WalkOn, WalkStep
  <2>. QED BY <2>1, <2>2
<1>8. v = [n \in 0 .. WalkCap |-> v[n]]
  BY <1>6
<1>. QED BY <1>1, <1>2, <1>6, <1>7, <1>8 DEF IsWalkOf

LEMMA WalkIsWalk ==
    ASSUME NEW chunks \in 0 .. U32 - 1, NEW F, NEW half, half = HalfBits(chunks), IsNetwork(half, F)
    PROVE  \E G : IsWalk(NetworkWords(half), G, chunks, WalkCap, Walk(chunks, F))
<1>1. PICK v : v = CHOOSE u : IsWalkOf(u, half, chunks, F)
  OBVIOUS
<1>2. Walk(chunks, F) = v
  BY <1>1 DEF Walk, IsWalkOf, WalkStep
<1>3. IsWalkOf(v, half, chunks, F)
  <2>1. chunks \in Nat
    BY WidthAssumption
  <2>. QED BY <1>1, <2>1, WalkExists
<1>4. PICK W : W = NetworkWords(half)
  OBVIOUS
<1>. DEFINE G == [y \in W |-> Feistel(y, half, F)]
<1>5. /\ half \in 1 .. 16 /\ W \subseteq Nat /\ chunks \in Nat /\ WalkCap \in Nat
      /\ 0 .. chunks - 1 \subseteq W
      /\ G \in [W -> W] /\ \A y, z \in W : G[y] = G[z] => y = z
  <2>1. half \in 1 .. 16 /\ chunks \in Nat /\ WalkCap \in Nat
    BY JobsAssumption, WidthAssumption DEF IsNetwork
  <2>2. W \subseteq Nat /\ 0 .. chunks - 1 \subseteq W
    <3>1. chunks <= Shl[2 * half] /\ 2 * half \in 0 .. 32
      BY <2>1, WidthFits
    <3>2. Shl[2 * half] \in Nat
      BY <3>1, ShlSteps DEF Positive
    <3>. QED BY <1>4, <2>1, <3>1, <3>2 DEF NetworkWords
  <2>. QED BY <1>4, <2>1, <2>2, FeistelPermutes
<1>6. v = [left \in 0 .. WalkCap |-> WalkStep(v, left, half, chunks, F)]
  BY <1>3 DEF IsWalkOf
<1>7. \A n \in 0 .. WalkCap : v[n] = WalkStep(v, n, half, chunks, F)
  BY <1>6
<1>8. \A y \in W : v[0][y] = -1
  <2>1. 0 \in 0 .. WalkCap
    BY <1>5
  <2>2. v[0] = WalkStep(v, 0, half, chunks, F)
    BY <1>7, <2>1
  <2>. HIDE DEF G
  <2>. QED BY <1>4, <2>2 DEF WalkStep, NotConverged
<1>9. \A n \in 1 .. WalkCap : \A y \in W :
         /\ G[y] < chunks => v[n][y] = G[y]
         /\ ~(G[y] < chunks) => v[n][y] = v[n - 1][G[y]]
  <2>. SUFFICES ASSUME NEW n \in 1 .. WalkCap, NEW y \in W
                PROVE  /\ G[y] < chunks => v[n][y] = G[y]
                       /\ ~(G[y] < chunks) => v[n][y] = v[n - 1][G[y]]
    OBVIOUS
  <2>1. n \in 0 .. WalkCap /\ n # 0
    BY <1>5
  <2>2. v[n] = WalkStep(v, n, half, chunks, F)
    BY <1>7, <2>1
  <2>3. v[n][y] = IF Feistel(y, half, F) < chunks THEN Feistel(y, half, F)
                  ELSE v[n - 1][Feistel(y, half, F)]
    BY <1>4, <2>1, <2>2 DEF WalkStep
  <2>4. G[y] = Feistel(y, half, F)
    OBVIOUS
  <2>. HIDE DEF G
  <2>. QED BY <2>3, <2>4
<1>. HIDE DEF G
<1>10. \A n \in 0 .. WalkCap : v[n] \in [W -> Int]
  <2>. DEFINE T == {n \in 0 .. WalkCap : v[n] \notin [W -> Int]}
  <2>1. ASSUME T # {} PROVE FALSE
    <3>1. PICK n \in T : \A j \in T : n <= j
      <4>1. T \subseteq Nat
        BY <1>5
      <4>. HIDE DEF T
      <4>. QED BY <2>1, <4>1, Least
    <3>2. n \in 0 .. WalkCap /\ v[n] \notin [W -> Int]
      OBVIOUS
    <3>3. v[n] = [y \in W |-> v[n][y]]
      BY <1>4, <1>7, <3>2 DEF WalkStep
    <3>4. PICK y \in W : v[n][y] \notin Int
      BY <3>2, <3>3
    <3>5. n # 0
      BY <1>8, <3>4
    <3>6. n \in 1 .. WalkCap /\ n - 1 \in 0 .. WalkCap /\ n - 1 \notin T
      BY <1>5, <3>1, <3>2, <3>5
    <3>7. v[n - 1] \in [W -> Int] /\ G[y] \in W /\ G[y] \in Int
      <4>1. v[n - 1] \in [W -> Int]
        BY <3>6
      <4>2. G[y] \in W
        BY <1>5
      <4>3. \A z \in W : z \in Int
        BY <1>5
      <4>. QED BY <4>1, <4>2, <4>3
    <3>8. v[n - 1][G[y]] \in Int
      BY <3>7
    <3>. QED BY <1>9, <3>4, <3>6, <3>7, <3>8
  <2>. QED BY <2>1
<1>11. v \in [0 .. WalkCap -> [W -> Int]]
  <2>1. v = [n \in 0 .. WalkCap |-> v[n]]
    BY <1>6, <1>7
  <2>. QED BY <1>10, <2>1
<1>12. IsWalk(W, G, chunks, WalkCap, v)
  BY <1>5, <1>8, <1>9, <1>11 DEF IsWalk
<1>. QED BY <1>2, <1>4, <1>12

LEMMA PermuteFacts ==
    ASSUME NEW chunks \in 0 .. U32 - 1, NEW F, NEW half, half = HalfBits(chunks), IsNetwork(half, F),
           NEW t \in 0 .. chunks - 1, NEW u \in 0 .. chunks - 1,
           NEW x, x = ShufflePermute(t, chunks, F)
    PROVE  /\ x # NotConverged => x \in 0 .. chunks - 1
           /\ x # NotConverged /\ ShufflePermute(u, chunks, F) = x => t = u
           /\ Shl[2 * half] <= WalkCap => x # NotConverged
<1>1. chunks \in Nat /\ WalkCap \in Nat /\ NotConverged = -1
  BY WidthAssumption, JobsAssumption DEF NotConverged
<1>2. CASE chunks <= 1
  BY <1>1, <1>2 DEF ShufflePermute
<1>3. CASE ~(chunks <= 1)
  <2>1. PICK w : w = Walk(chunks, F)
    OBVIOUS
  <2>2. PICK G, W : W = NetworkWords(half) /\ IsWalk(W, G, chunks, WalkCap, w)
    BY <2>1, WalkIsWalk
  <2>3. x = w[WalkCap][t] /\ ShufflePermute(u, chunks, F) = w[WalkCap][u]
    BY <1>3, <2>1 DEF ShufflePermute
  <2>4. ASSUME x # -1 PROVE x \in 0 .. chunks - 1 /\ (w[WalkCap][u] = x => t = u)
    BY <2>2, <2>3, <2>4, WalkPermutes
  <2>5. ASSUME Shl[2 * half] <= WalkCap PROVE x # -1
    <3>1. 2 * half \in 0 .. 32
      BY DEF IsNetwork
    <3>2. PICK s \in Nat : s = Shl[2 * half] /\ s > 0
      BY <3>1, ShlSteps DEF Positive
    <3>3. W = 0 .. s - 1
      BY <2>2, <3>2 DEF NetworkWords
    <3>4. IsFiniteSet(W) /\ Cardinality(W) = s
      <4>1. 0 \in Int /\ s - 1 \in Int /\ ~(0 > s - 1) /\ ((s - 1) - 0) + 1 = s
        BY <3>2
      <4>2. IsFiniteSet(0 .. s - 1) /\ Cardinality(0 .. s - 1) = ((s - 1) - 0) + 1
        BY <4>1, FS_Interval
      <4>. QED BY <3>3, <4>1, <4>2
    <3>5. Cardinality(W) <= WalkCap
      BY <2>5, <3>2, <3>4
    <3>. QED BY <2>2, <2>3, <3>4, <3>5, WalksEnd
  <2>. QED BY <1>1, <2>3, <2>4, <2>5
<1>. QED BY <1>2, <1>3

-----------------------------------------------------------------------------
(* The chunks and their slices.                                            *)

LEMMA Divided ==
    ASSUME NEW a \in Nat, NEW b \in Nat \ {0}
    PROVE  a = (b * (a \div b)) + (a % b) /\ a \div b \in Nat /\ a % b \in 0 .. b - 1
OBVIOUS

LEMMA ChunksOf ==
    ASSUME NEW j \in Jobs, NEW C, C = ChunkCount(j.n, j.grain)
    PROVE  /\ j.n \in 0 .. U32 - 1 /\ j.grain \in 1 .. U32 - 1 /\ C \in 0 .. U32 - 1
           /\ C * j.grain >= j.n /\ C * j.grain < j.n + j.grain
<1>1. PICK n, g : n = j.n /\ g = j.grain
  OBVIOUS
<1>2. n \in 0 .. U32 - 1 /\ g \in 1 .. U32 - 1 /\ U32 \in Nat
  BY <1>1, JobsAssumption, WidthAssumption
<1>3. n + g - 1 \in 0 .. U32 * U32 - 1
  <2>1. PICK e \in Nat : U32 = 2 + e
    <3>1. U32 - 2 \in Nat /\ U32 = 2 + (U32 - 2)
      BY <1>2
    <3>. QED BY <3>1
  <2>2. U32 * U32 = 4 + 4 * e + e * e /\ e * e \in Nat
    BY <2>1
  <2>. QED BY <1>2, <2>1, <2>2
<1>4. (n + g - 1) % U64 = n + g - 1
  BY <1>2, <1>3 DEF U64
<1>5. PICK q \in Nat, r \in 0 .. g - 1 : n + g - 1 = (g * q) + r /\ q = (n + g - 1) \div g
  <2>1. n + g - 1 \in Nat /\ g \in Nat \ {0}
    BY <1>2
  <2>2. PICK a \in Nat : a = n + g - 1
    BY <2>1
  <2>3. a = (g * (a \div g)) + (a % g) /\ a \div g \in Nat /\ a % g \in 0 .. g - 1
    BY <2>1, Divided
  <2>4. n + g - 1 = (g * (a \div g)) + (a % g) /\ a \div g = (n + g - 1) \div g
    BY <2>2, <2>3
  <2>. QED BY <2>3, <2>4
<1>6. q <= n
  <2>1. ASSUME q >= n + 1 PROVE FALSE
    <3>1. (n + 1) * g <= q * g
      BY <1>2, <1>5, <2>1, TimesGrows
    <3>2. (n + 1) * g = n * g + g /\ n * 1 <= n * g
      <4>1. n * 1 <= n * g
        <5>1. 1 * n <= g * n
          BY <1>2, TimesGrows
        <5>. QED BY <1>2, <5>1
      <4>2. n \in Nat /\ g \in Nat
        BY <1>2
      <4>3. (n + 1) * g = n * g + g
        BY <4>2
      <4>. QED BY <4>1, <4>3
    <3>3. n * g \in Nat /\ q * g \in Nat /\ g * q = q * g
      BY <1>2, <1>5
    <3>. QED BY <1>2, <1>5, <3>1, <3>2, <3>3
  <2>. QED BY <1>2, <1>5, <2>1
<1>7. C = q
  <2>1. q % U32 = q
    BY <1>2, <1>5, <1>6
  <2>. QED BY <1>1, <1>4, <1>5, <2>1 DEF ChunkCount
<1>8. C * g >= n /\ C * g < n + g
  <2>1. g * q = q * g /\ q * g \in Nat
    BY <1>2, <1>5
  <2>. QED BY <1>2, <1>5, <1>7, <2>1
<1>. QED BY <1>1, <1>2, <1>5, <1>6, <1>7, <1>8

\* Each item is of the slice of one chunk, the quotient of the item by the grain.
LEMMA SlicesTile ==
    ASSUME args \in Jobs, NEW i \in 0 .. args.n - 1, NEW c \in 0 .. Chunks - 1
    PROVE  /\ i \div args.grain \in 0 .. Chunks - 1
           /\ i \in SliceOf(c) <=> c = i \div args.grain
<1>1. PICK n, g, C : n = args.n /\ g = args.grain /\ C = Chunks
  OBVIOUS
<1>2. /\ n \in 0 .. U32 - 1 /\ g \in 1 .. U32 - 1 /\ C \in 0 .. U32 - 1
      /\ C * g >= n /\ C * g < n + g /\ U32 \in Nat
  BY <1>1, ChunksOf, WidthAssumption DEF Chunks
<1>3. PICK d \in Nat, r \in 0 .. g - 1 : i = (g * d) + r /\ d = i \div g
  <2>1. i \in Nat /\ g \in Nat \ {0}
    BY <1>1, <1>2
  <2>2. i = (g * (i \div g)) + (i % g) /\ i \div g \in Nat /\ i % g \in 0 .. g - 1
    BY <2>1
  <2>. QED BY <2>2
<1>4. c \in Nat /\ g \in Nat /\ i \in Nat /\ C \in Nat /\ i < n /\ c < C /\ n \in Nat
  BY <1>1, <1>2
<1>5. d * g = g * d /\ d * g \in Nat /\ c * g \in Nat
  BY <1>3, <1>4
<1>6. d < C
  <2>1. ASSUME C <= d PROVE FALSE
    <3>1. C * g <= d * g
      BY <1>3, <1>4, <2>1, TimesGrows
    <3>. QED BY <1>2, <1>3, <1>4, <1>5, <3>1
  <2>. QED BY <1>3, <1>4, <2>1
<1>7. c * g < n
  <2>1. (c + 1) * g <= C * g
    BY <1>4, TimesGrows
  <2>2. (c + 1) * g = c * g + g
    BY <1>4
  <2>. QED BY <1>2, <1>4, <1>5, <2>1, <2>2
<1>8. c * g < U32 /\ U64 = U32 * U32 /\ c * g + g < U32 * U32
  <2>1. PICK e \in Nat : U32 = 2 + e
    <3>1. U32 - 2 \in Nat /\ U32 = 2 + (U32 - 2)
      BY <1>2
    <3>. QED BY <3>1
  <2>2. U32 * U32 = 4 + 4 * e + e * e /\ e * e \in Nat
    BY <2>1
  <2>. QED BY <1>2, <1>5, <1>7, <2>1, <2>2 DEF U64
<1>9. PICK m \in Nat : m = c * g
  BY <1>5
<1>10. m % U64 = m /\ m % U32 = m /\ (m + g) % U64 = m + g
  <2>1. U64 \in Nat /\ m \in 0 .. U64 - 1 /\ m \in 0 .. U32 - 1 /\ m + g \in 0 .. U64 - 1
    BY <1>2, <1>8, <1>9
  <2>. QED BY <1>2, <2>1
<1>11. ChunkBegin(c, g) = m /\ ChunkEnd(c, n, g) = IF m + g < n THEN m + g ELSE n
  BY <1>9, <1>10 DEF ChunkBegin, ChunkEnd
<1>12. i \in SliceOf(c) <=> m <= i /\ i < m + g
  BY <1>1, <1>2, <1>4, <1>9, <1>11 DEF SliceOf
<1>13. PICK p \in Nat : p = d * g
  BY <1>5
<1>14. i = p + r /\ r \in 0 .. g - 1 /\ g \in Nat /\ m \in Nat
  BY <1>3, <1>4, <1>5, <1>13
<1>15. ASSUME c = d PROVE m <= i /\ i < m + g
  <2>1. m = p
    BY <1>9, <1>13, <1>15
  <2>. QED BY <1>14, <2>1
<1>16. ASSUME c < d PROVE ~(i < m + g)
  <2>1. (c + 1) * g <= d * g
    BY <1>3, <1>4, <1>16, TimesGrows
  <2>2. (c + 1) * g = c * g + g
    BY <1>4
  <2>3. m + g <= p
    BY <1>9, <1>13, <2>1, <2>2
  <2>. QED BY <1>14, <2>3
<1>17. ASSUME d < c PROVE ~(m <= i)
  <2>1. (d + 1) * g <= c * g
    BY <1>3, <1>4, <1>17, TimesGrows
  <2>2. (d + 1) * g = d * g + g
    <3>1. d \in Nat /\ g \in Nat
      BY <1>3, <1>4
    <3>. QED BY <3>1
  <2>3. p + g <= m
    BY <1>9, <1>13, <2>1, <2>2
  <2>. QED BY <1>14, <2>3
<1>18. c = d \/ c < d \/ d < c
  BY <1>3, <1>4
<1>19. i \in SliceOf(c) <=> c = d
  BY <1>12, <1>15, <1>16, <1>17, <1>18, Zenon
<1>20. d \in 0 .. C - 1
  BY <1>3, <1>4, <1>6
<1>. QED BY <1>1, <1>3, <1>19, <1>20

-----------------------------------------------------------------------------
(* The loop in shuffle mode.                                               *)

ChunkAt(t) == ShufflePermute(t, Chunks, rounds)
Covering(i, n) == \E t \in 0 .. n - 1 : ChunkAt(t) = i \div args.grain
ShuffleIInv ==
    /\ args \in Jobs /\ rounds \in RoundFunctions(HalfBits(Chunks))
    /\ next_ticket \in 0 .. Chunks
    /\ \A t \in 0 .. next_ticket - 1 : ChunkAt(t) # NotConverged
    /\ covered \in [0 .. args.n - 1 -> {0, 1}]
    /\ \A i \in 0 .. args.n - 1 : covered[i] = 1 <=> Covering(i, next_ticket)

LEMMA ChunksType ==
    ASSUME args \in Jobs
    PROVE  Chunks \in 0 .. U32 - 1 /\ args.n \in Nat /\ args.grain \in Nat \ {0}
<1>1. Chunks \in 0 .. U32 - 1 /\ args.n \in 0 .. U32 - 1 /\ args.grain \in 1 .. U32 - 1
  BY ChunksOf DEF Chunks
<1>. QED BY <1>1, WidthAssumption

LEMMA NetworkOf ==
    ASSUME args \in Jobs, rounds \in RoundFunctions(HalfBits(Chunks))
    PROVE  IsNetwork(HalfBits(Chunks), rounds)
<1>1. HalfBits(Chunks) \in Halves
  BY DEF Halves, Chunks
<1>2. HalfBits(Chunks) \in 1 .. 16
  BY ChunksType, WidthFits
<1>. QED BY <1>1, <1>2, NetworkAssumption DEF IsNetwork

\* Different tickets run different chunks.
LEMMA TicketsPermute ==
    ASSUME args \in Jobs, rounds \in RoundFunctions(HalfBits(Chunks)),
           NEW t \in 0 .. Chunks - 1, NEW u \in 0 .. Chunks - 1
    PROVE  /\ ChunkAt(t) # NotConverged => ChunkAt(t) \in 0 .. Chunks - 1
           /\ ChunkAt(t) # NotConverged /\ ChunkAt(u) = ChunkAt(t) => t = u
           /\ Shl[2 * HalfBits(Chunks)] <= WalkCap => ChunkAt(t) # NotConverged
<1>1. PICK C, F, half, x : C = Chunks /\ F = rounds /\ half = HalfBits(C) /\ x = ChunkAt(t)
  OBVIOUS
<1>2. C \in 0 .. U32 - 1 /\ IsNetwork(half, F)
  BY <1>1, ChunksType, NetworkOf
<1>3. x = ShufflePermute(t, C, F) /\ ChunkAt(u) = ShufflePermute(u, C, F)
  BY <1>1 DEF ChunkAt
<1>4. t \in 0 .. C - 1 /\ u \in 0 .. C - 1
  BY <1>1
<1>5. /\ x # NotConverged => x \in 0 .. C - 1
      /\ x # NotConverged /\ ShufflePermute(u, C, F) = x => t = u
      /\ Shl[2 * half] <= WalkCap => x # NotConverged
  BY <1>1, <1>2, <1>3, <1>4, PermuteFacts
<1>. QED BY <1>1, <1>3, <1>5

LEMMA ShuffleInitHolds == ShuffleInit => ShuffleIInv
<1>. SUFFICES ASSUME NEW j \in Jobs, NEW F \in RoundFunctions(HalfBits(ChunkCount(j.n, j.grain))),
                     ShuffleOf(j, F)
              PROVE  ShuffleIInv
  BY DEF ShuffleInit
<1>1. args = j /\ rounds = F /\ next_ticket = 0 /\ covered = [i \in 0 .. args.n - 1 |-> 0]
  BY DEF ShuffleOf
<1>2. Chunks \in Nat /\ next_ticket \in 0 .. Chunks /\ 0 .. next_ticket - 1 = {}
  BY <1>1, ChunksType, WidthAssumption
<1>3. \A i \in 0 .. args.n - 1 : covered[i] = 0 /\ ~Covering(i, next_ticket)
  BY <1>1, <1>2 DEF Covering
<1>. QED BY <1>1, <1>2, <1>3 DEF ShuffleIInv, Chunks

LEMMA RunOneKeeps == ASSUME ShuffleIInv, RunOne PROVE ShuffleIInv'
<1>1. PICK n, C, c : n = next_ticket /\ C = Chunks /\ c = ChunkAt(n)
  OBVIOUS
<1>2. /\ args \in Jobs /\ rounds \in RoundFunctions(HalfBits(Chunks))
      /\ n \in 0 .. C - 1 /\ C \in Nat /\ c # NotConverged
      /\ covered' = Cover(c) /\ next_ticket' = n + 1 /\ UNCHANGED <<args, rounds>>
  <2>1. C \in 0 .. U32 - 1
    BY <1>1, ChunksType DEF ShuffleIInv
  <2>. QED BY <1>1, <2>1, WidthAssumption DEF ShuffleIInv, RunOne, ChunkAt
<1>3. Chunks' = Chunks /\ \A t : ChunkAt(t)' = ChunkAt(t)
  BY <1>2 DEF Chunks, ChunkAt
<1>4. c \in 0 .. C - 1 /\ \A t \in 0 .. n - 1 : ChunkAt(t) # c
  <2>1. c \in 0 .. C - 1
    BY <1>1, <1>2, TicketsPermute
  <2>2. ASSUME NEW t \in 0 .. n - 1, ChunkAt(t) = c PROVE FALSE
    <3>1. t \in 0 .. Chunks - 1 /\ n \in 0 .. Chunks - 1 /\ t # n
      BY <1>1, <1>2
    <3>. QED BY <1>1, <1>2, <2>2, <3>1, TicketsPermute
  <2>. QED BY <2>1, <2>2
<1>5. ASSUME NEW i \in 0 .. args.n - 1
      PROVE  /\ covered'[i] = IF c = i \div args.grain THEN covered[i] + 1 ELSE covered[i]
             /\ covered[i] \in {0, 1} /\ (covered[i] = 1 <=> Covering(i, n))
             /\ Covering(i, n + 1) <=> Covering(i, n) \/ c = i \div args.grain
  <2>1. i \in SliceOf(c) <=> c = i \div args.grain
    BY <1>1, <1>2, <1>4, SlicesTile
  <2>2. covered[i] \in {0, 1} /\ i \in DOMAIN covered /\ (covered[i] = 1 <=> Covering(i, n))
    BY <1>1 DEF ShuffleIInv
  <2>3. covered'[i] = covered[i] + (IF i \in SliceOf(c) THEN 1 ELSE 0)
    BY <1>2, <2>2 DEF Cover
  <2>4. Covering(i, n + 1) <=> Covering(i, n) \/ c = i \div args.grain
    <3>1. \A t : t \in 0 .. (n + 1) - 1 <=> t \in 0 .. n - 1 \/ t = n
      BY <1>2
    <3>. QED BY <1>1, <3>1 DEF Covering
  <2>. QED BY <2>1, <2>2, <2>3, <2>4
<1>6. ASSUME NEW i \in 0 .. args.n - 1
      PROVE  covered'[i] \in {0, 1} /\ (covered'[i] = 1 <=> Covering(i, n + 1))
  <2>1. c = i \div args.grain => ~Covering(i, n)
    BY <1>4 DEF Covering
  <2>. QED BY <1>5, <2>1
<1>7. covered' \in [0 .. args.n - 1 -> {0, 1}]
  <2>1. covered' = [i \in 0 .. args.n - 1 |-> covered'[i]]
    BY <1>2 DEF Cover, ShuffleIInv
  <2>. QED BY <1>6, <2>1
<1>8. \A t \in 0 .. (n + 1) - 1 : ChunkAt(t) # NotConverged
  <2>1. \A t : t \in 0 .. (n + 1) - 1 => t \in 0 .. n - 1 \/ t = n
    BY <1>2
  <2>. QED BY <1>1, <1>2, <2>1 DEF ShuffleIInv
<1>9. \A i : Covering(i, n + 1)' <=> Covering(i, n + 1)
  BY <1>2, <1>3 DEF Covering
<1>10. n + 1 \in 0 .. C
  BY <1>2
<1>. QED BY <1>1, <1>2, <1>3, <1>6, <1>7, <1>8, <1>9, <1>10 DEF ShuffleIInv

LEMMA StutterKeeps == ASSUME ShuffleIInv, UNCHANGED shuffle_vars PROVE ShuffleIInv'
BY DEF ShuffleIInv, shuffle_vars, Covering, ChunkAt, Chunks

LEMMA IInvCovers == ASSUME ShuffleIInv PROVE CoveredOnce
<1>1. \A i \in DOMAIN covered : covered[i] <= 1
  BY DEF ShuffleIInv
<1>2. ASSUME next_ticket = Chunks, NEW i \in DOMAIN covered PROVE covered[i] = 1
  <2>1. i \in 0 .. args.n - 1 /\ args \in Jobs
    BY DEF ShuffleIInv
  <2>2. Chunks \in Nat /\ Chunks # 0
    <3>1. Chunks \in 0 .. U32 - 1 /\ Chunks * args.grain >= args.n /\ args.n \in Nat /\ args.grain \in Nat
      BY <2>1, ChunksOf, ChunksType DEF Chunks
    <3>. QED BY <2>1, <3>1, WidthAssumption
  <2>3. PICK d : d = i \div args.grain
    OBVIOUS
  <2>4. d \in 0 .. Chunks - 1
    <3>1. 0 \in 0 .. Chunks - 1
      BY <2>2
    <3>. QED BY <2>1, <2>3, <3>1, SlicesTile
  <2>. DEFINE T == 0 .. Chunks - 1
              f == [t \in T |-> ChunkAt(t)]
  <2>5. /\ f \in [T -> T]
        /\ \A t, u \in T : f[t] = f[u] => t = u
    <3>1. \A t \in T : ChunkAt(t) # NotConverged
      BY <1>2 DEF ShuffleIInv
    <3>. QED BY <3>1, TicketsPermute DEF ShuffleIInv
  <2>6. f \in Injection(T, T) /\ IsFiniteSet(T)
    <3>1. IsFiniteSet(T)
      BY <2>2, FS_Interval
    <3>. HIDE DEF T, f
    <3>. QED BY <2>5, <3>1 DEF Injection, IsInjective
  <2>7. f \in Surjection(T, T)
    <3>. HIDE DEF T, f
    <3>. QED BY <2>6, FS_Injection
  <2>8. \E t \in T : f[t] = d
    <3>1. d \in T
      BY <2>4
    <3>. HIDE DEF T, f
    <3>. QED BY <2>7, <3>1 DEF Surjection
  <2>9. Covering(i, next_ticket)
    BY <1>2, <2>3, <2>8 DEF Covering
  <2>. QED BY <2>1, <2>9 DEF ShuffleIInv
<1>. QED BY <1>1, <1>2 DEF CoveredOnce

\* For every n and grain, every width and every round functions: the tickets of a loop are permuted,
\* so that no item is handed out twice, and when the loop has run its tickets each item was.
THEOREM ShuffleCoversOnce == ShuffleSpec => []CoveredOnce
<1>1. ShuffleIInv /\ [RunOne]_shuffle_vars => ShuffleIInv'
  BY RunOneKeeps, StutterKeeps
<1>2. ShuffleIInv => CoveredOnce
  BY IInvCovers
<1>. QED BY <1>1, <1>2, ShuffleInitHolds, PTL DEF ShuffleSpec

\* Where the network has no more words than the tripwire allows steps, no walk trips it: the loop
\* runs to its end.
THEOREM ItemsAreCoveredOnce ==
    ASSUME \A half \in Halves : Shl[2 * half] <= WalkCap
    PROVE  ShuffleSpec => []ItemsCoveredOnce
<1>1. ShuffleIInv /\ [RunOne]_shuffle_vars => ShuffleIInv'
  BY RunOneKeeps, StutterKeeps
<1>2. ASSUME ShuffleIInv PROVE TicketsArrive
  <2>1. args \in Jobs /\ rounds \in RoundFunctions(HalfBits(Chunks)) /\ next_ticket \in 0 .. Chunks
    BY <1>2 DEF ShuffleIInv
  <2>2. HalfBits(Chunks) \in Halves
    BY <2>1 DEF Halves, Chunks
  <2>3. Shl[2 * HalfBits(Chunks)] <= WalkCap
    BY <2>2
  <2>4. ASSUME next_ticket < Chunks PROVE ChunkAt(next_ticket) # NotConverged
    <3>1. next_ticket \in 0 .. Chunks - 1
      BY <2>1, <2>4, ChunksType, WidthAssumption
    <3>2. PICK t : t = next_ticket
      OBVIOUS
    <3>. QED BY <2>1, <2>3, <3>1, <3>2, TicketsPermute
  <2>. QED BY <2>4 DEF TicketsArrive, ChunkAt
<1>3. ShuffleIInv => ItemsCoveredOnce
  BY <1>2, IInvCovers DEF ItemsCoveredOnce
<1>. QED BY <1>1, <1>3, ShuffleInitHolds, PTL DEF ShuffleSpec
=============================================================================

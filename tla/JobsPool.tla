------------------------------ MODULE JobsPool ------------------------------
(***************************************************************************)
(* The worker pool of src/foundation/jobs.cpp: jobs_init, jobs_shutdown,   *)
(* parallel_for / parallel_levels on the calling thread, and the life of a *)
(* worker thread, one atomic or semaphore operation per step.  Participant *)
(* 0 is the calling ("main") thread, 1..worker_count are the workers.      *)
(* Steps are sequentially consistent (JobsVisibility adds what the orders  *)
(* of the atomics make visible); semaphores and threads are those the      *)
(* ThreadApi promises (platform/platform.h).                               *)
(***************************************************************************)
EXTENDS FiniteSets, JobsChunks

CONSTANTS
    MaxWorkers,         \* JOBS_MAX_WORKERS
    LevelArgs,          \* the [count, grain] pairs a client submits
    MaxLevels,          \* bound: levels of one parallel_levels call
    MaxJobs,            \* bound: jobs in the life of a pool
    EpochMod,           \* epoch counts modulo this: 2^64
    Keys,               \* the shuffle keys a job can draw
    Permute(_, _, _)    \* shuffle_permute(ticket, chunks, key)

Workers == 1 .. MaxWorkers
Participants == 0 .. MaxWorkers
ShuffleOff == 0         \* the key that means "claim in counter order"
ChunkCounts == {ChunkCount(a.count, a.grain) : a \in LevelArgs}
JobDescs == [chunks : ChunkCounts \cup {0}, key : Keys \cup {ShuffleOff}]

ASSUME BoundsAssumption ==
    /\ MaxWorkers \in Nat /\ MaxLevels \in Nat /\ MaxJobs \in Nat
    /\ EpochMod \in Nat /\ MaxJobs < EpochMod   \* an epoch never wraps
ASSUME LevelAssumption == LevelArgs \subseteq [count : Nat, grain : Nat \ {0}]
ASSUME KeyAssumption == Keys \subseteq Nat \ {ShuffleOff}
\* Of the Feistel walk JobsPool_proof proves it, for the words of any width (ShuffleCoversOnce).
ASSUME PermuteAssumption ==
    \A c \in ChunkCounts, key \in Keys :
        /\ \A t \in 0 .. c - 1 : Permute(t, c, key) \in 0 .. c - 1
        /\ \A t, u \in 0 .. c - 1 : Permute(t, c, key) = Permute(u, c, key) => t = u
        /\ \A k \in 0 .. c - 1 : \E t \in 0 .. c - 1 : Permute(t, c, key) = k

VARIABLES
    \* struct Jobs
    thread,         \* the ThreadApi pointer is non-null: the pool is live
    worker_count, shuffle_on, job, epoch, next_chunk, pending, shutdown, in_job,
    \* the platform's objects
    sems,           \* semaphores that exist: 0 is done, w is wake[w-1]
    wake, done,     \* their counts
    \* locals of the threads
    pc,             \* where each participant is
    k,              \* main's loop index over workers or semaphores
    started,        \* threads main has created
    levels_left,    \* levels parallel_levels has still to run
    call,           \* the JobDesc of the parallel_for in progress
    next_epoch,     \* its epoch
    seen,           \* the last epoch a worker acted on
    snap,           \* a participant's copy of job
    ticket,         \* the last ticket it claimed
    \* the world outside
    runs,           \* how often each chunk of the call has been run
    fatal           \* a TL_FATAL has stopped the process

pool_vars == <<thread, worker_count, shuffle_on, job, epoch, next_chunk, pending,
               shutdown, in_job>>
sem_vars == <<sems, wake, done>>
call_vars == <<levels_left, call, next_epoch>>
claim_vars == <<snap, ticket, runs>>
vars == <<pool_vars, sem_vars, pc, k, started, call_vars, seen, claim_vars, fatal>>

NoJob == [chunks |-> 0, key |-> ShuffleOff]

MainIdle == {"idle"}
InitPcs == {"sem_create", "thread_create", "fail_post", "fail_join"}
ShutdownPcs == {"down_post", "down_join"}
LevelPcs == {"level", "inline", "write", "reset", "arm", "publish", "post", "await",
             "clear"}
LoopPcs == {"snap", "claim", "run", "retire"}
WorkerPcs == {"none", "park", "check", "load", "signal", "exited"} \cup LoopPcs
MainPcs == MainIdle \cup InitPcs \cup ShutdownPcs \cup LevelPcs \cup LoopPcs
               \cup {"inline_run"}

PcOK ==
    /\ pc \in [Participants -> WorkerPcs \cup MainPcs]
    /\ pc[0] \in MainPcs /\ \A w \in Workers : pc[w] \in WorkerPcs

PoolOK ==
    /\ thread \in BOOLEAN /\ shuffle_on \in BOOLEAN
    /\ worker_count \in 0 .. MaxWorkers
    /\ job \in JobDescs
    /\ epoch \in 0 .. MaxJobs
    /\ next_chunk \in 0 .. U32 - 1
    /\ pending \in 0 .. MaxWorkers + 1
    /\ shutdown \in {0, 1} /\ in_job \in {0, 1}

SemOK ==
    /\ sems \subseteq Participants
    /\ wake \in [Workers -> Nat] /\ done \in Nat

CallOK ==
    /\ k \in 0 .. MaxWorkers + 1 /\ started \in 0 .. MaxWorkers
    /\ levels_left \in 0 .. MaxLevels
    /\ call \in JobDescs
    /\ next_epoch \in 0 .. MaxJobs

ClaimOK ==
    /\ seen \in [Workers -> 0 .. MaxJobs]
    /\ snap \in [Participants -> JobDescs]
    /\ ticket \in [Participants -> Nat]
    /\ runs \in [0 .. call.chunks - 1 -> Nat]

\* The epoch and the counters stay within their bounds, and the participant
\* count never goes below zero.
TypeOK == PoolOK /\ SemOK /\ PcOK /\ CallOK /\ ClaimOK /\ fatal \in BOOLEAN

Init ==
    /\ thread = FALSE /\ worker_count = 0 /\ shuffle_on = FALSE /\ job = NoJob
    /\ epoch = 0 /\ next_chunk = 0 /\ pending = 0 /\ shutdown = 0 /\ in_job = 0
    /\ sems = {} /\ wake = [w \in Workers |-> 0] /\ done = 0
    /\ pc = [p \in Participants |-> IF p = 0 THEN "idle" ELSE "none"]
    /\ k = 0 /\ started = 0
    /\ levels_left = 0 /\ call = NoJob /\ next_epoch = 0
    /\ seen = [w \in Workers |-> 0]
    /\ snap = [p \in Participants |-> NoJob]
    /\ ticket = [p \in Participants |-> 0]
    /\ runs = [c \in 0 .. NoJob.chunks - 1 |-> 0]
    /\ fatal = FALSE

-----------------------------------------------------------------------------
(* Small pieces the actions are made of.                                   *)

Goto(p, label) == pc' = [pc EXCEPT ![p] = label]

\* memset(j, 0, sizeof(Jobs)).
Zeroed(live, wc) ==
    /\ thread' = live /\ worker_count' = wc /\ shuffle_on' = FALSE /\ job' = NoJob
    /\ epoch' = 0 /\ next_chunk' = 0 /\ pending' = 0 /\ shutdown' = 0 /\ in_job' = 0

\* The semaphore a worker parks on and main posts for it.
Bug_WakeShared(w) == 1
WakeSem(w) == w

\* What main arms the barrier with.
Bug_BarrierChunks(wc, chunks) == chunks
Bug_BarrierWorkers(wc, chunks) == wc
BarrierCount(wc, chunks) == wc + 1

\* atomic_add32(&next_chunk, 1).
NextTicket(t) == (t + 1) % U32

\* epoch + 1, at the width of the field.
NextEpoch(e) == (e + 1) % EpochMod

\* The chunk a ticket stands for.
Bug_ChunkOf(desc, t) == t \div 2
ChunkOf(desc, t) ==
    IF desc.key # ShuffleOff THEN Permute(t, desc.chunks, desc.key) ELSE t

RunTicket(desc, t) == runs' = [runs EXCEPT ![ChunkOf(desc, t)] = @ + 1]

Busy(p) == pc[p] \in LoopPcs

-----------------------------------------------------------------------------
(* jobs_init.                                                              *)

JobsInit(wc) ==
    /\ pc[0] = "idle" /\ ~thread
    /\ Zeroed(TRUE, wc)
    /\ IF wc = 0 THEN Goto(0, "idle") ELSE Goto(0, "sem_create")
    /\ k' = 0 /\ started' = 0
    /\ UNCHANGED <<sem_vars, call_vars, seen, claim_vars, fatal>>

SemCreated ==
    /\ pc[0] = "sem_create"
    /\ sems' = sems \cup {k}
    /\ IF k = 0 THEN done' = 0 /\ UNCHANGED wake
                ELSE wake' = [wake EXCEPT ![k] = 0] /\ UNCHANGED done
    /\ IF k = worker_count THEN Goto(0, "thread_create") /\ k' = 1
                           ELSE UNCHANGED pc /\ k' = k + 1
    /\ UNCHANGED <<pool_vars, started, call_vars, seen, claim_vars, fatal>>

\* The semaphores made so far are destroyed; there is no thread yet.
Bug_SemRefusedRetries ==
    /\ pc[0] = "sem_create"
    /\ sems' = sems \ (0 .. k - 1) /\ k' = 0
    /\ UNCHANGED <<pool_vars, wake, done, pc, started, call_vars, seen, claim_vars, fatal>>
SemRefused ==
    /\ pc[0] = "sem_create"
    /\ sems' = sems \ (0 .. k - 1)
    /\ Zeroed(FALSE, 0) /\ Goto(0, "idle")
    /\ UNCHANGED <<wake, done, k, started, call_vars, seen, claim_vars, fatal>>

ThreadCreated ==
    /\ pc[0] = "thread_create"
    /\ pc' = [pc EXCEPT ![k] = "park",
                        ![0] = IF k = worker_count THEN "idle" ELSE "thread_create"]
    /\ seen' = [seen EXCEPT ![k] = 0]
    /\ started' = k /\ k' = k + 1
    /\ UNCHANGED <<pool_vars, sem_vars, call_vars, claim_vars, fatal>>

ThreadRefused ==
    /\ pc[0] = "thread_create"
    /\ shutdown' = 1 /\ k' = 1 /\ Goto(0, "fail_post")
    /\ UNCHANGED <<thread, worker_count, shuffle_on, job, epoch, next_chunk, pending,
                   in_job, sem_vars, started, call_vars, seen, claim_vars, fatal>>

-----------------------------------------------------------------------------
(* jobs_shutdown, and the teardown a failed jobs_init shares its shape     *)
(* with: post every started worker, join every started worker.             *)

JobsShutdown ==
    /\ pc[0] = "idle" /\ thread
    /\ shutdown' = 1 /\ k' = 1 /\ Goto(0, "down_post")
    /\ UNCHANGED <<thread, worker_count, shuffle_on, job, epoch, next_chunk, pending,
                   in_job, sem_vars, started, call_vars, seen, claim_vars, fatal>>

StopPost(post, join) ==
    /\ pc[0] = post
    /\ IF k <= started
       THEN /\ wake' = [wake EXCEPT ![WakeSem(k)] = @ + 1]
            /\ k' = k + 1 /\ UNCHANGED pc
       ELSE k' = 1 /\ Goto(0, join) /\ UNCHANGED wake
    /\ UNCHANGED <<pool_vars, sems, done, started, call_vars, seen, claim_vars, fatal>>

Join(join) ==
    /\ pc[0] = join /\ k <= started /\ pc[k] = "exited"
    /\ Goto(k, "none") /\ k' = k + 1
    /\ UNCHANGED <<pool_vars, sem_vars, started, call_vars, seen, claim_vars, fatal>>

Bug_InitFailed ==
    /\ pc[0] = "fail_join" /\ k > started
    /\ sems' = sems \ (0 .. started)
    /\ Zeroed(FALSE, 0) /\ started' = 0 /\ Goto(0, "idle")
    /\ UNCHANGED <<wake, done, k, call_vars, seen, claim_vars, fatal>>
\* All the semaphores of the pool go, not only those of the started workers.
InitFailed ==
    /\ pc[0] = "fail_join" /\ k > started
    /\ sems' = sems \ (0 .. worker_count)
    /\ Zeroed(FALSE, 0) /\ started' = 0 /\ Goto(0, "idle")
    /\ UNCHANGED <<wake, done, k, call_vars, seen, claim_vars, fatal>>

\* Only thread and worker_count are cleared: the rest keeps its last value.
ShutDown ==
    /\ pc[0] = "down_join" /\ k > started
    /\ sems' = sems \ (0 .. worker_count)
    /\ thread' = FALSE /\ worker_count' = 0 /\ started' = 0 /\ Goto(0, "idle")
    /\ UNCHANGED <<shuffle_on, job, epoch, next_chunk, pending, shutdown, in_job,
                   wake, done, k, call_vars, seen, claim_vars, fatal>>

-----------------------------------------------------------------------------
(* parallel_levels and parallel_for, up to the moment chunks are claimed.  *)

ShuffleSet ==
    /\ pc[0] = "idle"
    /\ shuffle_on' = ~shuffle_on
    /\ UNCHANGED <<thread, worker_count, job, epoch, next_chunk, pending, shutdown, in_job,
                   sem_vars, pc, k, started, call_vars, seen, claim_vars, fatal>>

\* A client calls parallel_levels; parallel_for is a call of one level.
ParallelLevels(m) ==
    /\ pc[0] = "idle" /\ epoch + m <= MaxJobs
    /\ levels_left' = m /\ Goto(0, "level")
    /\ UNCHANGED <<pool_vars, sem_vars, k, started, call, next_epoch, seen, claim_vars,
                   fatal>>

\* The inline path: nothing is published, no worker is woken.
InlinePath(wc, chunks) == wc = 0 \/ chunks = 1

\* parallel_for(count, grain) is entered.  An empty level runs nothing.
EmptyLevel(a) ==
    /\ pc[0] = "level" /\ levels_left > 0 /\ in_job = 0
    /\ ChunkCount(a.count, a.grain) = 0
    /\ levels_left' = levels_left - 1
    /\ UNCHANGED <<pool_vars, sem_vars, pc, k, started, call, next_epoch, seen, claim_vars,
                   fatal>>

Bug_EnterJob(a, key) ==
    LET c == ChunkCount(a.count, a.grain) IN
    /\ pc[0] = "level" /\ levels_left > 0 /\ in_job = 0 /\ c > 0
    /\ key = ShuffleOff <=> ~shuffle_on
    /\ next_epoch' = NextEpoch(epoch)
    /\ call' = [chunks |-> c, key |-> key]
    /\ runs' = [n \in 0 .. c - 1 |-> 0]
    /\ Goto(0, IF InlinePath(worker_count, c) THEN "inline" ELSE "write")
    /\ UNCHANGED <<pool_vars, sem_vars, k, started, levels_left, seen, snap, ticket, fatal>>
EnterJob(a, key) ==
    LET c == ChunkCount(a.count, a.grain) IN
    /\ pc[0] = "level" /\ levels_left > 0 /\ in_job = 0 /\ c > 0
    /\ key = ShuffleOff <=> ~shuffle_on
    /\ in_job' = 1
    /\ next_epoch' = NextEpoch(epoch)
    /\ call' = [chunks |-> c, key |-> key]
    /\ runs' = [n \in 0 .. c - 1 |-> 0]
    /\ Goto(0, IF InlinePath(worker_count, c) THEN "inline" ELSE "write")
    /\ UNCHANGED <<thread, worker_count, shuffle_on, job, epoch, next_chunk, pending,
                   shutdown, sem_vars, k, started, levels_left, seen, snap, ticket, fatal>>

LevelsDone ==
    /\ pc[0] = "level" /\ levels_left = 0
    /\ Goto(0, "idle")
    /\ UNCHANGED <<pool_vars, sem_vars, k, started, call_vars, seen, claim_vars, fatal>>

InlineStart ==
    /\ pc[0] = "inline"
    /\ epoch' = next_epoch
    /\ ticket' = [ticket EXCEPT ![0] = 0]
    /\ Goto(0, "inline_run")
    /\ UNCHANGED <<thread, worker_count, shuffle_on, job, next_chunk, pending, shutdown,
                   in_job, sem_vars, k, started, call_vars, seen, snap, runs, fatal>>

InlineRun ==
    /\ pc[0] = "inline_run"
    /\ RunTicket(call, ticket[0])
    /\ ticket' = [ticket EXCEPT ![0] = @ + 1]
    /\ Goto(0, IF ticket[0] + 1 < call.chunks THEN "inline_run" ELSE "clear")
    /\ UNCHANGED <<pool_vars, sem_vars, k, started, call_vars, seen, snap, fatal>>

\* Plain writes of j->job.
WriteJob ==
    /\ pc[0] = "write"
    /\ job' = call /\ Goto(0, "reset")
    /\ UNCHANGED <<thread, worker_count, shuffle_on, epoch, next_chunk, pending, shutdown,
                   in_job, sem_vars, k, started, call_vars, seen, claim_vars, fatal>>

Bug_ResetTickets ==
    /\ pc[0] = "reset"
    /\ Goto(0, "arm")
    /\ UNCHANGED <<pool_vars, sem_vars, k, started, call_vars, seen, claim_vars, fatal>>
ResetTickets ==
    /\ pc[0] = "reset"
    /\ next_chunk' = 0 /\ Goto(0, "arm")
    /\ UNCHANGED <<thread, worker_count, shuffle_on, job, epoch, pending, shutdown, in_job,
                   sem_vars, k, started, call_vars, seen, claim_vars, fatal>>

ArmBarrier ==
    /\ pc[0] = "arm"
    /\ pending' = BarrierCount(worker_count, call.chunks) /\ Goto(0, "publish")
    /\ UNCHANGED <<thread, worker_count, shuffle_on, job, epoch, next_chunk, shutdown,
                   in_job, sem_vars, k, started, call_vars, seen, claim_vars, fatal>>

\* The RELEASE store of epoch: a woken worker may now read job.
PublishEpoch ==
    /\ pc[0] = "publish"
    /\ epoch' = next_epoch /\ k' = 1 /\ Goto(0, "post")
    /\ UNCHANGED <<thread, worker_count, shuffle_on, job, next_chunk, pending, shutdown,
                   in_job, sem_vars, started, call_vars, seen, claim_vars, fatal>>

PostWake ==
    /\ pc[0] = "post"
    /\ wake' = [wake EXCEPT ![WakeSem(k)] = @ + 1]
    /\ k' = k + 1
    /\ Goto(0, IF k = worker_count THEN "snap" ELSE "post")
    /\ UNCHANGED <<pool_vars, sems, done, started, call_vars, seen, claim_vars, fatal>>

-----------------------------------------------------------------------------
(* jobs_claim_loop, run by every participant p.                            *)

\* "const JobDesc job = j->job": a plain read.
Snapshot(p) ==
    /\ pc[p] = "snap"
    /\ snap' = [snap EXCEPT ![p] = job] /\ Goto(p, "claim")
    /\ UNCHANGED <<pool_vars, sem_vars, k, started, call_vars, seen, ticket, runs, fatal>>

Claim(p) ==
    /\ pc[p] = "claim"
    /\ ticket' = [ticket EXCEPT ![p] = next_chunk]
    /\ next_chunk' = NextTicket(next_chunk)
    /\ Goto(p, IF next_chunk >= snap[p].chunks THEN "retire" ELSE "run")
    /\ UNCHANGED <<thread, worker_count, shuffle_on, job, epoch, pending, shutdown, in_job,
                   sem_vars, k, started, call_vars, seen, snap, runs, fatal>>

RunChunk(p) ==
    /\ pc[p] = "run"
    /\ RunTicket(snap[p], ticket[p]) /\ Goto(p, "claim")
    /\ UNCHANGED <<pool_vars, sem_vars, k, started, call_vars, seen, snap, ticket, fatal>>

\* A chunk function calls parallel_for: the tripwire stops the process.
NestedCall(p) ==
    /\ pc[p] = "run" \/ (p = 0 /\ pc[p] = "inline_run")
    /\ in_job # 0
    /\ fatal' = TRUE
    /\ UNCHANGED <<pool_vars, sem_vars, pc, k, started, call_vars, seen, claim_vars>>

\* A worker's retirement; it posts done only if it took pending to zero.
Bug_RetireWorkerAlwaysPosts(w) ==
    /\ pc[w] = "retire"
    /\ pending' = pending - 1 /\ Goto(w, "signal")
    /\ UNCHANGED <<thread, worker_count, shuffle_on, job, epoch, next_chunk, shutdown,
                   in_job, sem_vars, k, started, call_vars, seen, claim_vars, fatal>>
RetireWorker(w) ==
    /\ pc[w] = "retire"
    /\ pending' = pending - 1
    /\ Goto(w, IF pending = 1 THEN "signal" ELSE "park")
    /\ UNCHANGED <<thread, worker_count, shuffle_on, job, epoch, next_chunk, shutdown,
                   in_job, sem_vars, k, started, call_vars, seen, claim_vars, fatal>>

SignalDone(w) ==
    /\ pc[w] = "signal"
    /\ done' = done + 1 /\ Goto(w, "park")
    /\ UNCHANGED <<pool_vars, sems, wake, k, started, call_vars, seen, claim_vars, fatal>>

\* Main retires: last in, it must not wait, for no post is coming.
Bug_RetireMainNeverWaits ==
    /\ pc[0] = "retire"
    /\ pending' = pending - 1 /\ Goto(0, "clear")
    /\ UNCHANGED <<thread, worker_count, shuffle_on, job, epoch, next_chunk, shutdown,
                   in_job, sem_vars, k, started, call_vars, seen, claim_vars, fatal>>
RetireMain ==
    /\ pc[0] = "retire"
    /\ pending' = pending - 1
    /\ Goto(0, IF pending = 1 THEN "clear" ELSE "await")
    /\ UNCHANGED <<thread, worker_count, shuffle_on, job, epoch, next_chunk, shutdown,
                   in_job, sem_vars, k, started, call_vars, seen, claim_vars, fatal>>

AwaitDone ==
    /\ pc[0] = "await" /\ done > 0
    /\ done' = done - 1 /\ Goto(0, "clear")
    /\ UNCHANGED <<pool_vars, sems, wake, k, started, call_vars, seen, claim_vars, fatal>>

\* in_job is cleared and parallel_for returns.
Return ==
    /\ pc[0] = "clear"
    /\ in_job' = 0 /\ levels_left' = levels_left - 1 /\ Goto(0, "level")
    /\ UNCHANGED <<thread, worker_count, shuffle_on, job, epoch, next_chunk, pending,
                   shutdown, sem_vars, k, started, call, next_epoch, seen, claim_vars, fatal>>

-----------------------------------------------------------------------------
(* jobs_worker_main.                                                       *)

Wake(w) ==
    /\ pc[w] = "park" /\ wake[WakeSem(w)] > 0
    /\ wake' = [wake EXCEPT ![WakeSem(w)] = @ - 1] /\ Goto(w, "check")
    /\ UNCHANGED <<pool_vars, sems, done, k, started, call_vars, seen, claim_vars, fatal>>

CheckShutdown(w) ==
    /\ pc[w] = "check"
    /\ Goto(w, IF shutdown # 0 THEN "exited" ELSE "load")
    /\ UNCHANGED <<pool_vars, sem_vars, k, started, call_vars, seen, claim_vars, fatal>>

\* A stale post must not retire: the worker parks again.
LoadEpoch(w) ==
    /\ pc[w] = "load"
    /\ IF epoch = seen[w]
       THEN Goto(w, "park") /\ UNCHANGED seen
       ELSE Goto(w, "snap") /\ seen' = [seen EXCEPT ![w] = epoch]
    /\ UNCHANGED <<pool_vars, sem_vars, k, started, call_vars, claim_vars, fatal>>

-----------------------------------------------------------------------------
\* What main decides for itself.
Client ==
    \/ \E wc \in 0 .. MaxWorkers : JobsInit(wc)
    \/ JobsShutdown
    \/ ShuffleSet
    \/ \E m \in 1 .. MaxLevels : ParallelLevels(m)

\* What main does once it has decided.
Main ==
    \/ SemCreated \/ SemRefused \/ ThreadCreated \/ ThreadRefused
    \/ StopPost("fail_post", "fail_join") \/ StopPost("down_post", "down_join")
    \/ Join("fail_join") \/ Join("down_join")
    \/ InitFailed \/ ShutDown
    \/ \E a \in LevelArgs : EmptyLevel(a)
    \/ \E a \in LevelArgs, key \in Keys \cup {ShuffleOff} : EnterJob(a, key)
    \/ LevelsDone
    \/ InlineStart \/ InlineRun
    \/ WriteJob \/ ResetTickets \/ ArmBarrier \/ PublishEpoch \/ PostWake
    \/ Snapshot(0) \/ Claim(0) \/ RunChunk(0)
    \/ RetireMain \/ AwaitDone \/ Return

Worker(w) ==
    \/ Wake(w) \/ CheckShutdown(w) \/ LoadEpoch(w)
    \/ Snapshot(w) \/ Claim(w) \/ RunChunk(w)
    \/ RetireWorker(w) \/ SignalDone(w)

Running ==
    \/ Client
    \/ Main
    \/ \E w \in Workers : Worker(w)
    \/ \E p \in Participants : NestedCall(p)

\* A fatal process is over.
Next ==
    \/ ~fatal /\ Running
    \/ fatal /\ UNCHANGED vars

Spec == Init /\ [][Next]_vars

\* The operating system runs every thread that can run.
Fairness ==
    /\ WF_vars(~fatal /\ Main)
    /\ \A w \in Workers : WF_vars(~fatal /\ Worker(w))

FairSpec == Spec /\ Fairness

-----------------------------------------------------------------------------
(* Correctness.                                                            *)

JobPcs == LoopPcs \cup {"post", "await"}

\* A worker is inside its claim loop only while the calling thread is inside
\* the pooled part of parallel_for, and it works on that call's job: main may
\* rewrite job, reset the ticket counter, reset the worker scratch and shut
\* down without any lock (the RETIRE edge, rule R-4).
QuietOutsideJob ==
    \A w \in Workers : Busy(w) =>
        /\ pc[0] \in JobPcs
        /\ pc[w] # "snap" => snap[w] = call

\* No chunk of a call runs twice, and parallel_for does not return, nor does
\* its "p == 0" assertion see a participant left, before all have run once.
EveryChunkOnce ==
    /\ \A n \in DOMAIN runs : runs[n] <= 1
    /\ pc[0] = "clear" => \A n \in DOMAIN runs : runs[n] = 1
    /\ pc[0] = "clear" /\ ~InlinePath(worker_count, call.chunks) => pending = 0

\* A done token exists only while main waits for it or is about to, after
\* every participant has retired: none survives into a later job.
DoneTokenIsForThisJob ==
    /\ done <= 1
    /\ done = 1 => pc[0] = "await" /\ pending = 0

\* A worker that gets past its shutdown check holds a post of the epoch it
\* has not served: the "stale post" branch of jobs_worker_main is never taken.
NoStalePost ==
    \A w \in Workers : pc[w] = "load" => epoch # seen[w]

\* Whatever thread runs a chunk function, a parallel_for it calls is caught.
NestingIsCaught ==
    (\E p \in Participants : pc[p] = "run" \/ pc[p] = "inline_run") => in_job = 1

\* No thread outlives its semaphores (a stale handle is fatal in the
\* platform), and no semaphore or thread outlives the pool, also when
\* jobs_init fails half way.
NoOrphans ==
    /\ \A w \in Workers : pc[w] \notin {"none", "exited"} => {0, w} \subseteq sems
    /\ pc[0] = "post" => 1 .. worker_count \subseteq sems
    /\ pc[0] \in {"snap", "claim", "run", "retire", "await"} => 0 \in sems
    /\ ~thread => sems = {} /\ \A w \in Workers : pc[w] = "none"

\* What the pool's caller may rely on without a lock, its workers without looking
\* twice, and whoever shuts it down.
PoolInv == QuietOutsideJob /\ DoneTokenIsForThisJob /\ NoStalePost /\ NestingIsCaught /\ NoOrphans

\* Every call into the pool returns, whichever path it takes.
CallsReturn == pc[0] # "idle" ~> (pc[0] = "idle" \/ fatal)

\* The promise of parallel_for, implemented by the pool.
Promise == INSTANCE ParallelFor
               WITH Counts <- ChunkCounts, busy <- (in_job = 1), runs <- runs
KeepsPromise == Promise!Spec

-----------------------------------------------------------------------------
(* The inductive invariant.  Each part says what one resource looks like   *)
(* in each stretch of the calling thread's code: PoolShape the pool and    *)
(* its objects, EpochOrder the epochs, WorkerShape a worker and its wake   *)
(* token, JobCopies whose job is worked on, Barrier the participant count  *)
(* and the done token, and Progress the tickets and the chunks they ran.   *)
(* BarrierInv is inductive without Progress.                               *)

\* The ticket counter does not wrap while the participants overshoot it: with
\* 2^32 - 1 chunks, the second to overshoot would be handed ticket 0 again.
ASSUME NoTicketWrap == \A c \in ChunkCounts : c + MaxWorkers + 1 < U32

SetupPcs == {"write", "reset", "arm", "publish"}
CallPcs == {"inline", "inline_run", "clear"} \cup SetupPcs \cup JobPcs
JoinPcs == {"fail_join", "down_join"}
StopPcs == {"fail_post", "down_post"} \cup JoinPcs
Pooled == pc[0] \in JobPcs
Stopping == pc[0] \in StopPcs

SemsOf(wc) == IF wc = 0 THEN {} ELSE 0 .. wc

PoolShape ==
    /\ ~thread => worker_count = 0 /\ pc[0] \notin InitPcs \cup ShutdownPcs
    /\ thread => shutdown = IF Stopping THEN 1 ELSE 0
    /\ pc[0] = "sem_create" =>
          k <= worker_count /\ worker_count > 0 /\ started = 0 /\ sems = 0 .. k - 1
    /\ pc[0] # "sem_create" => sems = SemsOf(worker_count)
    /\ pc[0] = "thread_create" => 1 <= k /\ k <= worker_count /\ started = k - 1
    /\ pc[0] \in {"fail_post", "fail_join"} => started < worker_count
    /\ pc[0] \notin InitPcs => started = worker_count
    /\ Stopping => 1 <= k /\ k <= started + 1
    /\ pc[0] = "post" => 1 <= k /\ k <= worker_count
    /\ pc[0] \in SetupPcs \cup JobPcs => worker_count > 0 /\ thread
    /\ in_job = 1 <=> pc[0] \in CallPcs
    /\ pc[0] \in CallPcs => levels_left > 0 /\ call.chunks > 0

EpochOrder ==
    /\ \A w \in Workers : w <= started => seen[w] <= epoch
    /\ pc[0] = "level" => epoch + levels_left <= MaxJobs
    /\ pc[0] \in SetupPcs \cup {"inline"} =>
          next_epoch = epoch + 1 /\ epoch + levels_left <= MaxJobs
    /\ pc[0] \in JobPcs \cup {"inline_run", "clear"} =>
          epoch + levels_left <= MaxJobs + 1

\* Main has posted wake[w - 1] in the loop it is in, or in the one before.
Posted(w) == w <= started /\ (pc[0] \in {"post", "fail_post", "down_post"} => w < k)
Joined(w) == w > started \/ (pc[0] \in JoinPcs /\ w < k)

\* Main is where no worker has anything to do.
Quiet == ~Pooled /\ ~Stopping

WorkerOK(w) ==
    /\ pc[w] = "none" <=> Joined(w)
    /\ Quiet => pc[w] \in {"none", "park"} /\ wake[w] = 0
    /\ Stopping =>
          /\ pc[w] \in {"none", "park", "check", "exited"}
          /\ pc[w] \in {"check", "exited"} => Posted(w)
          /\ wake[w] = IF Posted(w) /\ pc[w] = "park" THEN 1 ELSE 0
    /\ Pooled =>
          /\ pc[w] # "exited"
          /\ pc[w] \in {"check", "load"} => Posted(w) /\ seen[w] # epoch
          /\ Busy(w) \/ pc[w] = "signal" => Posted(w) /\ seen[w] = epoch
          /\ ~Posted(w) => seen[w] # epoch \/ w > worker_count
          /\ wake[w] = IF Posted(w) /\ pc[w] = "park" /\ seen[w] # epoch THEN 1 ELSE 0

WorkerShape == \A w \in Workers : WorkerOK(w)

\* Whoever works on a job works on the call in progress.
JobCopies ==
    /\ pc[0] \in JobPcs \cup {"reset", "arm", "publish"} => job = call
    /\ \A p \in Participants : pc[p] \in {"claim", "run", "retire"} => snap[p] = call

\* The participants that have still to retire from the published job.
Unretired ==
    {p \in 0 .. worker_count :
        IF p = 0 THEN pc[0] # "await" ELSE seen[p] # epoch \/ Busy(p)}

Barrier ==
    /\ pc[0] = "publish" => pending = worker_count + 1
    /\ Pooled => pending = Cardinality(Unretired)
    /\ pc[0] = "clear" /\ ~InlinePath(worker_count, call.chunks) => pending = 0
    /\ pc[0] \in SetupPcs \cup JobPcs => ~InlinePath(worker_count, call.chunks)
    /\ pc[0] \in {"inline", "inline_run"} => InlinePath(worker_count, call.chunks)
    /\ done # 0 => done = 1 /\ pc[0] = "await" /\ pending = 0
    /\ \A w \in Workers : pc[w] = "signal" =>
          /\ pc[0] = "await" /\ pending = 0 /\ done = 0
          /\ \A v \in Workers : pc[v] = "signal" => v = w

\* The participants that have found the tickets exhausted.
Out ==
    {p \in 0 .. worker_count :
        IF p = 0 THEN pc[0] \in {"retire", "await"}
                 ELSE seen[p] = epoch /\ pc[p] \in {"retire", "signal", "park"}}
Held(t) == \E p \in Participants : pc[p] = "run" /\ ticket[p] = t
Taken(t) ==
    \/ Pooled /\ t < next_chunk /\ ~Held(t)
    \/ pc[0] = "inline_run" /\ t < ticket[0]
    \/ pc[0] = "clear"

Progress ==
    /\ pc[0] \in {"arm", "publish"} => next_chunk = 0
    /\ Pooled =>
          /\ next_chunk <= call.chunks + Cardinality(Out)
          /\ Out # {} => next_chunk >= call.chunks
    /\ \A p \in Participants : pc[p] = "run" => ticket[p] < next_chunk /\ ticket[p] < call.chunks
    /\ \A p, q \in Participants :
          pc[p] = "run" /\ pc[q] = "run" /\ ticket[p] = ticket[q] => p = q
    /\ pc[0] = "inline_run" => ticket[0] < call.chunks
    /\ pc[0] \in CallPcs => \A t \in 0 .. call.chunks - 1 :
          runs[ChunkOf(call, t)] = IF Taken(t) THEN 1 ELSE 0
    /\ \A n \in DOMAIN runs : runs[n] <= 1

BarrierInv == TypeOK /\ PoolShape /\ EpochOrder /\ WorkerShape /\ JobCopies /\ Barrier

IInv == BarrierInv /\ Progress
=============================================================================

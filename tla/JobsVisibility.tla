--------------------------- MODULE JobsVisibility ---------------------------
(***************************************************************************)
(* The happens-before relation of JobsPool: which accesses to ordinary     *)
(* memory each thread is sure to see.  Only the acquire and release orders *)
(* of foundation/atomic.h, thread creation and join make one thread's      *)
(* accesses visible to another.  Of the semaphores only this is taken:     *)
(* what is stored in an atomic before a post is what is loaded after the   *)
(* wait (docs/PLATFORM.md, the contract of ThreadApi); jobs.cpp is written *)
(* not to need that they carry more.                                       *)
(*                                                                         *)
(* An access stands for a kind of accesses up to the latest one.  A thread *)
(* knows it if all of them happen before what the thread does next; a word *)
(* carries what a thread that acquires its value comes to know.            *)
(***************************************************************************)
EXTENDS JobsPool

VARIABLES
    knows,      \* by participant
    carries     \* by atomic word of struct Jobs

seen_vars == <<knows, carries>>

\* What main writes for others to read: the pool's fields, the job, and all that
\* its client prepared before.
MainWrites == <<"main", 0>>
\* What a participant reads of the job, and reads and writes in its chunks.
ChunksBy(p) == <<"chunks", p>>
AllChunks == {ChunksBy(p) : p \in Participants}
Accesses == {MainWrites} \cup AllChunks
\* in_job is left out: only main reads it, and a nested call that stops the process.
Words == {"epoch", "next_chunk", "pending", "shutdown"}

SeenOK == knows \in [Participants -> SUBSET Accesses] /\ carries \in [Words -> SUBSET Accesses]

SeenInit ==
    /\ Init
    /\ knows = [p \in Participants |-> Accesses]
    /\ carries = [x \in Words |-> {}]

-----------------------------------------------------------------------------
(* What an operation does to the relation.                                 *)

\* p does a: whoever knew all accesses of the kind does not know this one.
Accessed(p, a) ==
    /\ knows' = [q \in Participants |-> IF q = p THEN knows[q] \cup {a} ELSE knows[q] \ {a}]
    /\ carries' = [x \in Words |-> carries[x] \ {a}]

\* memset of the whole struct: words written so carry nothing.
Wiped ==
    /\ knows' = [q \in Participants |-> IF q = 0 THEN knows[0] \cup {MainWrites}
                                                 ELSE knows[q] \ {MainWrites}]
    /\ carries' = [x \in Words |-> {}]

\* atomic_store: RELEASE.
Released(p, x) == carries' = [carries EXCEPT ![x] = knows[p]] /\ UNCHANGED knows

\* atomic_load: ACQUIRE.
Acquired(p, x) == knows' = [knows EXCEPT ![p] = @ \cup carries[x]] /\ UNCHANGED carries

\* atomic_add, atomic_sub: ACQ_REL, and the word still carries what it did.
Exchanged(p, x) ==
    /\ knows' = [knows EXCEPT ![p] = @ \cup carries[x]]
    /\ carries' = [carries EXCEPT ![x] = @ \cup knows[p]]

\* What q has done is before what p does next: creation of p by q, join of q by p.
Handed(q, p) == knows' = [knows EXCEPT ![p] = @ \cup knows[q]] /\ UNCHANGED carries

Unseen == UNCHANGED seen_vars

-----------------------------------------------------------------------------
(* The steps of JobsPool with their orders.                                *)

\* The release store of epoch, after everything that is to be seen with it.
Bug_SeenPublish == PublishEpoch /\ Unseen
SeenPublish == PublishEpoch /\ Released(0, "epoch")

Bug_SeenRetire(w) == RetireWorker(w) /\ Acquired(w, "pending")
SeenRetire(w) == RetireWorker(w) /\ Exchanged(w, "pending")

\* The wait, then the acquire load of the zero that the last retirement left.
Bug_SeenAwait == AwaitDone /\ Unseen
SeenAwait == AwaitDone /\ Acquired(0, "pending")

SeenClient ==
    \/ \E wc \in 0 .. MaxWorkers : JobsInit(wc) /\ Wiped
    \/ JobsShutdown /\ Released(0, "shutdown")
    \/ (ShuffleSet \/ \E m \in 1 .. MaxLevels : ParallelLevels(m)) /\ Unseen

SeenMain ==
    \/ (SemRefused \/ InitFailed) /\ Wiped
    \/ ThreadCreated /\ Handed(0, k)
    \/ ThreadRefused /\ Released(0, "shutdown")
    \/ (Join("fail_join") \/ Join("down_join")) /\ Handed(k, 0)
    \/ (ShutDown \/ WriteJob) /\ Accessed(0, MainWrites)
    \/ InlineStart /\ Released(0, "epoch")
    \/ InlineRun /\ Accessed(0, ChunksBy(0))
    \/ ResetTickets /\ Released(0, "next_chunk")
    \/ ArmBarrier /\ Released(0, "pending")
    \/ SeenPublish
    \/ RetireMain /\ Exchanged(0, "pending")
    \/ SeenAwait
    \/ /\ \/ SemCreated \/ StopPost("fail_post", "fail_join") \/ StopPost("down_post", "down_join")
          \/ \E a \in LevelArgs : EmptyLevel(a) \/ \E key \in Keys \cup {ShuffleOff} : EnterJob(a, key)
          \/ LevelsDone \/ PostWake \/ Return
       /\ Unseen

SeenClaimLoop(p) ==
    \/ (Snapshot(p) \/ RunChunk(p)) /\ Accessed(p, ChunksBy(p))
    \/ Claim(p) /\ Exchanged(p, "next_chunk")

SeenWorker(w) ==
    \/ CheckShutdown(w) /\ Acquired(w, "shutdown")
    \/ LoadEpoch(w) /\ Acquired(w, "epoch")
    \/ SeenClaimLoop(w)
    \/ SeenRetire(w)
    \/ (Wake(w) \/ SignalDone(w)) /\ Unseen

SeenRunning ==
    \/ SeenClient \/ SeenMain \/ SeenClaimLoop(0)
    \/ \E w \in Workers : SeenWorker(w)
    \/ (\E p \in Participants : NestedCall(p)) /\ Unseen

SeenNext ==
    \/ ~fatal /\ SeenRunning
    \/ fatal /\ UNCHANGED <<vars, seen_vars>>

SeenSpec == SeenInit /\ [][SeenNext]_<<vars, seen_vars>>

SeenFairSpec == SeenSpec /\ Fairness

-----------------------------------------------------------------------------
\* When parallel_for is about to return, and until main publishes again, main sees
\* all that any participant did in its chunks, and may write what they read.
ResultsSeen == ~Pooled => AllChunks \subseteq knows[0]

\* A worker that takes up a job sees all that main wrote before it published it, and
\* with it the results of the levels before (they are in what main saw).
JobSeen == \A w \in Workers : Busy(w) => MainWrites \in knows[w]

\* No plain access of the pool races with another, by the orders of atomic.h alone.
Visible == ResultsSeen /\ JobSeen

-----------------------------------------------------------------------------
(* What makes it inductive, beside BarrierInv.                             *)

OwnSeen == MainWrites \in knows[0] /\ \A p \in Participants : ChunksBy(p) \in knows[p]

\* A worker learns of the job from epoch, main of a retired worker's chunks from pending.
HandedOver == Pooled =>
    /\ MainWrites \in carries["epoch"]
    /\ \A w \in Workers \ Unretired : ChunksBy(w) \in knows[0] \cup carries["pending"]

SeenInv == SeenOK /\ OwnSeen /\ HandedOver /\ Visible
=============================================================================

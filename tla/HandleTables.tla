---------------------------- MODULE HandleTables ----------------------------
(***************************************************************************)
(* The slot tables behind the headless platform's threads, semaphores and  *)
(* mutexes (platform/impl_headless/thread.cpp).  A handle is a slot and a  *)
(* generation of few bits; a generation comes round again, so that a       *)
(* handle which outlives GenMax lives of its slot names another primitive. *)
(* What a primitive does once it is reached is the operating system's.     *)
(***************************************************************************)
EXTENDS Naturals, FiniteSets

CONSTANTS
    Slots,    \* records in a table: 64, 256 and 256
    GenMax,   \* 15
    ArenaRoom \* pieces the platform's arena has room for

ASSUME TablesAssumption ==
    Slots \in Nat \ {0} /\ GenMax \in Nat \ {0} /\ ArenaRoom \in Nat

VARIABLES
    alive, gen, \* of each table, of each slot
    os,         \* the primitive a record names, by the number of its life; it is kept when destroyed
    lives,      \* how many primitives each slot has held (history)
    open,       \* the primitives that exist, <<table, slot, life>>
    returned,   \* the threads among them whose function has returned
    given,      \* the handles callers were given, and for which life (history)
    pushed,     \* pieces taken from the arena, which get none back
    result,     \* of the last call
    fatal       \* TL_FATAL

table_vars == <<alive, gen, os, lives, open, returned, given, pushed>>
hvars == <<table_vars, result, fatal>>

Tables == {"thread", "sem", "mutex"}
Indices == 0 .. Slots - 1
Answers == {"ok", "no-op", "ERR_PLATFORM_THREAD_LIMIT", "ERR_PLATFORM_THREAD_CREATE"}

HInit ==
    /\ alive = [k \in Tables |-> [i \in Indices |-> FALSE]]
    /\ gen = [k \in Tables |-> [i \in Indices |-> 0]]
    /\ os = [k \in Tables |-> [i \in Indices |-> 0]]
    /\ lives = [k \in Tables |-> [i \in Indices |-> 0]]
    /\ open = {} /\ returned = {} /\ given = {} /\ pushed = 0
    /\ result = "ok" /\ fatal = FALSE

\* headless_gen_next: back to 1, never to 0.
Bug_GenNext(g) == g + 1
GenNext(g) == IF g >= GenMax THEN 1 ELSE g + 1

\* handle_make keeps as many bits of a generation as there are.
Handle(k, i, g) == [table |-> k, slot |-> i, gen |-> g % (GenMax + 1)]
Null(k) == Handle(k, 0, 0)

\* The check of join, sem_os, mutex_os and the destroy verbs.
Bug_Reaches(h) == h # Null(h.table) /\ alive[h.table][h.slot]
Reaches(h) ==
    h # Null(h.table) /\ alive[h.table][h.slot] /\ h.gen = gen[h.table][h.slot]

Put(f, k, i, v) == [f EXCEPT ![k][i] = v]

-----------------------------------------------------------------------------
(* Creating: ht_create, ht_sem_create, ht_mutex_create.                    *)

Free(k) == {i \in Indices : ~alive[k][i]}
First(k) == CHOOSE i \in Free(k) : \A j \in Free(k) : i <= j

Limit(k) ==
    /\ Free(k) = {}
    /\ result' = "ERR_PLATFORM_THREAD_LIMIT"
    /\ UNCHANGED <<table_vars, fatal>>

\* A slot is of generation 1 when it is first given out.
Made(k, i, g) ==
    LET n == lives[k][i] + 1
    IN /\ gen' = Put(gen, k, i, g)
       /\ alive' = Put(alive, k, i, TRUE)
       /\ os' = Put(os, k, i, n) /\ lives' = Put(lives, k, i, n)
       /\ open' = open \cup {<<k, i, n>>}
       /\ given' = given \cup {[handle |-> Handle(k, i, g), life |-> n]}
       /\ result' = "ok"

Create(k) ==
    /\ Free(k) # {} /\ pushed < ArenaRoom
    /\ pushed' = pushed + 1
    /\ LET i == First(k) IN Made(k, i, IF gen[k][i] = 0 THEN 1 ELSE gen[k][i])
    /\ UNCHANGED <<returned, fatal>>

\* Of a mutex the system's result is not asked.
SystemRefuses(k) ==
    /\ k # "mutex" /\ Free(k) # {} /\ pushed < ArenaRoom
    /\ pushed' = pushed + 1
    /\ result' = "ERR_PLATFORM_THREAD_CREATE"
    /\ UNCHANGED <<alive, gen, os, lives, open, returned, given, fatal>>

\* arena_push over its reserve.
ArenaFull(k) ==
    /\ Free(k) # {} /\ pushed = ArenaRoom
    /\ fatal' = TRUE /\ result' = "ok"
    /\ UNCHANGED table_vars

-----------------------------------------------------------------------------
(* Using and giving back.  A caller has the handles it was given, and null.*)

Held(k) == {r.handle : r \in {g \in given : g.handle.table = k}} \cup {Null(k)}

Returns(p) ==
    /\ p \in open \ returned /\ p[1] = "thread"
    /\ returned' = returned \cup {p}
    /\ UNCHANGED <<alive, gen, os, lives, open, given, pushed, result, fatal>>

\* join, sem_destroy and mutex_destroy tolerate a handle that reaches nothing.
Tolerated(h) ==
    /\ ~Reaches(h)
    /\ result' = "no-op"
    /\ UNCHANGED <<table_vars, fatal>>

Destroyed(h) ==
    LET p == <<h.table, h.slot, os[h.table][h.slot]>>
    IN /\ open' = open \ {p} /\ returned' = returned \ {p}
       /\ alive' = Put(alive, h.table, h.slot, FALSE)
       /\ gen' = Put(gen, h.table, h.slot, GenNext(gen[h.table][h.slot]))
       /\ result' = "ok"
       /\ UNCHANGED <<os, lives, given, pushed, fatal>>

\* It waits for the thread's function.
Join(h) ==
    \/ Tolerated(h)
    \/ Reaches(h) /\ <<h.table, h.slot, os[h.table][h.slot]>> \in returned /\ Destroyed(h)

SemDestroy(h) == Tolerated(h) \/ (Reaches(h) /\ Destroyed(h))
MutexDestroy(h) == Tolerated(h) \/ (Reaches(h) /\ Destroyed(h))

\* sem_wait, sem_try_wait and sem_post; mutex_lock and mutex_unlock: fatal on a handle that
\* reaches nothing, for there is no such thing as locking nothing.
Used(h) ==
    IF Reaches(h) THEN result' = "ok" /\ UNCHANGED fatal
    ELSE fatal' = TRUE /\ result' = "ok"
SemVerb(h) == Used(h) /\ UNCHANGED table_vars
MutexVerb(h) == Used(h) /\ UNCHANGED table_vars

Creating(k) == Limit(k) \/ Create(k) \/ SystemRefuses(k) \/ ArenaFull(k)
ThreadCreate == Creating("thread")
SemCreate == Creating("sem")
MutexCreate == Creating("mutex")

HNext ==
    /\ ~fatal
    /\ \/ ThreadCreate \/ SemCreate \/ MutexCreate
       \/ \E p \in open : Returns(p)
       \/ \E h \in Held("thread") : Join(h)
       \/ \E h \in Held("sem") : SemVerb(h) \/ SemDestroy(h)
       \/ \E h \in Held("mutex") : MutexVerb(h) \/ MutexDestroy(h)

HSpec == HInit /\ [][HNext]_hvars

-----------------------------------------------------------------------------
HandleTypes ==
    /\ alive \in [Tables -> [Indices -> BOOLEAN]]
    /\ gen \in [Tables -> [Indices -> 0 .. GenMax]]
    /\ os \in [Tables -> [Indices -> Nat]] /\ lives \in [Tables -> [Indices -> Nat]]
    /\ open \subseteq Tables \X Indices \X Nat
    /\ given \subseteq [handle : [table : Tables, slot : Indices, gen : 1 .. GenMax], life : Nat]
    /\ pushed \in 0 .. ArenaRoom
    /\ result \in Answers /\ fatal \in BOOLEAN

\* A primitive exists exactly as long as its slot is in use: none is left behind by a create
\* that failed or a destroy, and none is closed twice.
OpenAreAlive ==
    /\ \A k \in Tables, i \in Indices : alive[k][i] => <<k, i, os[k][i]>> \in open
    /\ \A p \in open : alive[p[1]][p[2]] /\ p[3] = os[p[1]][p[2]]
    /\ returned \subseteq open

\* While a primitive exists the handle it was given under finds it, whatever was created and
\* destroyed beside it.  Once it is gone, and as long as its slot has not come round to the
\* same generation, the handle finds nothing.
HandlesTell ==
    \A r \in given :
        LET k == r.handle.table
            i == r.handle.slot
        IN /\ <<k, i, r.life>> \in open => Reaches(r.handle)
           /\ Reaches(r.handle) => r.life <= os[k][i] /\ (os[k][i] - r.life) % GenMax = 0

\* A table refuses only while every slot of it holds a primitive.
RefusesWhenFull ==
    result = "ERR_PLATFORM_THREAD_LIMIT" =>
        \E k \in Tables : \A i \in Indices : \E p \in open : p[1] = k /\ p[2] = i

HandlesInv == HandleTypes /\ OpenAreAlive /\ HandlesTell /\ RefusesWhenFull
=============================================================================

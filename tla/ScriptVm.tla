------------------------------ MODULE ScriptVm ------------------------------
(***************************************************************************)
(* One Luau VM and what it shares with the process: the vendor pool the    *)
(* compiler draws from and the interner behind the string atoms.  Every    *)
(* entry point of script.h is one action, its early returns included.  Of  *)
(* Luau itself only what the module relies on is modelled: how a call      *)
(* moves the stack, how the registry pins a table, where the interrupt is  *)
(* called and which tables a script may write.  A script is abstracted to  *)
(* the safepoints it passes, the table it writes and how it ends.          *)
(***************************************************************************)
EXTENDS Integers, Sequences, FiniteSets

CONSTANTS
    Kinds,          \* the kinds of VM created, a subset of {"sim", "ui", "data"}
    Interners,      \* interners a description may name, beside "none"
    Tables,         \* tables a script may hand to C++
    BudgetSafepoints, \* budget_safepoints
    MaxSteps,       \* bound on the safepoints of one tick
    MaxRefs,        \* bound on the registry
    HeadroomMin, BytesPerSrcByte, SourceLens,
    PoolBudget      \* budget_bytes of the compile pool

\* "free" and "none" are what the registry and the pool say when they hold none.
ASSUME VmAssumption ==
    /\ Kinds \subseteq {"sim", "ui", "data"} /\ "none" \notin Interners /\ "free" \notin Tables
    /\ BudgetSafepoints \in Nat /\ PoolBudget \in Nat /\ MaxSteps \in Nat
    /\ HeadroomMin \in Nat /\ BytesPerSrcByte \in Nat /\ SourceLens \subseteq Nat

VARIABLES
    vm,             \* the VM: its lua_State, its pool and its fields
    registry,       \* the lua_ref table: slots and the free list through them
    cpool,          \* compile_pool: bytes carved, bytes live
    window,         \* g_window_live and g_window_peak of vendor_new.cpp
    atom_interner,  \* g_atom_interner
    vm_fatal,       \* a TL_FATAL was reached
    held,           \* tables handed to a caller and not yet released
    lost,           \* tables pinned for a caller that was never told
    tick,           \* safepoints passed and budget errors raised since tick_begin
    answered        \* what the last call that can fail told its caller

svars == <<vm, registry, cpool, window, atom_interner, vm_fatal, held, lost, tick, answered>>

\* What the libraries of a kind put in _G, and the removal list.
Libraries(kind) ==
    {"base", "table", "string"} \cup
    (IF kind = "sim" THEN {} ELSE
        {"coroutine", "math", "debug", "utf8", "bit32", "buffer", "vector"}
        \cup (IF kind = "ui" THEN {"os"} ELSE {}))
Opened(kind) ==
    (Libraries(kind) \ {"base"}) \cup
    {"pairs", "next", "print", "newproxy", "getfenv", "setfenv", "gcinfo", "collectgarbage",
     "rawget", "rawset", "rawequal", "ipairs", "string.rep", "table.foreach", "table.foreachi"}
    \cup (IF "math" \in Libraries(kind) THEN {"math.random", "math.randomseed"} ELSE {})
Removals(kind) ==
    CASE kind = "sim" ->
            {"math", "os", "io", "debug", "pairs", "next", "coroutine", "loadstring",
             "collectgarbage", "gcinfo", "getfenv", "setfenv", "newproxy", "print", "rawequal",
             "rawget", "rawset", "string.rep", "table.foreach", "table.foreachi"}
      [] kind = "data" ->
            {"os", "io", "loadstring", "getfenv", "setfenv", "math.random", "math.randomseed",
             "pairs", "next", "table.foreach", "table.foreachi"}
      [] OTHER -> {}
\* script_sandbox_open: libraries, removals, and sortedpairs for every kind.
Kept(kind) == Opened(kind) \ Removals(kind)
SandboxNames(kind) == Kept(kind) \cup {"sortedpairs", "tostring", "fx"}

\* Tables a script can reach by name, and the one behind every string.
Reachable(names) == {"_G", "fx", "strmt"} \cup (names \cap {"string", "table", "mine"})

NoVm ==
    [state |-> "none", kind |-> "sim", reserve |-> FALSE, stack |-> 0, init_open |-> FALSE,
     names |-> {}, readonly |-> {}, left |-> 0, warned |-> FALSE, err |-> FALSE,
     atoms |-> "none", compiled |-> 0, last_reachable |-> 0, growth_ticks |-> 0]
NoRefs == [slots |-> <<>>, free |-> <<>>]

Installed == [live |-> 0, peak |-> 0]

SInit ==
    /\ vm = NoVm /\ registry = NoRefs
    /\ cpool = [carved |-> 0, live |-> 0] /\ window = Installed
    /\ atom_interner = "none" /\ vm_fatal = FALSE
    /\ held = {} /\ lost = {} /\ tick = [steps |-> 0, raised |-> 0, late |-> FALSE]
    /\ answered = [failed |-> FALSE, bytes |-> 0]

Live == vm.state = "live" /\ ~vm_fatal

(* ---- creation and destruction ---- *)

\* script_install_useratom: a second interner is fatal, none installs nothing.
InstallAtoms(in) ==
    /\ atom_interner' = IF in = "none" \/ atom_interner # "none" THEN atom_interner ELSE in
    /\ vm_fatal' = (in # "none" /\ atom_interner \notin {"none", in})

\* create: a malformed description, a refused reserve, a refused lua_State and
\* a sandbox step that did not take each leave nothing behind.
ReservedAt(step) == step \in {"newstate", "sandbox"}
ReleasedAt(step) == step \in {"newstate", "sandbox"}
CreateFails(step, in) ==
    /\ vm.state # "live" /\ ~vm_fatal
    /\ answered' = [answered EXCEPT !.failed = TRUE]
    /\ vm' = [NoVm EXCEPT !.reserve = ReservedAt(step) /\ ~ReleasedAt(step)]
    /\ IF step = "sandbox" THEN InstallAtoms(in) ELSE UNCHANGED <<atom_interner, vm_fatal>>
    /\ UNCHANGED <<registry, cpool, window, held, lost, tick>>

Create(kind, in) ==
    /\ vm.state # "live" /\ ~vm_fatal
    /\ InstallAtoms(in)
    /\ vm' = [NoVm EXCEPT
                !.state = "live", !.kind = kind, !.reserve = TRUE, !.init_open = TRUE,
                !.left = BudgetSafepoints, !.names = SandboxNames(kind), !.readonly = {"fx"},
                !.atoms = in]
    /\ registry' = NoRefs /\ held' = {} /\ lost' = {}
    /\ tick' = [steps |-> 0, raised |-> 0, late |-> FALSE]
    /\ answered' = [answered EXCEPT !.failed = FALSE, !.bytes = 0]
    /\ UNCHANGED <<cpool, window>>

\* lua_close gives every byte back, then the reserve returns to the system.
Destroy ==
    /\ Live
    /\ vm' = [NoVm EXCEPT !.state = "dead"]
    /\ registry' = NoRefs /\ held' = {} /\ lost' = {}
    /\ answered' = [answered EXCEPT !.failed = FALSE]
    /\ UNCHANGED <<cpool, window, atom_interner, vm_fatal, tick>>

(* ---- seal ---- *)

\* luaL_sandbox: every table in _G, the string metatable, then _G.
Frozen(names) == Reachable(names)

Seal ==
    /\ Live
    /\ vm' = IF ~vm.init_open THEN [vm EXCEPT !.err = TRUE]
             ELSE [vm EXCEPT !.err = FALSE, !.init_open = FALSE, !.readonly = @ \cup Frozen(vm.names)]
    /\ answered' = [answered EXCEPT !.failed = ~vm.init_open]
    /\ UNCHANGED <<registry, cpool, window, atom_interner, vm_fatal, held, lost, tick>>

(* ---- compiling ---- *)

Want(len) == HeadroomMin + len * BytesPerSrcByte
Headroom(staged) ==
    IF PoolBudget > cpool.carved + staged THEN PoolBudget - cpool.carved - staged ELSE 0

\* The other users of the shared pool: what they free stays carved.
OthersAllocate(n) ==
    /\ ~vm_fatal /\ cpool.carved + n <= PoolBudget
    /\ cpool' = [carved |-> cpool.carved + n, live |-> cpool.live + n]
    /\ UNCHANGED <<vm, registry, window, atom_interner, vm_fatal, held, lost, tick, answered>>
OthersFree ==
    /\ ~vm_fatal /\ cpool.live > 0
    /\ cpool' = [cpool EXCEPT !.live = 0]
    /\ UNCHANGED <<vm, registry, window, atom_interner, vm_fatal, held, lost, tick, answered>>

\* vendor_heap_install opens a new window; vendor_alloc raises its peak; the
\* compiler frees what it took before the window closes.
VendorAlloc(w, n) ==
    [live |-> w.live + n, peak |-> IF w.live + n > w.peak THEN w.live + n ELSE w.peak]
VendorFree(w, n) == [w EXCEPT !.live = IF @ > n THEN @ - n ELSE 0]
Compile(n) == VendorFree(VendorAlloc(Installed, n), n)

\* load_chunk: what is refused before luau_compile is reached, what the
\* compiler refuses, what luau_load refuses.  `fresh` bytes are newly carved
\* for the compile; over the budget, operator new is fatal.
Compiles(o) == o \in {"syntax", "load", "ok"}
LoadOutcomes(staged, len) ==
    IF Headroom(staged) < Want(len) THEN {"headroom"} ELSE {"syntax", "load", "ok"}
Window(staged, o, fresh, taken) ==
    IF Compiles(o)
    THEN /\ cpool' = [cpool EXCEPT !.carved = @ + staged + fresh]
         /\ window' = Compile(taken)
         /\ vm_fatal' = (cpool.carved + staged + fresh > PoolBudget)
    ELSE /\ cpool' = [cpool EXCEPT !.carved = IF o = "oom" THEN @ ELSE @ + staged]
         /\ UNCHANGED <<window, vm_fatal>>

\* Values the failing path leaves on the stack: take_error pops the message.
TakeErrorNet == -1
LoadNet(o) == CASE o = "ok" -> 1 [] o = "load" -> 1 + TakeErrorNet [] OTHER -> 0

(* ---- running ---- *)

\* script_interrupt over n safepoints: one trip, after which none is counted.
Trips(left, n) == left >= 0 /\ n > left
LeftAfter(left, n) == IF left < 0 THEN left ELSE IF n > left THEN -1 ELSE left - n
\* The budget only warns in the ui VM.
Raises(n) == Trips(vm.left, n) /\ vm.kind # "ui"

\* A script: its safepoints, whether it runs under its own pcall, the table it
\* writes, and whether it raises an error of its own.
Scripts ==
    [safepoints : 0..MaxSteps, catches : BOOLEAN,
     writes : {"none", "_G", "string", "strmt", "mine"}, throws : BOOLEAN]

Stopped(p) == Raises(p.safepoints) /\ ~p.catches
Passed(p) == IF Stopped(p) THEN vm.left + 1 ELSE p.safepoints
\* A write to a read-only table raises; a script that does not hold the table
\* cannot write it.
Writes(p) == ~Stopped(p) /\ p.writes \in Reachable(vm.names) \ vm.readonly
Defines(p) == ~Stopped(p) /\ p.writes = "mine" /\ "mine" \notin vm.names /\ "_G" \notin vm.readonly
Fails(p) ==
    Stopped(p) \/ p.throws \/ (p.writes # "none" /\ ~Writes(p) /\ ~Defines(p))

RunsScript(p) ==
    /\ tick.steps + Passed(p) <= MaxSteps
    /\ tick' = [steps |-> tick.steps + Passed(p),
                raised |-> tick.raised + (IF Raises(p.safepoints) THEN 1 ELSE 0),
                late |-> tick.late \/ ((Writes(p) \/ Defines(p)) /\ ~vm.init_open)]

\* What lua_pcall leaves for `results` wanted: them, or the message.
PcallNet(failed, results) == -1 + (IF failed THEN 1 ELSE results)

AfterScript(p) ==
    [vm EXCEPT
        !.left = LeftAfter(@, p.safepoints),
        !.warned = @ \/ (vm.kind = "ui" /\ Trips(vm.left, p.safepoints)),
        !.names = IF Defines(p) THEN @ \cup {"mine"} ELSE @]

\* script_run_source.  The traceback function lies below the chunk.
RunSource(len, o, fresh, taken, p) ==
    /\ Live
    /\ o \in LoadOutcomes(0, len) /\ taken <= Want(len) /\ Window(0, o, fresh, taken)
    /\ IF o = "ok" THEN RunsScript(p) ELSE UNCHANGED tick
    /\ vm' = [(IF o = "ok" THEN AfterScript(p) ELSE vm) EXCEPT
                !.err = o # "ok" \/ Fails(p),
                !.compiled = IF Compiles(o) THEN window'.peak ELSE @,
                !.stack = @ + 1 + LoadNet(o) - 1
                            + (IF o = "ok" THEN PcallNet(Fails(p), 0) ELSE 0)
                            + (IF o = "ok" /\ Fails(p) THEN TakeErrorNet ELSE 0)]
    /\ answered' = [failed |-> o # "ok" \/ Fails(p),
                    bytes |-> IF Compiles(o) THEN taken ELSE answered.bytes]
    /\ UNCHANGED <<registry, atom_interner, held, lost>>

(* ---- values and tables ---- *)

\* Values as to_script_value tells them apart.
Values == [kind : {"nil", "plain", "bad"}, table : {"free"}] \cup [kind : {"table"}, table : Tables]

Nil == [kind |-> "nil", table |-> "free"]
Plain == [kind |-> "plain", table |-> "free"]

\* lua_ref and lua_unref.
Pin(reg, t) ==
    IF reg.free = <<>> THEN [reg EXCEPT !.slots = Append(@, t)]
    ELSE [slots |-> [reg.slots EXCEPT ![Head(reg.free)] = t], free |-> Tail(reg.free)]
PinnedAt(reg) == IF reg.free = <<>> THEN Len(reg.slots) + 1 ELSE Head(reg.free)
Unpin(reg, r) == [slots |-> [reg.slots EXCEPT ![r] = "free"], free |-> <<r>> \o reg.free]
Room(n) == Len(registry.slots) + n <= MaxRefs + Len(registry.free)

\* to_script_value pins a table, copies a plain value and refuses the rest.
Convert(reg, v) == IF v.kind = "table" THEN Pin(reg, v.table) ELSE reg
Handed(reg, v) == IF v.kind = "table" THEN {[ref |-> PinnedAt(reg), table |-> v.table]} ELSE {}

\* script_eval and script_eval_int.  load_wrapped_expr stages the source in the
\* compile pool first; script_eval_int takes a number only.
EvalOutcomes(staged, len) ==
    IF cpool.carved + staged <= PoolBudget THEN LoadOutcomes(staged, len) ELSE {"oom"}
EvalFails(p, v, want_int) == Fails(p) \/ v.kind = "bad" \/ (want_int /\ v.kind # "plain")
Eval(len, staged, o, fresh, taken, p, v, want_int) ==
    /\ Live /\ Room(1)
    /\ o \in EvalOutcomes(staged, len) /\ taken <= Want(len) /\ Window(staged, o, fresh, taken)
    /\ IF o = "ok" THEN RunsScript(p) ELSE UNCHANGED tick
    /\ vm' = [(IF o = "ok" THEN AfterScript(p) ELSE vm) EXCEPT
                !.err = o # "ok" \/ EvalFails(p, v, want_int),
                !.compiled = IF Compiles(o) THEN window'.peak ELSE @,
                !.stack = @ + 1 + LoadNet(o) - 1
                            + (IF o = "ok" THEN PcallNet(Fails(p), 1) - 1 ELSE 0)]
    /\ answered' = [failed |-> o # "ok" \/ EvalFails(p, v, want_int),
                    bytes |-> IF Compiles(o) THEN taken ELSE answered.bytes]
    /\ IF o = "ok" /\ ~Fails(p) /\ ~want_int
       THEN registry' = Convert(registry, v) /\ held' = held \cup Handed(registry, v)
       ELSE UNCHANGED <<registry, held>>
    /\ UNCHANGED <<atom_interner, lost>>

IsTable(r) == r \in 1..Len(registry.slots) /\ registry.slots[r] \in Tables

\* script_table_get and script_table_geti: the table, the key's value, both popped.
TableGet(r, v) ==
    /\ Live /\ Room(1)
    /\ vm' = [vm EXCEPT
                !.err = ~IsTable(r) \/ v.kind = "bad",
                !.stack = @ + 1 + (IF IsTable(r) THEN 1 - 2 ELSE -1)]
    /\ answered' = [answered EXCEPT !.failed = ~IsTable(r) \/ v.kind = "bad"]
    /\ IF IsTable(r)
       THEN registry' = Convert(registry, v) /\ held' = held \cup Handed(registry, v)
       ELSE UNCHANGED <<registry, held>>
    /\ UNCHANGED <<cpool, window, atom_interner, vm_fatal, lost, tick>>

\* script_table_next: refused for what is not a table, for a key that cannot
\* be pushed back and for one the table does not hold now.
NextRefused(r, key) == ~IsTable(r) \/ key \in {"table", "absent"}
NextStack(r, key, more) ==
    CASE ~IsTable(r) \/ key = "table" -> 1 - 1          \* the table
      [] key = "absent" -> 2 + 1 - 1 - 2                \* the looked-up value, then both
      [] ~more -> 2 - 1 - 1                             \* lua_next pops the key
      [] OTHER -> 2 + 1 - 3
\* A table key keeps its pin when the walk is refused for it.
Bug_NextPins(reg, k, v) == Convert(Convert(reg, k), v)

\* The key is converted before the value; a table key is released again.
NextPins(reg, k, v) ==
    IF k.kind = "table" THEN Unpin(Convert(Convert(reg, k), v), PinnedAt(reg))
    ELSE Convert(reg, v)
NextHands(reg, k, v) == Handed(Convert(reg, k), v)

TableNext(r, key, more, k, v) ==
    /\ Live /\ Room(2)
    /\ vm' = [vm EXCEPT
                !.err = NextRefused(r, key) \/ (more /\ (k.kind # "plain" \/ v.kind = "bad")),
                !.stack = @ + NextStack(r, key, more)]
    /\ answered' = [answered EXCEPT
                !.failed = NextRefused(r, key) \/ (more /\ (k.kind # "plain" \/ v.kind = "bad"))]
    /\ IF NextRefused(r, key) \/ ~more THEN UNCHANGED <<registry, held, lost>>
       ELSE /\ registry' = NextPins(registry, k, v)
            /\ IF k.kind = "plain"
               THEN held' = held \cup NextHands(registry, k, v) /\ lost' = lost
               ELSE held' = held /\ lost' = lost \cup NextHands(registry, k, v)
    /\ UNCHANGED <<cpool, window, atom_interner, vm_fatal, tick>>

\* script_table_unref, by the caller a table was handed to.
Unref(h) ==
    /\ Live /\ h \in held
    /\ registry' = Unpin(registry, h.ref) /\ held' = held \ {h}
    /\ UNCHANGED <<vm, cpool, window, atom_interner, vm_fatal, lost, tick, answered>>

(* ---- the tick ---- *)

TickBegin ==
    /\ Live
    /\ vm' = [vm EXCEPT !.left = BudgetSafepoints, !.warned = FALSE]
    /\ tick' = [tick EXCEPT !.steps = 0, !.raised = 0]
    /\ UNCHANGED <<registry, cpool, window, atom_interner, vm_fatal, held, lost, answered>>

\* The leak heuristic of a dev build: consecutive growths of what is reachable.
TickEnd(reachable) ==
    /\ Live
    /\ vm' = [vm EXCEPT
                !.growth_ticks = IF reachable > vm.last_reachable THEN @ + 1 ELSE 0,
                !.last_reachable = reachable]
    /\ UNCHANGED <<registry, cpool, window, atom_interner, vm_fatal, held, lost, tick, answered>>

Outcomes == {"headroom", "syntax", "load", "ok"}
Nothing == [safepoints |-> 0, catches |-> FALSE, writes |-> "none", throws |-> FALSE]
Expressions == {p \in Scripts : p.writes = "none" /\ p.safepoints <= 1 /\ ~p.catches}

Lifecycle ==
    \/ Destroy \/ Seal
    \/ \E step \in {"argument", "pool", "newstate", "sandbox"}, in \in Interners \cup {"none"} :
          CreateFails(step, in)
    \/ \E kind \in Kinds, in \in Interners \cup {"none"} : Create(kind, in)
Compiling ==
    \/ OthersAllocate(1) \/ OthersFree
    \/ \E len \in SourceLens, o \in Outcomes, fresh \in {0, 2}, taken \in 1..2 :
          fresh <= taken /\ RunSource(len, o, fresh, taken, Nothing)
    \/ \E len \in SourceLens, o \in Outcomes \cup {"oom"}, staged \in 0..1 :
          Eval(len, staged, o, 0, 1, Nothing, Plain, TRUE)
Ticking ==
    \/ TickBegin
    \/ \E reachable \in 0..2 : TickEnd(reachable)
    \/ \E p \in Scripts : RunSource(1, "ok", 0, 1, p)
Reading ==
    \/ \E p \in Expressions, v \in Values, want_int \in BOOLEAN :
          Eval(1, 0, "ok", 0, 1, p, v, want_int)
    \/ \E r \in 0..MaxRefs, v \in Values : TableGet(r, v)
    \/ \E r \in 0..MaxRefs, key \in {"nil", "present", "absent", "table"}, more \in BOOLEAN :
          \E k, v \in IF NextRefused(r, key) \/ ~more THEN {Plain} ELSE Values \ {Nil} :
              TableNext(r, key, more, k, v)
    \/ \E h \in held : Unref(h)

SNext == Lifecycle \/ Compiling \/ Ticking \/ Reading

SSpec == SInit /\ [][SNext]_svars

(* ---- properties ---- *)

\* Whatever path a call took, it leaves the Lua stack as it found it, and the
\* address space of a VM is reserved exactly while the VM lives.
CallsBalance ==
    /\ vm.stack = 0
    /\ vm.reserve = (vm.state = "live")

\* Every pinned table is one a caller holds, under its own slot; the only
\* others are the values of walks refused for their key (script_table_next).
PinnedIsHeld ==
    /\ {[ref |-> r, table |-> registry.slots[r]] : r \in {q \in DOMAIN registry.slots : IsTable(q)}}
           = held \cup lost
    /\ \A g, h \in held \cup lost : g.ref = h.ref => g = h
    /\ held \cap lost = {}

\* The budget error is raised once in a tick, by the first safepoint past the
\* budget, in every VM but the ui VM, whose warning it is.
BudgetInv ==
    vm.state = "live" =>
        /\ vm.left = IF tick.steps <= BudgetSafepoints THEN BudgetSafepoints - tick.steps ELSE -1
        /\ tick.raised = IF tick.steps > BudgetSafepoints /\ vm.kind # "ui" THEN 1 ELSE 0
        /\ vm.warned = (tick.steps > BudgetSafepoints /\ vm.kind = "ui")

\* The error text belongs to the last call, and the compile size to the last
\* compile, whatever the pool had seen before.
AnswersAreFresh ==
    vm.state = "live" /\ ~vm_fatal =>
        vm.err = answered.failed /\ vm.compiled = answered.bytes

\* After script_seal no chunk changes a global, a library or the string metatable.
SealHolds == ~tick.late

\* The compiler never meets the pool's budget: load_chunk refuses first.
CompileFits == cpool.carved <= PoolBudget /\ window.live = 0

\* Nothing whose result differs between peers is reachable from a sim VM, and
\* a data VM cannot draw, read the system or walk a table in hash order.
NoEntropy ==
    vm.state = "live" =>
        /\ vm.kind = "sim" => vm.names \cap {"math", "os", "coroutine", "newproxy"} = {}
        /\ vm.kind # "ui" => vm.names \cap
                {"os", "math.random", "pairs", "next", "table.foreach", "table.foreachi"} = {}

\* One numbering of names in the process.
OneNumbering == vm.atoms # "none" /\ ~vm_fatal => vm.atoms = atom_interner

VmInv ==
    /\ CallsBalance /\ PinnedIsHeld /\ BudgetInv /\ AnswersAreFresh
    /\ SealHolds /\ CompileFits /\ NoEntropy /\ OneNumbering
=============================================================================

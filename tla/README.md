# A formal model of tidelock

tidelock is a deterministic lockstep engine: every peer must turn the same
inputs into the same bytes, tick after tick, whatever its number of threads,
its frame rate or its rollbacks. This directory holds TLA+ modules translated
from its C++ source, the TLC configurations that check them on small instances,
and proofs, checked by TLAPS, that hold for instances of every size. Paths below
are relative to the repository; line numbers are in `PROJECT.json`.

## 1. The system

### 1.1 Components

| component | state it keeps | operations | talks to |
|---|---|---|---|
| **jobs pool** `src/foundation/jobs.cpp` | `Jobs`: current `job`, `epoch`, `next_chunk`, `pending`, `shutdown`, `in_job`; one `wake` semaphore per worker, one `done` | `jobs_init`, `jobs_shutdown`, `parallel_for`, `parallel_levels`, `jobs_shuffle_set`; worker main | its threads share `Jobs` through atomics and semaphores |
| **jobs shuffle** same file | none (pure) | `domain_bits`, `feistel`, `shuffle_permute` | called for every ticket in shuffle mode |
| **ECS world** `src/core/{commands,world,column}.cpp`, `src/foundation/slotmap.h` | generations, live bits, free list, component columns and sparse tables (arenas); four counts kept beside them; reservations of the command window; command chunks | `world_spawn/destroy/add/remove/set_field`, `apply_commands`, `world_flush`, `world_post_restore` | systems record into chunks, barriers apply them, rollback replaces the arenas |
| **schedule** `src/core/schedule.cpp` | per-phase order of systems | `schedule_build`, `run_phase` | decides whose chunk is being recorded |
| **events** `src/core/events.cpp` | two halves per event type | emit, read, `events_swap`, `events_clear_all` | swapped by the tick, cleared by a restore |
| **engine loop** `src/core/{loop,time,interp}.cpp` | accumulator, step count, alpha, previous poses | `engine_frame`, `engine_tick_once`, `clock_tick`, `interp_pingpong` | producers give it input, the recorder its trace, render the alpha |
| **producers** `src/core/producers/*` | raw key state, scripted cursor, replay cursor | `live_produce`, `script_produce`, `replay_produce` | read by the loop, may answer WAIT |
| **recorder** `src/core/recorder.cpp` | rows: frames and hash of each tick | `recorder_tick`, write, read | fed by the tick, read by the replay producer |
| **snapshots** `src/foundation/{snapshot,arena_registry}.cpp` | ring of six blobs; the registry of arenas | `ring_push`, `ring_find`, `registry_snapshot`, `registry_restore` | copies every registered arena |
| **arena guard** `src/foundation/arena_guard.cpp` | sizes at the start of the tick | tick and barrier windows | dev builds only |
| **containers, scratch** `src/foundation/{ring,map,sorted,interner,mem_pool,scratch,sort}*` | sequential data structures | | everywhere |
| **numerics** `src/foundation/{fx,det_math,rng,hash,crc32}*` | none | fixed-point arithmetic, hashes | everywhere |
| **save files** `src/core/save.cpp`, `src/platform/os_file_atomic.cpp` | a file, its temporary twin | write-flush-rename-flush, all-or-nothing read | the operating system |
| **data tables** `src/core/data_tables.cpp`, `src/script/data_compile.cpp` | tables of plain rows, an index by name hash | `data_compile`, `data_find`, `data_row` | data scripts, the world |
| **assets** `src/core/assets.cpp`, `src/core/loaders/image.cpp` | a slot map of textures with holders, an index by name, streaming buffers | load, create, release | the render device |
| **cvars** `src/core/cvar.cpp` | the table, its order by key, the values | register, set, format, parse, fold | the console, the barrier, the session's hash |
| **reflection, declared components** `src/core/{reflect.h,luacomp.cpp,diff.cpp}`, `src/net/wire.h` | tables of fields | write and read a row, compare two, register a script's struct | saves, wire, inspector |
| **action map** `src/core/action_map.cpp` | bindings of a context | resolve | the live producer |
| **encoders** `src/core/{encoder,desync_diff}*` | none | field-by-field codecs | tools |
| **net, phase 1** `src/net/*` | `SlotRing`, `LogStore` | codecs, store, count | nothing yet |
| **platform** `src/platform/*` | tables of handles for threads, semaphores and mutexes; files | function tables over the OS | jobs, files, clock |
| **render** `src/render/*` | draw queue, camera, debug shapes | extract, sort, submit | reads the world at alpha |
| **script** `src/script/*` | a Luau VM: stack, registry, budget, seal; the interner of its atoms | compile, evaluate, walk a table, tick; the sandbox's own functions; the `fx` table | data tables, numerics, the vendored heap |
| **editor** `src/editor/*` | console: commands, history; inspector: selection | tokenize, complete, execute, resolve a path, edit a field | cvars, reflection, the command window |
| **vendor glue, app, sim** | | adapters and two stubs | |

There is no game in the repository: no system is registered by `src/`, and no
driver of a rollback outside `tests/`. What a model needs of them it takes in
the most general form, and says so.

### 1.2 What is hard here

* **Threads.** Only the jobs pool has any. Its correctness is an argument about
  who may be where when main rewrites `job` without a lock: a participant count
  armed before the epoch is published, retirement by everyone including main,
  a `done` token that must exist only when someone waits for it, and one wake
  semaphore per worker.
* **Deferred structure.** A spawn returns a handle for a slot that is neither
  allocated nor popped until a barrier; several reservations, destroys and
  restores can come in between, and records are applied in chunk order, not in
  the order of the calls.
* **State outside the arenas.** Rollback restores bytes. Counts, event halves,
  reservations and the snapshot ring itself are not among them and are rebuilt,
  dropped or left alone.
* **Real time.** Frames are clamped, capped and stalled; ticks must not be paid
  for twice, and the render pose must not go back.
* **Boundaries.** Generations that reach their maximum, a ticket counter that
  everybody overshoots once, a ring of six snapshots that re-ticking fills
  again, a snapshot that does not fit.

* **Crashes and strangers.** A save is written by a process that may die between
  any two system calls and read by a build with other fields; a segment or a
  record may come from another writer, twice, late or not at all.

* **Two readings of one thing.** A script's format is parsed to check it and
  again by the library; a number is printed and parsed by hand; a component is
  laid out for a script as C++ would; a row is read by a build that did not write
  it. What the two readings make of it must agree.
* **One failure among many.** A bad row in a data script, a texture the device
  refuses after the registry took it, a table whose key is refused after its
  value was pinned.

The list, with the line where each one bites and the properties against it, is
`hazards` in `PROJECT.json`.

### 1.3 What makes each component correct

* *jobs pool*: every chunk of a call runs exactly once before the call returns;
  no worker is inside a job outside the call; nothing leaks and nothing hangs.
* *shuffle*: tickets are permuted, whatever the key.
* *handle tables*: a handle finds the primitive it was given for while that exists, and
  nothing else until its slot has run through its generations.
* *ECS*: a handle is never issued twice; a slot is live, pending, free or
  quarantined; rows, sparse tables and counts agree; a restored world has the
  counts it was saved with.
* *loop, recorder, producers*: never ahead of real time; presented time is
  monotonic; a replay has the hashes of the recording.
* *snapshots*: re-ticking after a rollback gives the world of the inputs in
  force; what is found for a tick is that tick on the present timeline.
* *arenas, registry*: hashed and restored bytes are a function of what was pushed
  and written, never of what the memory was used for before.
* *arena guard*: a tick that ends moved registered arenas only where it may, and
  no tick that did so is stopped.
* *vendored heap*: blocks do not overlap, their headers are found again, and the
  books balance.
* *producers*: the frame is what the player holds or the script says.
* *schedule*: of all orders that break no edge, the least by registration; refused
  just when there is none.
* *containers*: lookups give what was last put; a table shows nothing of what was
  deleted; sorted order is a function of the keys; the sort is stable.
* *save files*: the path holds the whole of some version at any moment, also for
  another process after a power loss; a load is whole or refused, across builds.
* *net*: what a session recorded comes back from every codec; frames have one
  encoding; the store keeps each record once and gives them in order, whatever
  came twice or late; a ring's tick is the one asked for or absent.
* *numerics*: a result is the exact one rounded once, or saturated, or an error
  that says so, and no argument of a script reaches an assertion.
* *script VM*: a call leaves the stack as it was; what is pinned is held; the
  budget trips once a tick, at the same safepoint on every peer; after the seal no
  chunk changes a global; nothing that differs between peers can be reached.
* *sandbox*: no address is shown; a sorted walk gives each key once, in order.
* *data tables*: all rows of all scripts, exactly as written, or none.
* *assets*: the device's textures are the registry's; a handle let go by all its
  holders finds nothing for ever.
* *cvars, console, inspector*: what the simulation reads changes at barriers only,
  in lockstep sessions never; what is typed is what is stored and answered; nothing
  typed stops the process.
* *reflection*: a row has one form; a declared component is the struct C++ would
  have; tables with one hash read each other's rows.

## 2. Modules

| module | models | extends / uses |
|---|---|---|
| `JobsChunks` | `jobs_chunk_count` and the slice of a chunk, at the width of the source's integers | |
| `JobsShuffle` | the Feistel permutation of tickets and the inline loop over it | `JobsChunks` |
| `ParallelFor` | the abstract promise of `parallel_for`: every chunk once, calls do not overlap | |
| `JobsPool` | the pool, its client and its threads; the inductive invariant | `JobsChunks`, instance of `ParallelFor` |
| `JobsVisibility` | the pool's happens-before relation | `JobsPool` |
| `JobsPool_proof` | theorems: the barrier, tickets, chunks, the promise, what is visible; the shuffle | `JobsVisibility`, `JobsShuffle` |
| `EcsWorld` | entities, components, command windows, save and restore | |
| `EcsWorld_proof` | theorems: the slots, the handles, the columns, the restored counts; the order of the systems | `EcsWorld`, `Schedule` |
| `EngineTick` | `engine_tick_once`: phases, recorder, events, previous pose | |
| `EngineFrame` | `engine_frame` and the replay of a recording | `EngineTick` |
| `Rollback` | the ring of snapshots; ticks, snapshots and rollbacks together | `EngineTick` |
| `Engine_proof` | theorems: determinism of the replay, events, the clock; what `ring_find` gives, re-ticking to the same world; the console, paths and inspector | `EngineFrame`, `Rollback`, `Console` |
| `Console` | cvars, console, dot paths and inspector, and the barrier they record for | |
| `MC_Engine` | the frame loop, a rollback driver or a developer's tools, one at a time | `EngineFrame`, `Rollback`, `Console` |
| `LiveInput` | `RingBuffer<T>` with its wrapping cursors, the raw events it holds, the action map and the live producer | |
| `LiveInput_proof` | theorems: what the ring holds and the fold knows, who has an axis, what the edges tell; what the script's frames say | `LiveInput`, `ScriptInput` |
| `ScriptInput` | the scripted producer and its timeline | |
| `MC_Input` | either producer in one state space | `LiveInput`, `ScriptInput` |
| `ByteStack` | the abstract promise of the registered arenas: stacks of bytes that are cut off and restored | |
| `ArenaRegistry` | virtual-memory arenas, their registry and one snapshot, byte by byte | instance of `ByteStack` |
| `ArenaRegistry_proof` | theorems: the arenas' pages, `ByteStack` implemented, the guard's verdict; the handle tables; map, sorted map, radix sort | `ArenaRegistry`, `ArenaGuard`, `Containers` |
| `ArenaGuard` | the dev guard over the arenas' extents | |
| `MemPool` | the heap given to vendored libraries | |
| `ScriptVm` | a script VM: `script.h`'s entry points and the vendored pool they draw on | |
| `Memory_proof` | theorems: the heap, a script VM | `MemPool`, `ScriptVm` |
| `MC_Memory` | the arenas, the guard, the heap or a VM at a time, in one state space | `ArenaRegistry`, `ArenaGuard`, `MemPool`, `ScriptVm` |
| `Schedule` | registration and order of the systems | |
| `Containers` | `map.h` and `sorted.h` as values, and a registry kept in both; the radix sort and its two buffers | `HandleTables` |
| `HandleTables` | the headless platform's tables of threads, semaphores and mutexes | |
| `FixedPoint` | the fixed-point arithmetic, trigonometry and draws, and the scripts' `fx` table | |
| `Reflect` | rows on the wire, their differences, the protocol's structs, and components that scripts declare | |
| `ScriptSandbox` | `string.format`, `tostring` and `sortedpairs` as the sandbox replaces them | |
| `MC_Algorithms` | the last six or the shuffle, one at a time | `JobsShuffle`, `Schedule`, `HandleTables`, instances of the others |
| `AtomicReplace` | the abstract promise of `os_write_atomic`: one version after another | |
| `AtomicFile` | `os_write_atomic`, its system calls, and what can stop it | instance of `AtomicReplace` |
| `Storage_proof` | theorems: no tmp file survives, `AtomicReplace` implemented; textures; the log store and the segments made from it; loads of saves | `AtomicFile`, `Assets`, `LogStore`, `SaveFile` |
| `SaveFile` | `save_write` and `save_read` with the encoders of rows and columns | |
| `Archive` | varints, the column of a packet and the archive segment, written and read | |
| `NetCodec` | sessions and other writers, whose output the codecs get | `Archive` |
| `LogStore` | the store of sequenced records and the log array made from it | `Archive` |
| `SlotRing` | a slot's ring of frames, with its theorem | |
| `DataTables` | data scripts compiled to rows, and what finds a row again | |
| `Assets` | the texture registry over a device that may refuse | |
| `MC_Storage` | one of seven state machines at a time | `LogStore`, `AtomicFile`, `Assets`, `SaveFile`, instances of the others |
| `MC_JobsPool`, `MC_EcsWorld` | instances for TLC; the last divides one state space by a variable `focus` into three uses of a world, each small where the others are large | |

`Bug_...` operators are what a plausible mistake would have made of the
definition below them. Nothing uses them; each shows, put in that definition's
place, that the property it is listed with in `PROJECT.json` can fail.

### 2.1 `JobsPool`

Participant 0 is the thread that owns the pool, 1 .. MaxWorkers its workers.
`pc[p]` names the statement participant p is about to execute. One action is one
access to a shared atomic or one semaphore operation, with the plain code around
it; plain writes of `job` are a single action because what is claimed is exactly
that nobody looks meanwhile (`QuietOutsideJob`). Variables have the names of the
fields of `Jobs`; `epoch`, `next_chunk` and `runs` are modular or counted as in
the source.

| code | actions |
|---|---|
| `jobs_init` | `JobsInit`, `SemCreated`, `SemRefused`, `ThreadCreated`, `ThreadRefused`, then `StopPost`, `Join`, `InitFailed` for the failure path |
| `jobs_shutdown` | `JobsShutdown`, `StopPost`, `Join`, `ShutDown` |
| `parallel_levels` | `ParallelLevels`, `LevelsDone`, around one `parallel_for` per level |
| `parallel_for`, inline | `EmptyLevel`, `EnterJob`, `InlineStart`, `InlineRun`, `Return` |
| `parallel_for`, pooled | `EnterJob`, `WriteJob`, `ResetTickets`, `ArmBarrier`, `PublishEpoch`, `PostWake`, then the claim loop, `RetireMain`, `AwaitDone`, `Return` |
| `jobs_claim_loop` | `Snapshot`, `Claim`, `RunChunk`, `RetireWorker`, `SignalDone` |
| `jobs_worker_main` | `Wake`, `CheckShutdown`, `LoadEpoch` |
| a chunk that calls `parallel_for` | `NestedCall` |

Semaphores are counters, creation may be refused, and `wait` blocks while the
count is zero: all that `src/` relies on. Atomics are loaded with the value last
stored; what that load lets a thread see of ordinary memory is `JobsVisibility`.

`ParallelFor` is implemented by `JobsPool` with `busy` mapped to `in_job = 1`
and the abstract `runs` to the history variable of the same name
(`KeepsPromise`).

`JobsVisibility` runs the same actions beside the happens-before relation of their
accesses. `knows[p]` is which kinds of accesses participant p is sure to see up to
the latest, `carries[x]` what an acquire load of word x adds to it. A release store
replaces what a word carries, an ACQ_REL operation adds to it (a release sequence),
a plain access removes its kind from all who do not make it. `ThreadApi`'s create and
join order the threads. Its semaphores are given no order although
`docs/PLATFORM.md:261` promises one: `jobs.cpp:308-315`, whose comment is older than
that promise, adds a load so as not to need it, and `Visible` holds without. One
thing the promise is needed for: a worker that is woken must load the epoch that was
stored before its post, and main's load after the wait the zero; with an older value
the worker would park and the assertion `p == 0` fail.

### 2.2 `EcsWorld`

`gen`, `live`, `free`, `rows`, `sparse` and `comp_count` are the registered
arenas; the four counts beside them (`slots.count`, `live_count`, `quarantined`,
`free_list.count`) and the window (`pending_fresh`, `reserved_free`,
`window_popped`, `chunks`) are not, as in the source. The verbs append records
to the chunk of the running system. `apply_commands` is `ApplyBegin` (pop what
was reserved, take the chunks in order), one action per record, `ApplyEnd`. From
the last system that is the phase barrier, from another one a `world_flush`.
`Save` and `Restore` are a snapshot's effect on this module: the arenas come
back and `world_post_restore` derives the counts from their bytes. Stops of the
process are values of `pc`. `issued`, `realized` and `want` are history.

### 2.3 `EngineTick`, `EngineFrame`, `Rollback`, `Console`

The systems of a game are not in the repository; in their place `memory` keeps,
tick by tick, all that a deterministic system could have read (the live frames
and, if `ReadsEvents`, last tick's events). Two worlds with equal memories would
be equal whatever the systems do, and different memories would tell some game
apart. `EngineTickOnce` does what `engine_tick_once` does after the phases, in
its order: record, swap events, copy the previous pose, count the tick.

`EngineFrame` divides a frame as the code does: `BeginFrame` (clock, clamp,
pump), the loop (`TickLive`, `TickReplay`, `Wait`, `CaughtUp`), `Render` (cap,
alpha). `Replay` saves the rows and starts a fresh engine on them.

`Rollback` holds the ring of `foundation/snapshot.cpp` as a value and is the
driver that `tests/core/loop.test.cpp` writes by hand: tick and snapshot, find,
restore, tick again with other inputs. `TickAndOverflow` is
a dev build's tick whose snapshot outgrew its slot.

`Console` has one action per way in: `Exec` (`console_exec`: tokenize, find the
command, parse, set or seal, answer, remember), `SetTyped` (the C++ setters),
`Resolve` and `SetField` (`dotpath_*`), `Select` and `Edit` (the inspector),
`Register` for cvars and commands, and `Barrier`, which applies the sealed
commands as `apply_commands` does. `desk` says what a behaviour is about, so that
registration, reading and printing of numbers, tokenizing, typing and editing are
small state spaces beside each other. Numbers keep their digits: sign, integer
digits and fraction digits are what `ParseDecimal`, `ParseFloat` and `Decimal`
work on, at widths where they overflow. Of a float the module keeps a multiple of
a power of two. What the code does and a reader may not expect:

* `parse_decimal_i64` gathers the magnitude modulo 2^64 (`cvar.cpp:208-211`), so
  that 2^64 is taken for 0; `TypedIsMeant` and `RepliesTrue` except such numbers.
* The SIM cvars are in no snapshotted arena; only the session's hash knows them.
* `dotpath_resolve` is called pure, but it interns the name it looks for.
* An inspector's edit is recorded in the External chunk and stops the process at
  the barrier if its entity is destroyed before it in the same window; writing an
  element of an array through a path is a `TL_CHECK` too (`fatal`: "stale edit", "array").

### 2.4 `LiveInput`, `ScriptInput`

The loop's pump pushes raw events into a ring that overwrites its oldest (the
policy `loop.cpp:21` gives it, and the one modelled);
`live_produce` drains it, leaves out what ImGui wants, folds the rest into
device state (`FoldEvent`) and resolves bindings into a frame (`Value`): chords,
SOCD, dead zones, edges against the frame before. What ImGui wants is a
parameter of `LiveProduce`: the library decides it anew in every frame. History
variables say what the player really holds (`held`) and in which order it was
pressed (`before`), what a reader of edges alone believes (`seen`), what the ring should hold
(`arrived`), and of which controls the fold cannot know (`lost`: their last
event was overwritten or taken). Properties of a frame quantify over what a
produce would make of any reachable state, not only over frames already made.

`ScriptInput` is `script_produce`: a sorted timeline, asked for tick after tick
with gaps; holds and sets stay, pulses are released by the next call.

### 2.5 `ArenaRegistry`, `ArenaGuard`, `MemPool`, `ScriptVm`

`ArenaRegistry` has the fields of `VMemArena` and the bytes themselves. `Push`
is `arena_push` with its commit by granules, its fatal overrun of the reserve and
its zeroing of what was dirty; `ArenaResetTo` and `ArenaDecommitAbove` cut;
`RegistrySnapshot` packs the arenas that have `ARENA_SNAPSHOT` into a blob and
refuses one that does not fit; `RegistryRestore` checks the fingerprint, commits
and copies. `Rejoin` is another process with empty arenas and the snapshot it was
handed, perhaps of a build that registers its arenas in another order. `Write` is
the owner of a block. All of it implements `ByteStack` (`PureFunctionOfState`),
with an arena's contents mapped to the bytes below its mark and the saved image
to the segments of the blob; that the slack above the mark is dirty, which pages
are committed and where a segment lies in the blob are not visible there.

`ArenaGuard` keeps only extents: `Moves` is anything that moves one, the four
guard calls open and close the tick and its windows. A history variable adds up
the movement inside windows. Windows open only within a tick, as in the loop.

`MemPool` has one action per entry point. Addresses are units of 16 bytes, counted
from a granule boundary, with the arena's base half a granule in: `mmap` aligns to
pages, and a block's page header is found by rounding an address down. `blocks`
is what the callers hold; `Alloc`, `Free`, `ReallocInPlace` and `ReallocMoves`
add, remove and retitle them. The header words are fields of the records.

`ScriptVm` has an action per function of `script.h`: `Create` and the step it may
fail at, `Destroy`, `Seal`, `Compile`, `RunSource`, `Eval`, `TableGet`,
`TableNext`, `Unref`, `TickBegin`, `TickEnd`. A script is the safepoints it
passes, the table it writes and how it ends (`Scripts`). What a call does to the
Lua stack is counted along its path (`LoadNet`, `PcallNet`, `NextStack`), the
registry is lua_ref's array with its free list, and the compile pool is kept as
bytes carved and bytes live, with the window `vendor_new.cpp` measures. History:
`held` (tables a caller was handed), `lost` (tables pinned for a caller that was
never told) and `tick`. Three things the model follows that the documents put
otherwise or not at all:

* `script_table_next` pins a table found as the value of a key it then refuses,
  and nobody is told its reference (`lost`; `PinnedIsHeld` names it).
* `docs/LUAU-LAYER.md:321` has the budget error "at 0"; the code raises it at the
  safepoint after the budget is used up, the (budget + 1)th.
* Once tripped, the interrupt does not raise again in that tick: a script that
  catches the error with `pcall` goes on (`BudgetInv`).

### 2.6 `Schedule`, `Containers`, `HandleTables`, `FixedPoint`, `Reflect`, `ScriptSandbox`

`Schedule` registers a program of descriptors (`ScheduleRegister`), counts the
edges of every pair, which either end may have asked for (`ResolveEdges`), and
places systems phase by phase (`Emit`, `EndPhase`); a label given twice, unknown,
or of another phase, a full table and a cycle are fatal. The reference is the set
of all orders of a phase (`Orders`).

`Containers` has the operations of `map.h` and `sorted.h` as operators on values
with the fields of the structs (slots with their bytes, two parallel arrays), and puts and removes under
every hash function of a few keys, with a map that may grow and one that may not.
Its history `since` is the order in which the surviving keys were put in, but that
a rehash reorders them by slot: `DeletionsLeaveNoTrace` says that the table is
the one those puts alone would have made. It is thus not a function of the
contents alone, as `map.h` puts it at `map_remove`, but of their insertions, as
its header does.

The same module has the radix sort (`SortInit`, `SortNext`): the caller's buffer and the
scratch one, and which of them holds the entries; a pass that would move nothing is left
out, as in the source. `ContainersInv` is what is promised of both, and of the handles.

`HandleTables` has the creating and destroying verbs of `thread.cpp` and the check every
other verb makes of its handle (`Reaches`); `open` is what exists at the operating system.
Two things the code does and the model with it: each create takes a piece of the arena
that is never given back (`pushed`), so that creating for ever ends the process, and a
generation of four bits comes round, so that a handle that outlives fifteen lives of its
slot finds a stranger (`HandlesTell` says exactly that).

`FixedPoint` has the operators of `fx.h`, `det_math.h` and `rng.h` at a width of
`W` with intermediates of `2 * W`, and an action per entry of the scripts' `fx`
table: the arguments, the checks, and what the script is given, an error, or an
assertion ("died", which `NoScriptKillsTheProcess` forbids). The reference is
arithmetic on integers without a width (`Rounds`). Tables of coefficients are
those of the source at the model's precision.

`Reflect` has the structs of `wire.h` field by field, with offsets and pads, and
what reads and writes a row of any such table. `Cut` and `Changed` are packets
that arrive short or with a byte altered. `AddField`, `RegisterComponent`,
`RegisterEvent` and `Seal` are a script that declares its own structs; the
reference is the layout a C++ compiler gives (`TwinOfC`). The default row of a
component is no input of the hash its table gives (`HashInput`): two builds whose
scripts differ in a default only have one fingerprint. The registrations themselves
(`WorldInit`, `WorldRegisterComponent`, `WorldRegisterEvent` and the scripts'
doors) add arenas to the registry, whose checks are fatal: `NeverFatal` says that a
script's declaration that the doors accept never meets one.

`ScriptSandbox` has the check that `string.format` is given before the library
sees it (`Conversions`) and the library's own reading (`StockConversions`), the
sandbox's `tostring`, and `sortedpairs` as a walk whose table the loop's body may
write between two steps; its merge sort is the code's.

### 2.7 `AtomicFile`, `SaveFile`, `Archive`, `NetCodec`, `LogStore`, `SlotRing`, `DataTables`, `Assets`

`AtomicFile` has an action per system call of the POSIX branch: `Begin` (or the
early return for a long name), `Open`, `Write` (any part of what is left),
`Fsync`, `Rename`, `DirSync`; `OpenFails` and `StepFails` are the failing paths.
`KillProc` stops a process before any of its calls (`maybe_kill` names three of
these places) and `PowerLoss` all of them. Of the operating system the module takes: a reader sees all
that was written; a power loss leaves the blocks that were synced and any of the
others; rename is atomic and the directory's changes become safe in order.
Mapped to `AtomicReplace`, a file is itself only when all its blocks are safe
(`Content`), so a rename that could be followed by a loss of data is not a step
of it. Two threads of one process writing one path share a tmp name, which the
header excludes; the module gives each process one call at a time. The code
ignores whether the directory's sync worked: a call may answer `ERR_OK` and a
power loss still bring an older version back, whole. `AtomicReplace` allows it.

`SaveFile` is one running build with rows per listed arena, the commands recorded
and the file. `Save`, `Load` and `Flush` (`world_flush`) are the code's; `Edit`,
`Damage` and `Restart`, perhaps as another build, are the world's. `world_flush` is
`apply_commands`, of which a save sees the rows that `CMD_ADD` puts in (`Flushed`);
its check that the entity is alive belongs to `EcsWorld`. Two things the
code does and the model with it: an arena the loader lists and the file lacks stays
as it is, and when two stored fields resolve to one live field the later wins.

`Archive` is operators: `EncodeColumn` / `DecodeColumn`,
`EncodeSegment` / `DecodeSegment`, `PutUvarint` / `GetUvarint`, with widths as
constants so that 2-bit integers wrap where 32-bit ones do. The decoders have the
code's checks in the code's order of state; headers and checksums are left out,
and truncation belongs to the byte reader. `NetCodec` gives them a session that is
recorded tick by tick, and another writer's bytes, frames, streams and records,
one at a time until the decoder refuses.

`LogStore` is `log_store_*`; `sequenced` is the sequencer's decision, whose
frontier only grows (`archive.cpp:286-288`): without it the store would take
records of one origin that the encoder stops the process on. `rest` is what else a
record holds: format version, padding, the slot it is about, kind. `log_store_add`
copies it unlooked at, and an origin (of `Ids`) may be no slot, so a malformed record
is stored like another. `SegmentLog` reads
the store tick by tick; `EncoderTakes` and `DecoderTakes` are the checks on both
sides (`WellFormed` those of a record's own fields). The encoder stops the process
on a store's records just when one is malformed, the path `archive.cpp:268-272`
names, or when more than `CHECKPOINT_HOT_TICKS` ticks are asked for; never for
their order, their numbers or how many there are. Whoever fills the store has to see to
the fields; nothing in it does. The comment at `net_internal.h:114-125`, which says the bound of a tick's
records is the store's alone, is behind the code: `archive.cpp:294-303` and
`702-707` have it too. `SlotRing` places frames by tick, late and repeatedly.

`DataTables` puts scripts together row by row (`Source`, `Define`, `Row`) and
compiles them (`Compile`) in the code's order: per schema, per script, per row, per
field, the first fault deciding. A value is what `script_table_get` makes of it.
A field of kind u64 takes a negative number and stores its bits, although
`docs/ASSETS-AND-DATA.md` 8.3 asks integer kinds for their range; `DataInv` except
that, it demands the values as written. On an error `data_compile` leaves
what it pushed in `out->arena`, against `data_tables.h:147-151`; it is not
visible in the answer. `data_tables.h` has `data_row` answer null past the end
where the code is fatal (`data_tables.cpp:19`).

`Assets` is the registry (`Insert`, `Grant`, `LoadAgain`, `Release`) over the
headless device (`Create`, `Destroy`): a slot map with holders counted, an index by
name, a device of as many textures. Each load can be refused for an empty name or
its size, by the
registry, by the device or at the upload, with what was made until then unmade
in the code's order. `Resize` is the renderer's target, which takes a texture of
the same device. Buffers of streaming textures are never given back to the arena
(`headless_state.h`, against its comment at `streaming_buf`), so that creating
them for ever ends the process; `exhausted` is that end.

## 3. Runs

Twelve runs; each cfg begins with what it is about. A property named `...Inv` is the
conjunction of the component's named invariants, its types among them. `PoolInv` is that of
the pool's barrier; of the console, `ConsoleInv` has what is proved below and `TextInv` what
is said of text and numbers. "Distinct states" are those
of a complete search (a violation stops earlier).

| run | instance | shows | states |
|---|---|---|---|
| `jobs_pool` | 2 workers, 0/1/2 chunks, 2 levels, 2 jobs, with and without shuffle | barrier, tickets, tokens, nesting, leaks, `IInv`, `ParallelFor` implemented, and what each thread did visible where it is read | 830,832 |
| `jobs_live` | 1 worker, 1/3 chunks, 3 jobs, fair threads | every call returns | 41,589 |
| `ecs` | 2 slots, 3 generations, 2 systems, a component of two values; three uses: "slots" (3 records, 5 spawns), "columns" (2, 3), "rollback" (2, 3, save and restore anywhere) | slots partitioned, reservations settle, handles new, which destroys stop the process; rows packed, indexed and holding the last write; restored counts are the saved ones | 1,403,603 |
| `ecs_restore_max` | 1 slot, 2 generations | violation, finding 1 | |
| `engine` | three uses. Frames: 2 peers, one live; tick of 2 units, clamp at 5, cap of 2 steps, frames of 0, 1, 3 or 6. Rollback: ring of 3, 4 ticks, 2 rollbacks, overflows anywhere. Tools: five cvars of all kinds and one refused, integers of 4 and 6 bits, lines of five characters, two commands queued, two entity slots of two generations | never ahead, replay equals recording, events one tick later, presented time monotonic; re-ticked world, found snapshots, horizon; SIM cvars move at barriers only, numbers mean what was typed, paths and history exact, nothing typed is fatal | 232,788 |
| `engine_prev` | 1 peer | violation, finding 2 | |
| `rollback_events` | a rollback of a world that reads events | violation, finding 3 | |
| `cvar_sign` | the instance of `engine` | violation, finding 4 | |
| `input` | a ring of 2 with cursors mod 4; four binding tables (a chord in two contexts, a mouse beside a pad button, opposed keys with either policy, two sticks on one action); or a timeline of 3 events over 4 ticks and 2 actions | the ring keeps the newest; device state is real; frames are what is held; last and first press; edges; scripted frames | 137,540 |
| `memory` | four uses: arenas of four and two bytes in granules of two, a blob of five; extents of 0 .. 2 of two arenas, one of which may grow at barriers; a heap of eight granules with classes of 1, 2, 4 and 8 units, sizes 0, 2, 7, 8, 9 and 16, a budget of 40, three live blocks; a VM of each kind with a budget of one safepoint, two tables, three registry slots, a compile pool of three | `ByteStack` implemented, clean above the high water; the guard's verdicts; headers found, blocks apart, books balanced, never fatal; the VM's stack, registry, budget, seal and pool | 159,259 |
| `algorithms` | eight uses: every (n, grain) of a 4-bit u32 with every round function of a 1-bit half, and of a 2-bit half the same one in each round; every graph of four systems, and of three with a `before` beside it in one phase and in two; five keys under the hash functions into {0, 1, 7}, tables of two to eight slots; up to four entries with keys of three binary digits; rows of six bits, all pairs of operands; every struct of the protocol cut at each length and changed at each byte, scripts' structs of up to three fields of fifteen; formats of up to five characters, walks over up to four keys; tables of two handles with two generations, five creates | items covered once; the schedule's order; lookups, layouts and sorted order, a stable sort; results rounded once and no assertion reached; a row's one form and layouts as in C++; no address shown, walks sorted; handles find their primitive | 407,589 |
| `storage` | seven uses: two processes, three calls, contents of two blocks; seven builds (a field added, renamed, of another kind; an arena dropped, added, of another kind) and five operations; two slots, two actions, 2-bit integers and positions, sessions of three frames, segments of three frames one stream of which is another writer's (three records, two escapes), columns of two frames, all varints of up to three bytes; three records of one slot, one of another, one of an origin that is no slot, one field of one of them right or wrong, over two ticks, room for four and for two per tick, windows of 0 .. 4 ticks; a ring of two, ticks 0 .. 5, three puts; two tables, two scripts, three rows of fourteen kinds, two names of one hash; two textures of two generations, two names, three streaming buffers, two holders | a file replaced at once; loads whole or refused; sessions come back, one encoding; records once and in order, and the archive takes a window just when it is not too long and they are well-formed; a tick that was displaced is absent; data as written or refused whole; textures neither lost nor shared | 529,039 |


Why the bounds are enough. Two workers are the fewest with which one can retire
while another has not started, steal a token, or overshoot the counter twice;
two jobs the fewest for a leftover of one to meet the next; three jobs with one
worker let an inline job's epoch pass between two pooled ones. Two slots let a
reservation and a push meet on the free list, and a swap-remove move another
entity's row. Three generations put retirement within reach of five spawns and
of three; and three spawns with a restore reach a slot destroyed at
`GEN_MAX - 1` (finding 1, which `RestoreIsFaithfulBelowGenMax` excepts). With a
fourth spawn after such a restore `SlotsPartitioned` itself breaks: that is the
finding again, so the "rollback" use stops at three.
In `engine` a frame of 6 is clamped, 5 units overflow the cap of
two ticks of 2, and 1 leaves half a tick. A ring of 3 with 4 ticks wraps. A
ring of two raw events overflows with the third between two ticks, and its
cursors wrap at four. With four systems an edge can force a later one before two
earlier ones that do not wait. Keys that hash to 0, 1 and 7 collide, overlap and wrap in
tables of two, four and eight slots. An arena of two granules can be
half committed, cut, dirtied and grown again; a blob of five holds all but the
fullest pair of arenas. The heap's sizes are zero, a small class, the largest
size of a class with its header, the first beyond it, and the first beyond a
granule; the budget refuses what the reserve could still hold; three live blocks
are one before, in and after a hole. A VM with a budget of one safepoint trips
between two; three registry slots hold a table, a walk's value and a free one
between them; a compile pool one carve short refuses the second compile. Rows of six
bits saturate, overflow and round at both signs for every pair of operands, and
intermediates of twelve hold the products as 64 do those of 32. A struct of three fields has a
gap before the second, one before the third and one at the end. Five characters
are a conversion with a flag, a width and a precision, or two conversions. Four
keys take two rounds of the merge sort. Three data rows put two in one table, with
the name of a row in another script. Two textures of two generations retire a
slot; two holders and two names make sharing visible. Two generations of two slots bring a handle's generation round within
five creates, in a table that fills. Six-bit integers of a cvar
wrap where a typed number has two digits, and floats with five binary places
print one decimal inexactly.
With three calls two processes race for the path while a third content
replaces either's, and a killed process's tmp file is met by its next call. Five
operations are edit, save, restart, load, flush. A session of three frames has a
velocity that changes twice and an edge of every kind; three records of a stream
are a first, one that repeats or wraps, and one left over.
`U32 = 8` and `EpochMod = 4` let nothing wrap but the shuffle's arithmetic,
which has its own run at a width of 16. Bounds are the constants commented
`bound:` in the modules.

Deadlock is checked where the program may go on for ever (`jobs_*`,
`engine_prev`). The others stop at their bounds or at a fatal
stop.

Fairness. `jobs_live` assumes weak fairness of main and of every worker, each as
one process: the operating system runs every thread that can run. It assumes
nothing of the client between calls, nor that a refused semaphore or thread is
ever granted.

## 4. Findings

1. `ecs_restore_max`: `world_post_restore` counts every dead slot at `GEN_MAX`
   as quarantined, but a slot destroyed at `GEN_MAX - 1` is on the free list
   with generation `GEN_MAX` (`commands.cpp:86` says so itself). The restored
   free list is one short. In a longer run of the same model a second snapshot
   and restore put a *live* slot back on the free list.
2. `engine_prev`: `interp_pingpong` runs after the systems of the tick, so that
   at every frame the previous pose equals the current one and there is nothing
   to interpolate.
3. `rollback_events`: a restore clears both event halves, so the first tick
   after it cannot read the events the first run read. `TODO.md` (E-5) has the
   question open.

4. `cvar_sign`: `fmt_fixed_f32` prints the sign of a float with its integer part,
   and a value between -1 and 0, whose integer part is 0, is printed without it:
   `set x -0.5` stores -0.5 and answers "0.5".

Met while modelling, and excluded from the properties that would break:

* A job of 2^32 - 1 chunks wraps the ticket counter while the participants
  overshoot it; `NoTicketWrap` (`JobsPool`) excludes it.
* A slot reissued at `GEN_MAX`, realized and destroyed in one window looks like
  a pending spawn to a second destroy, which then stops the process:
  `OnlyRecentDestroyIsFatal` says exactly that.
* After a rollback, re-ticking pushes snapshots of the same ticks and evicts
  older ones still in the horizon: `HorizonIsHeldAtFirst` stops at the first.
* When a re-ticked snapshot does not fit, `ring_find` returns the abandoned
  timeline's of that tick: `FoundSnapshotIsCurrent` excepts refused ticks.
* A release that ImGui takes, or that the ring overwrites, leaves the fold with
  a key that is down until the key moves again: `FoldedStateIsReal` and
  `FrameIsWhatIsHeld` (parts of `DeviceInv`) except such controls (`lost`). The documents reserve
  releasing what a switch blocked (`docs/INPUT.md` section 3) for later.
* With SOCD_FIRST_WINS, a winner released and pressed again between two ticks
  keeps the axis although the other key was first: `FirstPressKeeps` asks only
  that nothing was heard of the winner.
* A scripted press followed by another event of its action that the same call
  sees is released one call late: `FrameFollowsScript` excepts such an event
  (`Overtaken`).
* What sections 2.3, 2.5 and 2.7 list of the console, the VM, data tables and assets.

## 5. Proofs

Fifty-one theorems in eight modules; each holds for every value of the constants
that satisfies the named assumptions of the modules, which the runs evaluate.

**The pool's barrier** (`JobsPool_proof`), for any number of workers, any chunk
counts and any bounds on jobs and levels: `BarrierInvariant`, `TypeCorrect`,
`QuietBetweenJobs`, `DoneTokenUsed`, `NoPostIsStale`, `NestingCaught` and
`NothingLeaks`; `PoolIsSafe` is the last five together (`PoolInv`).

None of the properties is inductive: that a `done` token is for this job depends
on how many participants are unretired, that on where each worker is, that on
whether its wake token was posted and which epoch it has seen. `BarrierInv`
(`JobsPool`) says all of it, by the stretch of code main is in:

* `PoolShape`: which objects exist while they are made and torn down;
* `EpochOrder`: no worker has seen a later epoch than the published one, and the
  client's bound leaves room for the levels to come;
* `WorkerShape`: per worker, its token and its label in terms of main's;
* `JobCopies`: whoever is past `Snapshot` works on the present call;
* `Barrier`: `pending` is the number of participants that have not retired, and
  the `done` token, or the thread about to post it, exists just when main has
  retired and everyone else has.

The proof has a lemma per action (`...Safe`: the action preserves `BarrierInv`),
with a step per conjunct the action disturbs; `NothingPending`, `CopiesAtRest`,
`PoolFrame`, `EpochFrame` and `ControlFrame` carry the conjuncts that actions
outside a job, or inside the claim loop, leave alone; `UnretiredFinite` and the
library's facts about cardinality count participants. `NextSafe` collects them.

**The pool's chunks** (`JobsPool_proof`): `Invariant` (the whole of `IInv`),
`EveryChunkRunsOnce` and `PoolKeepsPromise`, the refinement of `ParallelFor`.
`Progress`, inductive beside `BarrierInv`, counts: a ticket below `next_chunk` is
taken and its chunk was run or is being run by the one thread that holds it; the
counter is past the chunks by no more than the participants that found nothing.
`PermuteAssumption` makes different tickets different chunks. `NoTicketWrap`
(chunks and participants stay below 2^32 together) is what the last step of
`ClaimProgress` needs, and the code does not enforce it.

`WorkIsVisible`, of `JobsVisibility`, in the same module: `SeenInv` says that while
main is in a pooled call, `epoch` carries what main wrote, and whoever has retired has
left its work in `pending` or main has it already (`HandedOver`). Each retirement adds
to what `pending` carries, so that main gets all of it from the one that ends the
count, its own or the one it loads after the wait (`AllHandedOver`).

**The shuffle** (`JobsPool_proof`), for any key, number of items and grain:
`ShuffleCoversOnce` and `ItemsAreCoveredOnce`. A round of the network is undone by an
exclusive or, whatever its function (`RoundBack`), so four are a permutation of the words
(`RoundsPermute`). The walk from a word is a recursion, which has a solution
(`WalkExists`) in which a word that has reached a chunk stays there (`WalkStays`). Two
words whose walks end after the same number of steps in one chunk are one
(`WalksApart`); were one longer, it would have passed through a word beyond the chunks
where the other began (`WalkPasses`). Hence different tickets are different chunks
(`WalkPermutes`), and no item is in two chunks nor covered twice by one
(`ShuffleCoversOnce`). That every ticket gets a chunk, and so every item is covered, needs
the walk to end: one that does not meets no word twice, and there are not enough of them
(`WalksEnd`). This is the hypothesis of `ItemsAreCoveredOnce`: the words of the network are
no more than `WalkCap`. In the source this holds for up to 1024 chunks; beyond that the
code relies on the odds against so long a cycle outside the chunks, and stops the process
where they fail, which `ShuffleCoversOnce` allows.

**The world** (`EcsWorld_proof`), for any number of slots, generations (at least
two), components, values, systems and records: `EntitiesSound`, `DestroySound`,
`ColumnsSound`, `HandlesAreNew`, `RestoreSound`, and `WithoutRollback`, which states
the first four again for a world that is never restored. The others assume
`RestoresBelowGenMax`: no snapshot is restored whose free list has reached the last
generation. That is finding 1 (`ecs_restore_max`) and cannot be left out: such a
restore derives too small a `free_count`, and the slots no longer add up.

`SlotInv` strengthens `EntitiesInv` twice over. *Where a pending handle's slot is*
has two answers. While commands are recorded the pending handles are, exactly, the
top `reserved_free` places of the free list at their present generations and the
next `pending_fresh` slots at generation 1 (`Reserving`). While they are applied
each finds its slot as it was reserved, or beyond the table with every slot below
it pending too (`Settling`): records of several chunks need not allocate in the
order they reserved. `ApplyBegin` turns the first into the second (`FlattenSpawns`,
`FreshCount`). *Why no handle comes back*: every handle that was returned is pending
or `Past`, its slot allocated at its generation or a later one, and at its own
generation only while it is not on the free list. Free slots are of generation 2 at
least, so a reused slot is never taken for a fresh one. `CountsOK` keeps
`quarantined` the number of retired slots, all at the last generation, which is what
a restore counts (`RestoredCounts`). `ColumnOK` is one column; `AddedColumn`,
`RemovedColumn` (the last row moves into the hole) and `WrittenColumn` are about it
alone, and `ColumnInv` adds that rows are of live handles and that `comp_count` is
the number of components. `NextSlotInv` and `NextColumnInv` collect the actions.

**The order of the systems** (`EcsWorld_proof`), for any number of phases and any
descriptors: `OrderIsLeast`. `OrderInv` is by position: where a system stands tells its
phase (`InPhases`), the in-degree of each is the number of edges from those that are not
placed (`DegreesInv`, a cardinality, so that placing one subtracts just its edges:
`EdgesFromRest`), all that a placed one waits for stands before it (`EdgesKept`), and
nobody that could have stood there was registered earlier (`Greedy`). An order of the
phase that differs from the built one in a first place has there a system that was ready,
since it agrees before that, and so a later one (`SliceIsLeast`). When nobody is ready,
the first in any order of one that is not placed waits for one that is not placed either,
which then has to stand before it (`CycleHasNoOrder`). Hypothesis: `ScheduleAssumption`, that
there is a phase and descriptors name phases, which registration checks.

**The loop** (`Engine_proof`), for any frames, peers, frame times, clamp and
cap: `Invariant`, `ReplayIsDeterministic`, `EventsAreReadOnce`,
`NeverAheadOfTime`, `PresentedTimeIsMonotonic`. `WorldInv` says that the world's
memory, both event halves and the hash of each row are functions (`MemOf`,
`ReadAfter`) of the live frames recorded so far and of nothing else: not of how
many frames it took, of the clock or of what an absent peer's slot held. A replay
is fed rows of a recording that satisfies the same (`ReplayInv`), so its hashes
are the recorded ones (`SameFramesSameWorld`). `FrameInv` is the clock's half:
what was paid for and what is owed never exceed the time given (`NeverAhead`), and the
moment last presented is not after the one that would be presented now
(`Behind`), which the cap, the clamp and a waiting producer must each preserve.

**Rollbacks** (`Engine_proof`), for any frames and peers, any horizon of at least
one tick, refused snapshots and rollbacks anywhere: `Invariant`, `RingIsOfThePresent`
and `ReticksWithoutEvents`. Hypothesis: `Bounded`, that the horizon is a positive
natural and the bounds are naturals, which `MC_Engine` has evaluated of its values.
The ring is seen by age: `PushedAges` says that a push makes every slot one older and
loses just the oldest, so what `ring_find` gave for another tick it gives still
(`OldIsFound`), and what was pushed it gives first (`NewIsFound`), although slots of
abandoned timelines hold the same ticks. `Whole` says that a slot's world is of the
slot's tick, on whatever timeline; `FoundSnapshotIsCurrent` is inductive beside it,
because a restore cuts the world back to a prefix that earlier snapshots are prefixes
of (`PrefixOfPrefix`). `ByAge` holds before the first rollback alone and gives the
horizon. `FedByInputs` is the re-ticked world's invariant; it assumes that the systems
read no events, without which finding 3 (`rollback_events`) refutes it.

**The console, paths and the inspector** (`Engine_proof`), for any cvars, commands, names,
lines, widths and entities: `DoorsKeepTheirWord`. `ConsoleIInv` has a part per door.
*Tables*: the two orders of `cvar_register` and `console_register` are
sorted and name every entry once whatever order entries came in (`TableOK`, `CommandsOK`;
`PutInOrder`, `IndexedOrders`), for names because their order is total and transitive
(`LexTotal`, `LexTransitive`); a binary search in such an order is a cut between what is
before and what is not (`SearchFinds`, `LowerBoundCuts`), so that what is registered is found,
and what completes a prefix is a run of the order (`CompleteTells`). *Values*: a queued
`set` was accepted (`Sets`, `DispatchDoes`), and a barrier, which performs the queue as an
iteration, leaves each cvar at the last one queued for it (`CvarsPerformed`,
`EditsPerformed`); the SIM cvars change at no other place, and never in a lockstep session
(`WritesOK`). *History*: the ring keeps the newest lines (`HistoryGrows`). *Paths*: a
path that resolves names a row that is there just when it is read (`PathOK`).
Hypothesis: `ConsoleAssumption`, that the program's cvars have keys of their own, none is
a SIM float (both fatal when registered otherwise), names are sequences of
naturals, entity slots finitely many, and the history has a place.

**A slot's ring** (`SlotRing`), for any number of places, not a power of two alone:
`HeldIsLastPlacedAlways`. `LastAt` says of each place, whatever tick one asks it for,
that it holds what the latest put there left. Hypothesis: `Bounded`, as evaluated by
`MC_Storage`.

**The atomic write** (`Storage_proof`), for any processes, calls and lengths:
`Invariant`, `NoTmpFileSurvives` and `ReplacedAtOnceAlways`, the refinement of
`AtomicReplace`. `FlightInv`: a call in flight is open and its version and tmp file
are its own (`Owned`, `TmpNamed`, `Rested`), it is at a step only when the blocks
that step relies on are written and safe (`Synced`), and hence whatever the path
may name after a power loss has all its blocks safe (`OnDisk`). The promise has
one step that changes the path, and only `Rename` maps to it; a power loss maps
to the loss of a suffix of names. Hypothesis: `Bounds`, that the bounds are
naturals and contents are not empty.

**Textures** (`Storage_proof`), for any names, slots, generations (at least one), widths
and holders: `TexturesAreOwned`. `AssetsIInv` has the slot map's part, the device's and
what ties them. A slot that is not in use is on the free list, once, or has run through
its generations (`SlotsOK`); a handle let go by all is of an earlier generation than its
slot will be given out under (`Gone`), so that its next life is another handle
(`Inserted`, `Vacated`). On the device those textures are alive that have an owner and
no others (`DeviceOK`), which making and destroying one keep for one owner more or less
(`MadeFacts`, `DestroyedFacts`); no two records own the same (`Apart`), nor a record and
the renderer. Hypothesis: `AssetsAssumption`, that there is a generation and quantities
are naturals.

**The log store** (`Storage_proof`), for any number of origins, records, ticks and any room
per tick: `StoreFeedsTheArchive`. `StoredOnce` says that the array has one record for each
id that was not refused, at the tick the sequencer gave it. What a read of a tick gives is
then by origin and sequence number, and as many of them as fit (`ReadsInOrder`); the segment
made from it tick by tick has just those records (`SegmentIs`); and because the
sequencer's frontier grows, an origin's numbers grow over the ticks. So the encoder
takes the segment (`EncoderAccepts`), and the decoder after it (`DecoderAccepts`),
whenever the window has at most `CHECKPOINT_HOT_TICKS` ticks and its records are
well-formed; and only then: the encoder by definition, the decoder because a pass that
ends well took every record on its way (`DecoderRequires`). What their other fields hold
is any set `Rests`. Hypothesis: `StoreAssumption`, that the bounds are naturals and an
id is a pair of them.

**Saves** (`Storage_proof`), for any builds, arenas, fields, rows and damage:
`LoadIsWholeAlways`, an action property. `SaveIInv` says that an undamaged file is one that
`save_write` makes of some build (`DiskIsTheSave`, `GoodFile`); of such a file every block
decodes to the rows that were saved, as far as the reading build has their fields
(`BlockDecodes`), and the staged blocks are applied all or none (`AllApplied`). A damaged
one is refused before anything is applied. Hypothesis: `BuildsAssumption`, that a build
lists an arena once, which `save_write` asks of its caller and does not check, and a field
once.

**The arenas** (`ArenaRegistry_proof`), for any arenas in any order of
registration, any granule, alignments and blob: `ArenasCorrect` and
`PureFunctionOfStateAlways`, the refinement of `ByteStack`. `ArenaOK` is what each
operation on one arena keeps: the marks in order, whole granules, zeros above the
high-water mark; it is what makes "zero up to `high_water`" enough (`PushedOK`) and
what a decommit in the middle of dirty memory could break (`DecommittedOK`). A
restore keeps it only if the blob is laid out for it, hence `SnapshotOK`: a snapshot
that would be restored fits its blob and the arenas, in whichever process. Where
segments lie is a recursion over the registry (`Extents`). That it has one solution
(`ExtentsFacts`), grows (`ExtentsGrow`) and keeps segments apart (`SegmentsApart`)
is proved by `Least`: a set of naturals, here of counterexamples, has a least
element. `PackedFacts` then reads every byte back where it was put.

**The guard** (`ArenaRegistry_proof`), for any arenas: `GuardVerdictIsRight`.
`GuardInv` carries the baseline: outside a window an arena that may grow at barriers
is measured from where it began plus what windows moved it, inside a window from
where the window found it, every other arena from where the tick found it (`Baseline`).

**Handles** (`ArenaRegistry_proof`), for any number of slots, generations and creates:
`HandlesTellTheirPrimitive`. A slot's generation tells, modulo the generations, how many
primitives it has held (`SlotTold`), and a handle's which of them it was given for
(`GivenTold`); two lives of one generation are thus a multiple of `GenMax`
apart (`SameGen`), and a handle of the life before finds nothing. Hypothesis:
`TablesAssumption`, that there are a slot and a generation.

**The containers** (`ArenaRegistry_proof`): `RegistryIsExact`, for any integer keys, any
hash of them (all may collide), any values and any capacity asked for; hypothesis
`RegistryAssumption`, which says no more. The invariant (`Sound`) keeps, beside the
table, the place `w[n]` where the n-th surviving insertion lies (`Lies`): the places
differ, all else is empty, and *every place on the way from a key's home to where it
lies is taken by an earlier insertion*. From the last follows what `map_probe` finds
(`ProbeTells`), that the order of insertion tells all of the table (`OneTable`), and so
that a put, a rehash (`RefilledLies`) and a rewriting of a value keep it. The removal is
the hard part (`RemovedLies`), since what slides back need not be what was put next.
The table is unrolled from an empty place, which the load of three quarters leaves
(`Fullness`), so that no way wraps any more. There `Chain` says that every way is still taken by
earlier entries, but for the gap, and that no entry looked at beyond the gap has its home
at the gap or before it; `ChainSlides` and `ChainGoesOn` are the two cases of
`SlideStep`, and at the first empty place the gap lies on nobody's way (`ChainEnds`). The sorted map is a rising sequence of keys, in which
the binary search finds how many are less (`LowerBoundIs`). Sequences filled or filtered
by a recursion are read as an iteration of one step (`IterationExists`).

`RadixSortsStably`, for any radix, number of digits and length: after each pass, also
one left out, the buffer in use has the input's entries in the order of the digits so
far and of their places where these agree (`SortIInv`). A place told by the prefix sums
is a rank in the order of digits and places; ranks grow with that order, hence they are
all different, hence each is someone's (`RanksTurn`). `ContainersAreExact` is both with
the handles.

**The heap** (`Memory_proof`), for any granule, header, classes, reserve, budget and
sizes: `HeapIsSound`. Hypothesis: `HeapAssumption`, that a class is a whole granule or
leaves room for the header in one, and that one of them is a granule, as the tables of
`mem_pool.cpp` are. `Good` has three parts. *Shape*: carves lie
one after the other from the base up, each block stands in the carve its address
rounds down to, at a multiple of its class, and a free block is on the list of its
class once and is nobody's. *Counts*: a page's live count is the number of blocks
held in it. *Sums*: the bytes carved and live are the sums over carves and blocks
(`RoomLedger`); a sum over a function changes with one place of it by the difference
there, which is proved of the community modules' fold as an iteration over subsets.
That rounding down finds the header is arithmetic on places (`StandsInside`).

**A script VM** (`Memory_proof`), for any kinds, interners, tables, registry room,
budget, pool and source lengths: `VmIsSound`. Hypothesis: `VmAssumption`, that
quantities are naturals and two names not used otherwise. `VmIInv` adds to `VmInv`:
the registry's free list names free slots, none twice (`RegistryOK`), without which
`lua_ref` could hand out a slot that is held; what is pinned is what callers were told
of and what was lost on the way, and nothing is both (`HoldersOK`); the window closes
with every call (`PoolInv`); and after the seal all that the VM's names reach is
read-only, its names being those of its kind and what a script defined (`SealInv`).
`RunKeeps` and `EvalKeeps` carry it through a script's own steps, whose net effect on
the stack is summed along each path (`CallFields`, `SourceFields`, `EvalFields`).

**Live input** (`LiveInput_proof`), for any binding tables, modifiers, deflections and
any capacity of the ring with any cursors' width that is a multiple of it:
`FoldIsTrue`, `DeviceIsRight`, `AxesFollowPolicy`, `EdgesAreEnough`. Hypothesis:
`MapAssumption`, what a binding table is. What a frame will be depends on events that
are still in the ring, of which the oldest may be overwritten before it is read and
some taken by ImGui. So `FoldsToTheTruth` says of *every* suffix of the ring and every
mask what folding it from the present device state would give: of the controls whose
last event is not among the lost, exactly those held; and of an axis the direction of
the key pressed last (`NewestTakes`), or, with first-wins, the one it already has
(`Keeps`). It is kept by a push, because a push folds one event onto each suffix, and
by a produce, because what remains is the empty suffix. `FrameIsOfAxis` and `Down` tie
the frame made last to the device state, and so edges to the levels a reader of edges
believes. The ring of `ring.h`, with cursors that wrap, is a queue (`RingHolds`).

**Scripted input** (`LiveInput_proof`), for any channels, values and timelines, asked for
at any ticks: `FrameIsTheScripts`. The loop over what is due is a recursion over the
timeline, so `RunExists` and `RunIs` give it its one solution and `RunFollows` what it
says, event by event: the last one on the channel decides, and the pulse is up when one of
them was a press (`RunSays`). `ChannelIs` says of a channel, by its last event alone and
by which call saw that one (`SeenAt`), what it is and whether a release is pending. A call
without news for the channel keeps that (`QuietChannel`), because the pending release
is what turns a press seen now into a press seen earlier; one with news makes it anew
(`BusyChannel`). Where a press was overtaken by an event of the same call the release
undoes the later event, and nothing is claimed of the channel again (`OvertakenStays`).
Hypothesis: `ScriptAssumption`, that the bounds are naturals and values integers.

Only model-checked:

* liveness, which is out of the prover's reach (`CallsReturn`);
* what compares a computation over a whole input with a reference: numerics (`NumericsInv`),
  reflection (`ReflectInv`), the sandbox's formats and its merge sort (`SandboxInv`), the
  wire's codecs (`CodecInv`), data scripts (`DataInv`), the text of the console (`TextInv`).
  They compute by recursion or by folds over data, about which the provers have no
  induction; some use bitwise operators besides. Where the data is a ring, a queue, an
  order, a table, a ledger's or an arena's, a least counterexample stands in for it above (`Least`);
* the four runs that expect a violation.

## 6. What is not modelled

* Weak memory beyond `JobsVisibility`: that an atomic is loaded with an older value
  than the last stored.
* In modelled components: singleton and cvar commands of `EcsWorld` (the cvar
  commands are in `Console`) and the budget of a command chunk; capacities of
  columns; overflow of an event half; the dense order and the snapping of
  interpolation pairs; the init-only doors of the engine; the bytes of a
  recording and the errors of reading one.
* In the live producer: the pointer's position, text and window events (which
  the fold ignores), and pads beyond the first.
* In the memory modules: the poison that dev builds write into scratch and cut
  arenas, and scratch itself; the flags and names of registered arenas beyond
  `ARENA_SNAPSHOT`; the contents of the heap's blocks.
* In saves: migrations, the header's seed, tick and name table, the strings a
  component may not have, and rows of entities that are not alive at the flush
  (a check of `EcsWorld`'s code stops the process).
* In the wire: headers, checksums, truncation of segments; the payload of a log record,
  which is copied.
* The Windows branch of `os_write_atomic`.
* In numerics: hashes, crc32, the generators' streams (a draw is any word), the
  tables' error against the real functions.
* In the script VM: Luau itself, beyond how its interface moves the stack, pins a
  table, calls the interrupt and lets a frozen table be written; the text of errors and
  logs.
* In assets: fonts, audio and clips, whose domains hold nothing yet; decoding.
* In the console: rendering and mouse; in reflection, strings and the inspector's
  widgets.
* Of the platform: all but the atomic write and the tables of threads, semaphores and
  mutexes.
* Not planned: rendering, vendored glue, loaders beyond
  images, and diagnostics. They hold no decision of the simulation, or are calls
  into vendored code and the operating system.


## 7. Plan

Done: every module of section 2, with proofs of `JobsPool`, `JobsVisibility`,
`JobsShuffle`, `EcsWorld`, `Schedule`, `EngineTick`, `EngineFrame`, `Rollback`, `Console`,
`LiveInput`, `ScriptInput`, `ArenaRegistry`, `ArenaGuard`, `HandleTables`, `Containers`, `MemPool`,
`ScriptVm`, `AtomicFile`, `SaveFile`, `LogStore`, `SlotRing` and `Assets`, and three
refinements (`ParallelFor`, `ByteStack`, `AtomicReplace`).

Left: the draw queue's order (`render/queue.cpp`) and the headless file table
(`platform/impl_headless/file.cpp`), which are stateful and simple; what the codecs, the
numerics and the console's text compute for every input.

------------------------------ MODULE SaveFile ------------------------------
(***************************************************************************)
(* Saving and loading (core/save.cpp, core/encoder.cpp).  A save holds one *)
(* block for each arena the saving build lists: a singleton row or an ECS  *)
(* column, each with the fields it was written with, so that a build with  *)
(* other fields can read it.  The file is replaced at once or not at all   *)
(* (AtomicFile).  A column's rows come back as recorded add commands.      *)
(***************************************************************************)
EXTENDS Integers, Sequences, SequencesExt, FiniteSetsExt

CONSTANTS
    Builds,     \* the builds that save and load: the arenas each lists and their fields
    Entities,
    Values,
    Default,    \* what a field the file does not hold gets
    MaxArenas,  \* MAX_ARENAS
    MaxSteps    \* bound on the operations of a behaviour

\* A singleton's descriptor says one row: the code stops the process on any other (RR-49).

Kinds == {"reflected", "ecs_column"}
Damages == {"none", "cut", "magic", "flip", "newer", "crowded"}

VARIABLES
    build,      \* the build that is running
    rows,       \* of each of its arenas: the rows, each an entity and its fields' values
    commands,   \* add commands recorded and not yet flushed
    disk,       \* the save file, <<>> when there is none
    err,        \* what the last save or load returned
    stopped,    \* a TL_CHECK fired
    saved,      \* history: the build and the rows of the save on the disk
    steps

save_vars == <<build, rows, commands, disk, err, stopped, saved, steps>>

\* find_arena_desc, find_aliases
Arenas(b) == {b.arenas[i].id : i \in DOMAIN b.arenas}
Desc(b, id) == b.arenas[CHOOSE i \in DOMAIN b.arenas :
                            b.arenas[i].id = id /\ \A j \in 1 .. i - 1 : b.arenas[j].id # id]
Fields(b) == DOMAIN b.kinds

\* save_write's caller lists an arena once (it is not checked), and a ComponentInfo's fields have
\* their kinds.
IsBuild(b) ==
    /\ b.arenas \in Seq(ToSet(b.arenas))
    /\ \A i \in DOMAIN b.arenas : b.arenas[i].kind \in Kinds
    /\ \A i, j \in DOMAIN b.arenas : b.arenas[i].id = b.arenas[j].id => i = j
    /\ b.fields \in Seq(Fields(b)) /\ Fields(b) = ToSet(b.fields) /\ "" \notin Fields(b)
ASSUME BuildsAssumption == \A b \in Builds : IsBuild(b)

Fresh(b) == [id \in Arenas(b) |->
                IF Desc(b, id).kind = "reflected"
                THEN <<[entity |-> 0, fields |-> [f \in Fields(b) |-> Default]]>> ELSE <<>>]

SaveInit ==
    /\ build \in Builds
    /\ rows = Fresh(build)
    /\ commands = <<>> /\ disk = <<>> /\ err = "none" /\ stopped = FALSE
    /\ saved = <<>> /\ steps = 0

Running == ~stopped /\ steps < MaxSteps /\ steps' = steps + 1

\* The game changes a row, or adds and removes one of a column.
Edit ==
    /\ Running
    /\ \E id \in Arenas(build) :
       \E v \in Values :
           \/ \E i \in DOMAIN rows[id], f \in Fields(build) :
                  rows' = [rows EXCEPT ![id][i].fields[f] = v]
           \/ /\ Desc(build, id).kind = "ecs_column"
              /\ Len(rows[id]) < Desc(build, id).max_rows
              /\ \E e \in Entities :
                     /\ \A i \in DOMAIN rows[id] : rows[id][i].entity # e
                     /\ rows' = [rows EXCEPT ![id] =
                                    Append(@, [entity |-> e,
                                               fields |-> [f \in Fields(build) |-> v]])]
           \/ /\ Desc(build, id).kind = "ecs_column"
              /\ \E i \in DOMAIN rows[id] : rows' = [rows EXCEPT ![id] = RemoveAt(@, i)]
    /\ UNCHANGED <<build, commands, disk, err, stopped, saved>>

\* encoder_write_rows and encoder_write_column: the fields, then each row's values in order.
Block(desc) ==
    [id |-> desc.id, kind |-> desc.kind, fields |-> build.fields, kinds |-> build.kinds,
     rows |-> [i \in DOMAIN rows[desc.id] |->
                  [entity |-> rows[desc.id][i].entity,
                   values |-> [n \in DOMAIN build.fields |->
                                  rows[desc.id][i].fields[build.fields[n]]]]]]

\* save_write: refused for too many arenas; else the whole file is written or the one before
\* it stays.
SaveRefused ==
    /\ Len(build.arenas) > MaxArenas
    /\ err' = "too many arenas"
    /\ UNCHANGED <<disk, saved>>
SaveWritten ==
    /\ Len(build.arenas) <= MaxArenas
    /\ disk' = <<[damage |-> "none",
                  blocks |-> [i \in DOMAIN build.arenas |-> Block(build.arenas[i])]]>>
    /\ saved' = <<[build |-> build, rows |-> rows]>>
    /\ err' = "ok"
SaveNotWritten == Len(build.arenas) <= MaxArenas /\ err' = "io" /\ UNCHANGED <<disk, saved>>
Save ==
    /\ Running
    /\ SaveRefused \/ SaveWritten \/ SaveNotWritten
    /\ UNCHANGED <<build, rows, commands, stopped>>

\* External: the file is cut short, overwritten, has a bit changed, or is of a newer build with
\* another format or with more arenas than this one can take.
Damage ==
    /\ Running /\ disk # <<>>
    /\ \E d \in Damages \ {"none"} : disk' = <<[disk[1] EXCEPT !.damage = d]>>
    /\ UNCHANGED <<build, rows, commands, err, stopped, saved>>

\* The game starts again, perhaps as another build.
Restart ==
    /\ Running
    /\ build' \in Builds
    /\ rows' = Fresh(build')
    /\ commands' = <<>> /\ err' = "none"
    /\ UNCHANGED <<disk, stopped, saved>>

\* The alias forgotten: a renamed field comes back as its default.
Bug_Resolve(name) == IF name \in Fields(build) THEN name ELSE ""

\* enc_resolve: the live field a stored one is read into, "" when there is none.
Resolve(name) ==
    LET wanted == IF name \in DOMAIN build.aliases THEN build.aliases[name] ELSE name
    IN IF wanted \in Fields(build) THEN wanted ELSE ""

\* encoder_read_rows: why a block is refused, and its rows over the defaults; when two stored
\* fields are read into the same one the later wins.
RowsError(block, max_rows) ==
    IF \E n \in DOMAIN block.fields :
           LET f == Resolve(block.fields[n])
           IN f # "" /\ build.kinds[f] # block.kinds[block.fields[n]]
    THEN "field kind"
    ELSE IF Len(block.rows) > max_rows THEN "overflow" ELSE "ok"
DecodedRows(block) ==
    [i \in DOMAIN block.rows |->
        [entity |-> block.rows[i].entity,
         fields |-> [f \in Fields(build) |->
            LET from == {n \in DOMAIN block.fields : Resolve(block.fields[n]) = f}
            IN IF from = {} THEN Default ELSE block.rows[i].values[Max(from)]]]]

\* The first check that refuses the file, in save_read's order.
BlockError(block) ==
    IF block.id \notin Arenas(build) THEN "arena missing"
    ELSE LET desc == Desc(build, block.id)
         IN IF block.kind # desc.kind THEN "kind mismatch"
            ELSE RowsError(block, desc.max_rows)
FileError ==
    IF disk = <<>> THEN "io"
    ELSE CASE disk[1].damage = "cut" -> "truncated"
           [] disk[1].damage = "magic" -> "bad magic"
           [] disk[1].damage = "flip" -> "crc mismatch"
           [] disk[1].damage = "newer" -> "version"
           [] disk[1].damage = "crowded" -> "too many arenas"
           [] OTHER -> LET blocks == disk[1].blocks
                           bad == {i \in DOMAIN blocks : BlockError(blocks[i]) # "ok"}
                       IN IF bad = {} THEN "ok" ELSE BlockError(blocks[Min(bad)])

\* Applying the decoded blocks in order: a singleton is overwritten, a column's rows are
\* recorded as adds.
ApplyBlock(s, block) ==
    LET decoded == DecodedRows(block)
    IN IF block.kind = "reflected"
       THEN [s EXCEPT !.rows[block.id] = decoded]
       ELSE [s EXCEPT !.commands =
                @ \o [i \in DOMAIN decoded |-> [id |-> block.id, row |-> decoded[i]]]]
Applied(blocks) ==
    LET after[n \in 0 .. Len(blocks)] ==
            IF n = 0 THEN [rows |-> rows, commands |-> commands]
            ELSE ApplyBlock(after[n - 1], blocks[n])
    IN after[Len(blocks)]

\* Each block applied as soon as it is decoded.
Bug_Load ==
    /\ Running
    /\ err' = FileError
    /\ LET good == IF disk = <<>> \/ FileError \in {"truncated", "bad magic", "crc mismatch",
                                                     "version", "too many arenas"}
                   THEN <<>>
                   ELSE SelectSeq(disk[1].blocks, LAMBDA b : BlockError(b) = "ok")
           end == Applied(good)
       IN rows' = end.rows /\ commands' = end.commands
    /\ UNCHANGED <<build, disk, stopped, saved>>

\* save_read: nothing is applied unless every block was decoded.
LoadSave ==
    /\ Running
    /\ err' = FileError
    /\ IF err' # "ok" THEN UNCHANGED <<rows, commands>>
       ELSE LET end == Applied(disk[1].blocks)
            IN rows' = end.rows /\ commands' = end.commands
    /\ UNCHANGED <<build, disk, stopped, saved>>

\* world_flush applies the adds in order, up to one whose component is there already: a check.
Flushed ==
    LET present(r, c) == \E i \in DOMAIN r[c.id] : r[c.id][i].entity = c.row.entity
        add(s, c) == IF s.stopped \/ present(s.rows, c) THEN [s EXCEPT !.stopped = TRUE]
                     ELSE [s EXCEPT !.rows[c.id] = Append(@, c.row)]
        after[n \in 0 .. Len(commands)] ==
            IF n = 0 THEN [rows |-> rows, stopped |-> FALSE] ELSE add(after[n - 1], commands[n])
    IN after[Len(commands)]
Flush ==
    /\ Running /\ commands # <<>>
    /\ rows' = Flushed.rows /\ stopped' = Flushed.stopped
    /\ commands' = <<>>
    /\ UNCHANGED <<build, disk, err, saved>>

SaveNext == Edit \/ Save \/ Damage \/ Restart \/ LoadSave \/ Flush

SaveSpec == SaveInit /\ [][SaveNext]_save_vars

-----------------------------------------------------------------------------
\* The fields of the saving build that this build has, under their own or their new name.
Sources(f) ==
    {g \in Fields(saved[1].build) :
        f = (IF g \in DOMAIN build.aliases THEN build.aliases[g] ELSE g)}
\* A row that came back is the saved one as far as both builds know its fields.
CameBack(row, old) ==
    /\ row.entity = old.entity
    /\ \A f \in Fields(build) :
           IF Sources(f) = {} THEN row.fields[f] = Default
           ELSE \E g \in Sources(f) :
                    /\ row.fields[f] = old.fields[g]
                    /\ build.kinds[f] = saved[1].build.kinds[g]
\* Of the rows given for an arena, all are the saved ones.
Restored(new, id) ==
    /\ Len(new) = Len(saved[1].rows[id])
    /\ \A i \in DOMAIN new : CameBack(new[i], saved[1].rows[id][i])
\* The adds recorded for a column follow one another and are its saved rows.
AddedBack(id) ==
    LET mine == {i \in Len(commands) + 1 .. Len(commands') : commands'[i].id = id}
        old == saved[1].rows[id]
    IN \E from \in Len(commands) .. Len(commands') :
           /\ mine = from + 1 .. from + Len(old)
           /\ \A i \in DOMAIN old : CameBack(commands'[from + i].row, old[i])
NothingAdded(id) == \A i \in Len(commands) + 1 .. Len(commands') : commands'[i].id # id

\* What a load may do: one that is refused leaves the world and its commands alone; one that is
\* not gives, for every arena of the last save that reached the disk and for no other, the rows
\* as they were then, whatever builds wrote and read them, whatever happened to the world since,
\* and never from a damaged file (save.h:226-235).
Whole ==
    IF err' # "ok" THEN UNCHANGED <<rows, commands>>
    ELSE LET old == saved[1].build
         IN /\ saved # <<>> /\ disk[1].damage = "none"
            /\ Arenas(old) \subseteq Arenas(build)
            /\ IsPrefix(commands, commands')
            /\ \A id \in Arenas(build) :
                   IF id \in Arenas(old) /\ Desc(build, id).kind = "reflected"
                   THEN Restored(rows'[id], id) /\ NothingAdded(id)
                   ELSE /\ rows'[id] = rows[id]
                        /\ IF id \in Arenas(old) THEN AddedBack(id) ELSE NothingAdded(id)

\* A load is whole or nothing.
LoadIsWhole == [][LoadSave => Whole]_save_vars
=============================================================================

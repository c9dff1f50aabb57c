----------------------------- MODULE AtomicFile -----------------------------
(***************************************************************************)
(* os_write_atomic on POSIX (platform/os_file_atomic.cpp): write           *)
(* path.tmp.<pid>, fsync it, rename it over the path, fsync the directory. *)
(* Every system call is a step, any of them may fail, a process may be     *)
(* killed before any step and the machine may lose power.                  *)
(*                                                                         *)
(* External (the operating system, as the code relies on it): a file has   *)
(* the blocks a reader sees and the blocks that are safe on the disk;      *)
(* rename is atomic; an unlink the code does not check succeeds; the       *)
(* directory's changes reach the disk in order.                            *)
(***************************************************************************)
EXTENDS Integers, Sequences, SequencesExt

CONSTANTS
    Procs,      \* processes, each with its own pid and so its own tmp name
    MaxCalls,   \* bound on the calls of a behaviour
    Blocks      \* length of every content, not 0

Versions == 1 .. MaxCalls
Old == 0
None == -1

VARIABLES
    pc,         \* next system call of each process, "idle" between calls
    version,    \* the content of each process's last call, None when it has made none
    file,       \* of each version: blocks written, blocks safe on the disk
    target,     \* what the path names: the safe directory entry, then each later one
    tmp,        \* what path.tmp.<pid> names, None when there is no such file
    outcome     \* of each call

vars == <<pc, version, file, target, tmp, outcome>>

Outcomes == {"none", "open", "ok", "failed", "dead"}

TypeOK ==
    /\ pc \in [Procs -> {"idle", "open", "write", "fsync", "rename", "dirsync"}]
    /\ version \in [Procs -> Versions \cup {None}]
    /\ file \in [Versions \cup {Old} -> [written : 0 .. Blocks, safe : 0 .. Blocks]]
    /\ target \in Seq(Versions \cup {Old}) /\ target # <<>>
    /\ tmp \in [Procs -> Versions \cup {None}]
    /\ outcome \in [Versions -> Outcomes]

Init ==
    /\ pc = [p \in Procs |-> "idle"]
    /\ version = [p \in Procs |-> None]
    /\ file = [v \in Versions \cup {Old} |->
                   LET n == IF v = Old THEN Blocks ELSE 0 IN [written |-> n, safe |-> n]]
    /\ target = <<Old>>
    /\ tmp = [p \in Procs |-> None]
    /\ outcome = [v \in Versions |-> "none"]

Goto(p, from, to) == pc[p] = from /\ pc' = [pc EXCEPT ![p] = to]
SetVersion(p, v) == version' = [version EXCEPT ![p] = v]
SetTmp(p, v) == tmp' = [tmp EXCEPT ![p] = v]
Return(p, result) == outcome' = [outcome EXCEPT ![version[p]] = result]

\* A call begins.  One whose name is too long returns before its first system call.
Begin(p) ==
    \E v \in Versions :
        /\ outcome[v] = "none"
        /\ \A u \in 1 .. v - 1 : outcome[u] # "none"
        /\ SetVersion(p, v)
        /\ \/ Goto(p, "idle", "open") /\ outcome' = [outcome EXCEPT ![v] = "open"]
           \/ Goto(p, "idle", "idle") /\ outcome' = [outcome EXCEPT ![v] = "failed"]
    /\ UNCHANGED <<file, target, tmp>>

\* open(O_CREAT | O_TRUNC): a tmp file a killed process with this pid left is emptied.
Open(p) ==
    /\ Goto(p, "open", "write")
    /\ SetTmp(p, version[p])
    /\ UNCHANGED <<version, file, target, outcome>>
OpenFails(p) ==
    /\ Goto(p, "open", "idle")
    /\ Return(p, "failed")
    /\ UNCHANGED <<version, file, target, tmp>>

\* One write(): it may take less than was asked, and the loop goes on until all is written.
Write(p) ==
    /\ pc[p] = "write"
    /\ \E n \in file[version[p]].written + 1 .. Blocks :
           /\ file' = [file EXCEPT ![version[p]].written = n]
           /\ Goto(p, "write", IF n = Blocks THEN "fsync" ELSE "write")
    /\ UNCHANGED <<version, target, tmp, outcome>>

\* The fsync before the rename forgotten.
Bug_Fsync(p) ==
    /\ Goto(p, "fsync", "rename")
    /\ UNCHANGED <<version, file, target, tmp, outcome>>

Fsync(p) ==
    /\ Goto(p, "fsync", "rename")
    /\ file' = [file EXCEPT ![version[p]].safe = file[version[p]].written]
    /\ UNCHANGED <<version, target, tmp, outcome>>

Rename(p) ==
    /\ Goto(p, "rename", "dirsync")
    /\ target' = Append(target, tmp[p])
    /\ SetTmp(p, None)
    /\ UNCHANGED <<version, file, outcome>>

\* The unlink forgotten on a failing path.
Bug_StepFails(p) ==
    /\ \E step \in {"write", "fsync", "rename"} : Goto(p, step, "idle")
    /\ Return(p, "failed")
    /\ UNCHANGED <<version, file, target, tmp>>

\* A failed write, fsync or rename: close, unlink the tmp file, ERR_PLATFORM_FILE_IO.
StepFails(p) ==
    /\ \E step \in {"write", "fsync", "rename"} : Goto(p, step, "idle")
    /\ SetTmp(p, None)
    /\ Return(p, "failed")
    /\ UNCHANGED <<version, file, target>>

\* The directory is opened and fsynced; the code ignores whether either worked.
DirSync(p) ==
    /\ Goto(p, "dirsync", "idle")
    /\ target' \in {target, <<Last(target)>>}
    /\ Return(p, "ok")
    /\ UNCHANGED <<version, file, tmp>>

\* A kill (maybe_kill names three of its places): what the process wrote stays visible.
KillProc(p) ==
    /\ \E step \in {"open", "write", "fsync", "rename", "dirsync"} : Goto(p, step, "idle")
    /\ Return(p, "dead")
    /\ SetVersion(p, None)
    /\ UNCHANGED <<file, target, tmp>>

\* A power loss: each file keeps its safe blocks and any of the later ones, the directory some
\* state it was in since it was safe; a tmp file may be gone or be back.
PowerLoss ==
    /\ pc' = [p \in Procs |-> "idle"]
    /\ \E n \in [Versions -> 0 .. Blocks] :
           /\ \A v \in Versions : n[v] \in file[v].safe .. file[v].written
           /\ file' = [v \in DOMAIN file |->
                          IF v = Old THEN file[v] ELSE [written |-> n[v], safe |-> n[v]]]
    /\ \E i \in DOMAIN target : target' = <<target[i]>>
    /\ \E t \in [Procs -> Versions \cup {None}] :
           (\A p \in Procs : t[p] \in {None, tmp[p], version[p]}) /\ tmp' = t
    /\ outcome' = [v \in Versions |-> IF outcome[v] = "open" THEN "dead" ELSE outcome[v]]
    /\ version' = [p \in Procs |-> None]

Next ==
    \/ \E p \in Procs :
           \/ Begin(p) \/ Open(p) \/ OpenFails(p) \/ Write(p) \/ Fsync(p)
           \/ Rename(p) \/ StepFails(p) \/ DirSync(p) \/ KillProc(p)
    \/ PowerLoss

Spec == Init /\ [][Next]_vars

-----------------------------------------------------------------------------
\* What a version shows whoever reads it after a crash: itself once every block is safe.
Torn == -2
Content(v) == IF file[v].safe = Blocks THEN v ELSE Torn

Renamed(v) == \E p \in Procs : pc[p] = "dirsync" /\ version[p] = v

Promise == INSTANCE AtomicReplace WITH
    history <- [i \in DOMAIN target |-> Content(target[i])],
    calls <- [v \in Versions |->
                 IF outcome[v] # "open" THEN outcome[v]
                 ELSE IF Renamed(v) THEN "done" ELSE "asked"]

\* Whatever fails and wherever a process or the machine stops, the path goes from one whole
\* version to another at the rename and at no other step (os_file_atomic.h:6-9).
ReplacedAtOnce == Promise!Spec

\* A call that failed leaves no tmp file of its own, every failing path unlinks it, and one that
\* succeeded leaves none at all, not even one that a killed process with its pid had left
\* (os_file_atomic.h:9-10).
NoTmpSurvives ==
    \A p \in Procs :
        pc[p] = "idle" /\ version[p] # None =>
            /\ tmp[p] # version[p]
            /\ outcome[version[p]] = "ok" => tmp[p] = None

FileInv == TypeOK /\ NoTmpSurvives
=============================================================================

---------------------------- MODULE Storage_proof ----------------------------
(***************************************************************************)
(* Theorems of what is kept on the disk and of what is loaded from it.     *)
(*                                                                         *)
(* AtomicFile, for any number of processes, calls and blocks.              *)
(* Only a version whose blocks are all safe is ever renamed over the path, *)
(* so that what a reader sees is the name's whole version, power loss or   *)
(* not: OnDisk.  The rest of FlightInv says whose call and whose tmp file  *)
(* a version is.                                                           *)
(*                                                                         *)
(* Assets, for any number of names, slots, generations and holders: the    *)
(* slots of the registry and the textures of the device answer for one     *)
(* another, one by one, and a slot's generations only rise: AssetsIInv.    *)
(*                                                                         *)
(* LogStore, for any origins, sequence numbers, ticks and room: the store  *)
(* has no record twice and no more of a tick than a packet holds           *)
(* (LogIInv), so that a read of a tick leaves none out and the segment     *)
(* put together tick by tick (SegmentOK) is one the encoder and the        *)
(* decoder take.  What the archive remembers from record to record is      *)
(* followed in the same order (Remembers).                                 *)
(*                                                                         *)
(* SaveFile, for any builds, entities, values and arenas: an undamaged     *)
(* file holds the rows of the save it is of, block for block (SaveIInv),   *)
(* so that a load which is not refused gives for each arena of that save   *)
(* its rows, through renamed, new and lost fields, and touches no other    *)
(* (LoadIsWhole).                                                          *)
(***************************************************************************)
EXTENDS AtomicFile, Assets, LogStore, SaveFile, FiniteSetTheorems, FunctionTheorems,
        SequenceTheorems, WellFoundedInduction, TLAPS

Bounds == MaxCalls \in Nat /\ Blocks \in Nat \ {0}

-----------------------------------------------------------------------------
(* The inductive invariant.                                                *)

Flying(p) == pc[p] # "idle"

\* A call in flight is open and its version is its own.
Owned ==
    /\ \A p \in Procs : Flying(p) => version[p] \in Versions /\ outcome[version[p]] = "open"
    /\ \A p, q \in Procs : Flying(p) /\ Flying(q) /\ version[p] = version[q] => p = q
    /\ \A v \in Versions : outcome[v] = "open" => \E p \in Procs : Flying(p) /\ version[p] = v

\* What an idle process's last call returned, and the tmp file it left.
Rested ==
    \A p \in Procs : ~Flying(p) /\ version[p] # None =>
        /\ outcome[version[p]] \in {"ok", "failed"}
        /\ tmp[p] # version[p]
        /\ outcome[version[p]] = "ok" => tmp[p] = None

\* Whose version a tmp file holds.
TmpNamed ==
    /\ \A p \in Procs : tmp[p] \in Versions => outcome[tmp[p]] # "none"
    /\ \A p \in Procs : pc[p] = "open" => tmp[p] # version[p]
    /\ \A p \in Procs : pc[p] \in {"write", "fsync", "rename"} => tmp[p] = version[p]
    /\ \A p \in Procs : pc[p] = "dirsync" => tmp[p] = None

\* What a call has on the disk by the step it is at.
Synced ==
    /\ \A v \in Versions \cup {Old} : file[v].safe <= file[v].written
    /\ \A p \in Procs : pc[p] = "fsync" => file[version[p]].written = Blocks
    /\ \A p \in Procs : pc[p] = "rename" => file[version[p]].safe = Blocks

OnDisk == \A i \in DOMAIN target : file[target[i]].safe = Blocks

FlightInv == TypeOK /\ Owned /\ Rested /\ TmpNamed /\ Synced /\ OnDisk

LEMMA Constants == Bounds => None \notin Versions /\ Old \notin Versions /\ None # Old
BY DEF Bounds, None, Old, Versions

LEMMA TargetFacts ==
    TypeOK => /\ Len(target) \in Nat \ {0} /\ DOMAIN target = 1 .. Len(target)
              /\ \A i \in DOMAIN target : target[i] \in Versions \cup {Old}
BY EmptySeq, LenProperties, ElementOfSeq DEF TypeOK

LEMMA FlightInit == Bounds /\ Init => FlightInv
<1>. SUFFICES ASSUME Bounds, Init PROVE FlightInv
  OBVIOUS
<1>1. None \notin Versions /\ Old \notin Versions
  BY Constants
<1>2. target \in Seq(Versions \cup {Old}) /\ target # <<>> /\ Len(target) = 1 /\ target[1] = Old
  BY DEF Init
<1>3. \A v \in Versions \cup {Old} :
          file[v].written = (IF v = Old THEN Blocks ELSE 0) /\ file[v].safe = file[v].written
  BY DEF Init
<1>4. file \in [Versions \cup {Old} -> [written : 0 .. Blocks, safe : 0 .. Blocks]]
  BY DEF Init, Bounds
<1>5. TypeOK
  BY <1>2, <1>4 DEF Init, TypeOK, Outcomes
<1>6. Owned /\ Rested /\ TmpNamed
  BY <1>1 DEF Init, Owned, Rested, TmpNamed, Flying
<1>7. Synced
  BY <1>3 DEF Synced, Init, Bounds
<1>8. OnDisk
  <2>1. \A i \in DOMAIN target : target[i] = Old
    BY DEF Init
  <2>2. file[Old].safe = Blocks
    <3>1. Old \in Versions \cup {Old}
      OBVIOUS
    <3>2. file[Old].written = Blocks /\ file[Old].safe = file[Old].written
      BY <1>3, <3>1
    <3>. QED BY <3>2
  <2>. QED BY <2>1, <2>2 DEF OnDisk
<1>. QED BY <1>5, <1>6, <1>7, <1>8 DEF FlightInv

-----------------------------------------------------------------------------
(* One step per system call.                                               *)

LEMMA BeginKeeps ==
    ASSUME Bounds, FlightInv, NEW p \in Procs, Begin(p) PROVE FlightInv'
<1>1. PICK v \in Versions :
          /\ outcome[v] = "none" /\ version' = [version EXCEPT ![p] = v]
          /\ \/ Goto(p, "idle", "open") /\ outcome' = [outcome EXCEPT ![v] = "open"]
             \/ Goto(p, "idle", "idle") /\ outcome' = [outcome EXCEPT ![v] = "failed"]
  BY DEF Begin, SetVersion
<1>2. UNCHANGED <<file, target, tmp>> /\ pc[p] = "idle"
  BY <1>1 DEF Begin, Goto
<1>3. PICK s \in {"open", "idle"} :
          /\ pc' = [pc EXCEPT ![p] = s]
          /\ outcome' = [outcome EXCEPT ![v] = IF s = "open" THEN "open" ELSE "failed"]
  BY <1>1 DEF Goto
<1>4. v # None
  BY Constants
<1>5. TypeOK'
  BY <1>1, <1>2, <1>3 DEF FlightInv, TypeOK, Outcomes
<1>6. Owned'
  BY <1>1, <1>2, <1>3 DEF FlightInv, TypeOK, Owned, Flying
<1>7. tmp[p] # v
  BY <1>1 DEF FlightInv, TmpNamed
<1>8. Rested'
  BY <1>1, <1>2, <1>3, <1>7 DEF FlightInv, TypeOK, Rested, Flying
<1>9. TmpNamed'
  BY <1>1, <1>2, <1>3, <1>7 DEF FlightInv, TypeOK, TmpNamed
<1>10. Synced' /\ OnDisk'
  BY <1>1, <1>2, <1>3 DEF FlightInv, TypeOK, Synced, OnDisk
<1>. QED BY <1>5, <1>6, <1>8, <1>9, <1>10 DEF FlightInv

LEMMA OpenKeeps ==
    ASSUME Bounds, FlightInv, NEW p \in Procs, Open(p) PROVE FlightInv'
<1>1. pc[p] = "open" /\ pc' = [pc EXCEPT ![p] = "write"] /\ tmp' = [tmp EXCEPT ![p] = version[p]]
      /\ UNCHANGED <<version, file, target, outcome>>
  BY DEF Open, Goto, SetTmp
<1>2. version[p] \in Versions /\ outcome[version[p]] = "open"
  BY <1>1 DEF FlightInv, Owned, Flying
<1>3. TypeOK'
  BY <1>1, <1>2 DEF FlightInv, TypeOK
<1>4. Owned' /\ Rested'
  BY <1>1, <1>2 DEF FlightInv, TypeOK, Owned, Rested, Flying
<1>5. TmpNamed'
  BY <1>1, <1>2 DEF FlightInv, TypeOK, TmpNamed
<1>6. Synced' /\ OnDisk'
  BY <1>1 DEF FlightInv, TypeOK, Synced, OnDisk
<1>. QED BY <1>3, <1>4, <1>5, <1>6 DEF FlightInv

\* A call that stops: its process goes idle, its outcome is fixed and its tmp file may go.
LEMMA StopKeeps ==
    ASSUME Bounds, FlightInv, NEW p \in Procs, Flying(p), pc' = [pc EXCEPT ![p] = "idle"],
           NEW o \in {"ok", "failed", "dead"},
           outcome' = [outcome EXCEPT ![version[p]] = o],
           version' = [version EXCEPT ![p] = IF o = "dead" THEN None ELSE version[p]],
           NEW t \in {tmp[p], None}, tmp' = [tmp EXCEPT ![p] = t],
           o = "failed" => t # version[p],
           o = "ok" => t = None,
           UNCHANGED file, target' \in Seq(Versions \cup {Old}), target' # <<>>, OnDisk'
    PROVE  FlightInv'
<1>1. version[p] \in Versions /\ outcome[version[p]] = "open"
  BY DEF FlightInv, Owned
<1>2. None \notin Versions
  BY Constants
<1>3. TypeOK'
  BY <1>1 DEF FlightInv, TypeOK, Outcomes
<1>4. Owned'
  <2>1. \A q \in Procs : Flying(q)' => q # p /\ Flying(q)
    BY DEF FlightInv, TypeOK, Flying
  <2>2. \A q \in Procs \ {p} : Flying(q)' = Flying(q) /\ version'[q] = version[q]
    BY DEF FlightInv, TypeOK, Flying
  <2>3. \A q \in Procs : Flying(q)' => version[q] # version[p]
    BY <2>1 DEF FlightInv, Owned
  <2>4. \A v \in Versions : outcome'[v] = IF v = version[p] THEN o ELSE outcome[v]
    BY DEF FlightInv, TypeOK
  <2>5. \A v \in Versions : outcome'[v] = "open" => \E q \in Procs \ {p} : Flying(q) /\ version[q] = v
    BY <2>4 DEF FlightInv, Owned
  <2>. QED BY <2>1, <2>2, <2>3, <2>4, <2>5 DEF FlightInv, Owned
<1>5. Rested'
  <2>. SUFFICES ASSUME NEW q \in Procs, ~Flying(q)', version'[q] # None
                PROVE  /\ outcome'[version'[q]] \in {"ok", "failed"}
                       /\ tmp'[q] # version'[q]
                       /\ outcome'[version'[q]] = "ok" => tmp'[q] = None
    BY DEF Rested
  <2>1. CASE q = p
    BY <1>1, <1>2, <2>1 DEF FlightInv, TypeOK
  <2>2. CASE q # p
    <3>1. ~Flying(q) /\ version'[q] = version[q] /\ tmp'[q] = tmp[q]
      BY <2>2 DEF FlightInv, TypeOK, Flying
    <3>2. outcome[version[q]] \in {"ok", "failed"} /\ version[q] \in Versions
      BY <3>1 DEF FlightInv, Rested, TypeOK
    <3>3. outcome'[version[q]] = outcome[version[q]]
      BY <1>1, <3>2 DEF FlightInv, TypeOK
    <3>. QED BY <3>1, <3>2, <3>3 DEF FlightInv, Rested
  <2>. QED BY <2>1, <2>2
<1>6. TmpNamed'
  BY <1>1, <1>2 DEF FlightInv, TypeOK, TmpNamed
<1>7. Synced'
  BY DEF FlightInv, TypeOK, Synced
<1>. QED BY <1>3, <1>4, <1>5, <1>6, <1>7 DEF FlightInv

LEMMA WriteKeeps ==
    ASSUME Bounds, FlightInv, NEW p \in Procs, Write(p) PROVE FlightInv'
<1>. DEFINE v == version[p]
<1>1. PICK n \in file[v].written + 1 .. Blocks :
          /\ file' = [file EXCEPT ![v].written = n]
          /\ pc' = [pc EXCEPT ![p] = IF n = Blocks THEN "fsync" ELSE "write"]
  BY DEF Write, Goto
<1>2. pc[p] = "write" /\ UNCHANGED <<version, target, tmp, outcome>>
  BY DEF Write
<1>3. v \in Versions /\ outcome[v] = "open"
  BY <1>2 DEF FlightInv, Owned, Flying
<1>4. file[v] \in [written : 0 .. Blocks, safe : 0 .. Blocks] /\ n \in 0 .. Blocks
  BY <1>1, <1>3 DEF FlightInv, TypeOK, Bounds
<1>5. /\ file' \in [Versions \cup {Old} -> [written : 0 .. Blocks, safe : 0 .. Blocks]]
      /\ \A u \in Versions \cup {Old} :
            /\ file'[u].safe = file[u].safe
            /\ file'[u].written = IF u = v THEN n ELSE file[u].written
  BY <1>1, <1>3, <1>4 DEF FlightInv, TypeOK
<1>6. TypeOK'
  BY <1>1, <1>2, <1>5 DEF FlightInv, TypeOK
<1>7. \A q \in Procs : q # p => pc'[q] = pc[q]
  BY <1>1 DEF FlightInv, TypeOK
<1>8. pc'[p] \in {"write", "fsync"} /\ (pc'[p] = "fsync" => n = Blocks)
  BY <1>1 DEF FlightInv, TypeOK
<1>9. \A q \in Procs : Flying(q)' = Flying(q)
  BY <1>2, <1>7, <1>8 DEF Flying
<1>10. Owned' /\ Rested'
  BY <1>2, <1>9 DEF FlightInv, Owned, Rested
<1>11. TmpNamed'
  BY <1>2, <1>7, <1>8 DEF FlightInv, TmpNamed
<1>12. \A q \in Procs : q # p /\ Flying(q) => version[q] # v
  BY <1>2 DEF FlightInv, Owned, Flying
<1>13. Synced'
  <2>1. \A u \in Versions \cup {Old} : file'[u].safe <= file'[u].written
    BY <1>1, <1>3, <1>4, <1>5 DEF FlightInv, Synced
  <2>2. \A q \in Procs : pc'[q] \in {"fsync", "rename"} /\ q # p => Flying(q) /\ version[q] \in Versions
    BY <1>7 DEF FlightInv, Owned, Flying
  <2>3. \A q \in Procs : pc'[q] = "fsync" => file'[version[q]].written = Blocks
    BY <1>3, <1>5, <1>7, <1>8, <1>12, <2>2 DEF FlightInv, Synced
  <2>4. \A q \in Procs : pc'[q] = "rename" => file'[version[q]].safe = Blocks
    BY <1>3, <1>5, <1>7, <1>8, <2>2 DEF FlightInv, Synced
  <2>. QED BY <1>2, <2>1, <2>3, <2>4 DEF Synced
<1>14. OnDisk'
  BY <1>2, <1>5, TargetFacts DEF FlightInv, OnDisk
<1>. QED BY <1>6, <1>10, <1>11, <1>13, <1>14 DEF FlightInv

LEMMA FsyncKeeps ==
    ASSUME Bounds, FlightInv, NEW p \in Procs, Fsync(p) PROVE FlightInv'
<1>. DEFINE v == version[p]
<1>1. pc[p] = "fsync" /\ pc' = [pc EXCEPT ![p] = "rename"]
      /\ file' = [file EXCEPT ![v].safe = file[v].written]
      /\ UNCHANGED <<version, target, tmp, outcome>>
  BY DEF Fsync, Goto
<1>2. v \in Versions
  BY <1>1 DEF FlightInv, Owned, Flying
<1>3. file[v] \in [written : 0 .. Blocks, safe : 0 .. Blocks] /\ file[v].written = Blocks
  BY <1>1, <1>2 DEF FlightInv, TypeOK, Synced
<1>4. /\ file' \in [Versions \cup {Old} -> [written : 0 .. Blocks, safe : 0 .. Blocks]]
      /\ \A u \in Versions \cup {Old} :
            /\ file'[u].written = file[u].written
            /\ file'[u].safe = IF u = v THEN Blocks ELSE file[u].safe
  BY <1>1, <1>2, <1>3 DEF FlightInv, TypeOK
<1>5. TypeOK'
  BY <1>1, <1>4 DEF FlightInv, TypeOK
<1>6. \A q \in Procs : pc'[q] = IF q = p THEN "rename" ELSE pc[q]
  BY <1>1 DEF FlightInv, TypeOK
<1>7. \A q \in Procs : Flying(q)' = Flying(q)
  BY <1>1, <1>6 DEF Flying
<1>8. Owned' /\ Rested'
  BY <1>1, <1>7 DEF FlightInv, Owned, Rested
<1>9. TmpNamed'
  BY <1>1, <1>6 DEF FlightInv, TmpNamed
<1>10. Synced'
  <2>1. \A u \in Versions \cup {Old} : file'[u].safe <= file'[u].written
    BY <1>3, <1>4 DEF FlightInv, Synced, Bounds
  <2>2. \A q \in Procs : pc'[q] \in {"fsync", "rename"} /\ q # p => version[q] \in Versions
    BY <1>6 DEF FlightInv, Owned, Flying
  <2>3. \A q \in Procs : pc'[q] = "fsync" => file'[version[q]].written = Blocks
    BY <1>4, <1>6, <2>2 DEF FlightInv, Synced
  <2>4. \A q \in Procs : pc'[q] = "rename" => file'[version[q]].safe = Blocks
    BY <1>2, <1>4, <1>6, <2>2 DEF FlightInv, Synced
  <2>. QED BY <1>1, <2>1, <2>3, <2>4 DEF Synced
<1>11. OnDisk'
  BY <1>1, <1>4, TargetFacts DEF FlightInv, OnDisk
<1>. QED BY <1>5, <1>8, <1>9, <1>10, <1>11 DEF FlightInv

LEMMA RenameKeeps ==
    ASSUME Bounds, FlightInv, NEW p \in Procs, Rename(p)
    PROVE  FlightInv' /\ target' = Append(target, version[p])
<1>1. pc[p] = "rename" /\ pc' = [pc EXCEPT ![p] = "dirsync"]
      /\ target' = Append(target, tmp[p]) /\ tmp' = [tmp EXCEPT ![p] = None]
      /\ UNCHANGED <<version, file, outcome>>
  BY DEF Rename, Goto, SetTmp
<1>2. version[p] \in Versions /\ outcome[version[p]] = "open" /\ tmp[p] = version[p]
      /\ file[version[p]].safe = Blocks
  BY <1>1 DEF FlightInv, Owned, TmpNamed, Synced, Flying
<1>3. None \notin Versions
  BY Constants
<1>4. target' \in Seq(Versions \cup {Old}) /\ target' # <<>>
      /\ Len(target') = Len(target) + 1 /\ target'[Len(target) + 1] = version[p]
      /\ \A i \in 1 .. Len(target) : target'[i] = target[i]
  <2>1. target \in Seq(Versions \cup {Old}) /\ version[p] \in Versions \cup {Old}
    BY <1>2 DEF FlightInv, TypeOK
  <2>. QED BY <1>1, <1>2, <2>1, AppendProperties
<1>5. TypeOK'
  BY <1>1, <1>4 DEF FlightInv, TypeOK
<1>6. Owned' /\ Rested'
  BY <1>1 DEF FlightInv, TypeOK, Owned, Rested, Flying
<1>7. TmpNamed'
  BY <1>1, <1>3 DEF FlightInv, TypeOK, TmpNamed
<1>8. Synced'
  BY <1>1 DEF FlightInv, TypeOK, Synced
<1>9. OnDisk'
  <2>. SUFFICES ASSUME NEW i \in DOMAIN target' PROVE file[target'[i]].safe = Blocks
    BY <1>1 DEF OnDisk
  <2>1. i \in 1 .. Len(target) + 1 /\ Len(target) \in Nat
    <3>1. DOMAIN target' = 1 .. Len(target')
      BY <1>4, LenProperties
    <3>. QED BY <1>4, <3>1, TargetFacts DEF FlightInv
  <2>2. CASE i = Len(target) + 1
    BY <1>2, <1>4, <2>2
  <2>3. CASE i # Len(target) + 1
    <3>1. i \in 1 .. Len(target) /\ i \in DOMAIN target
      BY <2>1, <2>3, TargetFacts DEF FlightInv
    <3>. QED BY <1>4, <3>1 DEF FlightInv, OnDisk
  <2>. QED BY <2>2, <2>3
<1>. QED BY <1>1, <1>2, <1>5, <1>6, <1>7, <1>8, <1>9 DEF FlightInv

LEMMA FailKeeps ==
    ASSUME Bounds, FlightInv, NEW p \in Procs, OpenFails(p) \/ StepFails(p) PROVE FlightInv'
<1>1. Flying(p) /\ pc' = [pc EXCEPT ![p] = "idle"]
      /\ outcome' = [outcome EXCEPT ![version[p]] = "failed"] /\ UNCHANGED <<version, file, target>>
  BY DEF OpenFails, StepFails, Goto, Return, Flying
<1>2. \E t \in {tmp[p], None} : tmp' = [tmp EXCEPT ![p] = t] /\ t # version[p]
  <2>1. CASE OpenFails(p)
    BY <2>1 DEF OpenFails, Goto, FlightInv, TypeOK, TmpNamed
  <2>2. CASE StepFails(p)
    <3>1. version[p] # None
      BY <1>1, Constants DEF FlightInv, Owned
    <3>. QED BY <2>2, <3>1 DEF StepFails, SetTmp
  <2>. QED BY <2>1, <2>2
<1>3. version' = [version EXCEPT ![p] = version[p]]
  BY <1>1 DEF FlightInv, TypeOK
<1>4. target' \in Seq(Versions \cup {Old}) /\ target' # <<>> /\ OnDisk'
  BY <1>1 DEF FlightInv, TypeOK, OnDisk
<1>. QED BY <1>1, <1>2, <1>3, <1>4, StopKeeps

LEMMA KillKeeps ==
    ASSUME Bounds, FlightInv, NEW p \in Procs, KillProc(p) PROVE FlightInv'
<1>1. Flying(p) /\ pc' = [pc EXCEPT ![p] = "idle"]
      /\ outcome' = [outcome EXCEPT ![version[p]] = "dead"]
      /\ version' = [version EXCEPT ![p] = None] /\ UNCHANGED <<file, target, tmp>>
  BY DEF KillProc, Goto, Return, SetVersion, Flying
<1>2. tmp' = [tmp EXCEPT ![p] = tmp[p]]
  BY <1>1 DEF FlightInv, TypeOK
<1>3. target' \in Seq(Versions \cup {Old}) /\ target' # <<>> /\ OnDisk'
  BY <1>1 DEF FlightInv, TypeOK, OnDisk
<1>. QED BY <1>1, <1>2, <1>3, StopKeeps

\* The directory's entry may have reached the disk, or not.
LEMMA DirSyncKeeps ==
    ASSUME Bounds, FlightInv, NEW p \in Procs, DirSync(p) PROVE FlightInv'
<1>1. pc[p] = "dirsync" /\ pc' = [pc EXCEPT ![p] = "idle"]
      /\ outcome' = [outcome EXCEPT ![version[p]] = "ok"] /\ UNCHANGED <<version, file, tmp>>
      /\ target' \in {target, <<Last(target)>>}
  BY DEF DirSync, Goto, Return
<1>2. tmp[p] = None /\ tmp' = [tmp EXCEPT ![p] = None] /\ version' = [version EXCEPT ![p] = version[p]]
  BY <1>1 DEF FlightInv, TypeOK, TmpNamed
<1>3. target' \in Seq(Versions \cup {Old}) /\ target' # <<>> /\ OnDisk'
  <2>1. CASE target' = target
    BY <1>1, <2>1 DEF FlightInv, TypeOK, OnDisk
  <2>2. CASE target' = <<Last(target)>>
    <3>1. Len(target) \in DOMAIN target /\ Last(target) = target[Len(target)]
      BY TargetFacts DEF FlightInv, Last
    <3>2. Last(target) \in Versions \cup {Old} /\ file[Last(target)].safe = Blocks
      BY <3>1, TargetFacts DEF FlightInv, OnDisk
    <3>3. target' \in Seq(Versions \cup {Old}) /\ target' # <<>>
      BY <2>2, <3>2
    <3>4. \A i \in DOMAIN target' : target'[i] = Last(target)
      BY <2>2
    <3>. QED BY <1>1, <3>2, <3>3, <3>4 DEF OnDisk
  <2>. QED BY <1>1, <2>1, <2>2
<1>4. Flying(p)
  BY <1>1 DEF Flying
<1>. QED BY <1>1, <1>2, <1>3, <1>4, StopKeeps

LEMMA PowerLossKeeps ==
    ASSUME Bounds, FlightInv, PowerLoss PROVE FlightInv'
<1>1. PICK n \in [Versions -> 0 .. Blocks] :
          /\ \A v \in Versions : n[v] \in file[v].safe .. file[v].written
          /\ file' = [v \in DOMAIN file |->
                        IF v = Old THEN file[v] ELSE [written |-> n[v], safe |-> n[v]]]
  BY DEF PowerLoss
<1>2. PICK i \in DOMAIN target : target' = <<target[i]>>
  BY DEF PowerLoss
<1>3. /\ pc' = [p \in Procs |-> "idle"] /\ version' = [p \in Procs |-> None]
      /\ outcome' = [v \in Versions |-> IF outcome[v] = "open" THEN "dead" ELSE outcome[v]]
      /\ tmp' \in [Procs -> Versions \cup {None}]
      /\ \A p \in Procs : tmp'[p] \in {None, tmp[p], version[p]}
  BY DEF PowerLoss
<1>4. None \notin Versions /\ Old \notin Versions
  BY Constants
<1>5. \A v \in Versions \cup {Old} : file[v] \in [written : 0 .. Blocks, safe : 0 .. Blocks]
  BY DEF FlightInv, TypeOK
<1>6. file' \in [Versions \cup {Old} -> [written : 0 .. Blocks, safe : 0 .. Blocks]]
  BY <1>1, <1>5 DEF FlightInv, TypeOK
<1>7. \A v \in Versions \cup {Old} :
          /\ v = Old => file'[v] = file[v]
          /\ v # Old => file'[v].written = n[v] /\ file'[v].safe = n[v]
  BY <1>1 DEF FlightInv, TypeOK
<1>8. target[i] \in Versions \cup {Old} /\ target' \in Seq(Versions \cup {Old}) /\ target' # <<>>
      /\ \A k \in DOMAIN target' : target'[k] = target[i]
  BY <1>2, TargetFacts DEF FlightInv
<1>9. TypeOK'
  BY <1>3, <1>6, <1>8 DEF FlightInv, TypeOK, Outcomes
<1>10. Owned'
  BY <1>3 DEF FlightInv, TypeOK, Owned, Flying
<1>11. Rested'
  BY <1>3 DEF Rested
<1>12. TmpNamed'
  <2>1. \A p \in Procs : version[p] \in Versions => outcome[version[p]] # "none"
    BY <1>4 DEF FlightInv, Owned, Rested
  <2>2. \A p \in Procs : tmp'[p] \in Versions => outcome[tmp'[p]] # "none"
    BY <1>3, <1>4, <2>1 DEF FlightInv, TmpNamed
  <2>. QED BY <1>3, <2>2 DEF TmpNamed
<1>13. Synced'
  <2>1. \A v \in Versions \cup {Old} : file'[v].safe <= file'[v].written
    <3>. SUFFICES ASSUME NEW v \in Versions \cup {Old} PROVE file'[v].safe <= file'[v].written
      OBVIOUS
    <3>1. CASE v = Old
      BY <1>7, <3>1 DEF FlightInv, Synced
    <3>2. CASE v # Old
      <4>1. n[v] \in 0 .. Blocks /\ file'[v].written = n[v] /\ file'[v].safe = n[v]
        BY <1>1, <1>7, <3>2
      <4>. QED BY <4>1
    <3>. QED BY <3>1, <3>2
  <2>. QED BY <1>3, <2>1 DEF Synced
<1>14. OnDisk'
  <2>1. file[target[i]].safe = Blocks
    BY DEF FlightInv, OnDisk
  <2>2. file'[target[i]].safe = Blocks
    <3>1. CASE target[i] = Old
      BY <1>7, <1>8, <2>1, <3>1
    <3>2. CASE target[i] \in Versions
      <4>1. file[target[i]].written \in 0 .. Blocks
        BY <1>5, <3>2
      <4>2. n[target[i]] \in Blocks .. file[target[i]].written
        BY <1>1, <2>1, <3>2
      <4>3. n[target[i]] = Blocks
        BY <4>1, <4>2 DEF Bounds
      <4>. QED BY <1>4, <1>7, <3>2, <4>3
    <3>. QED BY <1>8, <3>1, <3>2
  <2>. QED BY <1>8, <2>2 DEF OnDisk
<1>. QED BY <1>9, <1>10, <1>11, <1>12, <1>13, <1>14 DEF FlightInv

LEMMA FlightNext == Bounds /\ FlightInv /\ [Next]_vars => FlightInv'
<1>. SUFFICES ASSUME Bounds, FlightInv, [Next]_vars PROVE FlightInv'
  OBVIOUS
<1>1. CASE UNCHANGED vars
  BY <1>1 DEF vars, FlightInv, TypeOK, Owned, Rested, TmpNamed, Synced, OnDisk, Flying
<1>2. ASSUME NEW p \in Procs,
             Begin(p) \/ Open(p) \/ OpenFails(p) \/ Write(p) \/ Fsync(p)
               \/ Rename(p) \/ StepFails(p) \/ DirSync(p) \/ KillProc(p)
      PROVE  FlightInv'
  BY <1>2, BeginKeeps, OpenKeeps, WriteKeeps, FsyncKeeps, RenameKeeps, FailKeeps, DirSyncKeeps, KillKeeps
<1>3. CASE PowerLoss
  BY <1>3, PowerLossKeeps
<1>. QED BY <1>1, <1>2, <1>3 DEF Next

-----------------------------------------------------------------------------
(* The refinement.                                                         *)

CallOf(v) == IF outcome[v] # "open" THEN outcome[v] ELSE IF Renamed(v) THEN "done" ELSE "asked"
Calls == [v \in Versions |-> CallOf(v)]

\* Nothing torn is ever named: what a crash would show is what the path names.
Shown == [i \in DOMAIN target |-> Content(target[i])]
WholeNames == Shown = target

LEMMA NothingTorn == FlightInv => WholeNames
<1>. SUFFICES ASSUME FlightInv PROVE Shown = target
  BY DEF WholeNames
<1>1. \A i \in DOMAIN target : Content(target[i]) = target[i]
  BY DEF FlightInv, OnDisk, Content
<1>2. target = [i \in DOMAIN target |-> target[i]]
  BY TargetFacts, LenProperties DEF FlightInv, TypeOK
<1>. QED BY <1>1, <1>2 DEF Shown

LEMMA NothingTornNext == FlightInv' => WholeNames'
BY NothingTorn, PTL

\* A step of one process moves its own call alone.
LEMMA OneCallMoves ==
    ASSUME FlightInv, NEW p \in Procs, NEW v \in Versions, NEW s,
           pc' = [pc EXCEPT ![p] = s],
           \A u \in Versions \ {v} : outcome'[u] = outcome[u],
           \A q \in Procs \ {p} : version'[q] = version[q],
           pc[p] = "dirsync" => version[p] = v,
           s = "dirsync" => version'[p] = v
    PROVE  Calls' = [Calls EXCEPT ![v] = CallOf(v)']
<1>1. \A q \in Procs : pc'[q] = IF q = p THEN s ELSE pc[q]
  BY DEF FlightInv, TypeOK
<1>2. \A u \in Versions \ {v} : Renamed(u)' <=> Renamed(u)
  BY <1>1 DEF Renamed
<1>3. \A u \in Versions \ {v} : CallOf(u)' = CallOf(u)
  BY <1>2 DEF CallOf
<1>. QED BY <1>3 DEF Calls

RenamedInv ==
    \A v \in Versions :
        /\ Renamed(v) => outcome[v] = "open"
        /\ \A p \in Procs : Flying(p) /\ version[p] = v => (Renamed(v) <=> pc[p] = "dirsync")

LEMMA RenamedFacts == FlightInv => RenamedInv
BY DEF FlightInv, Owned, Flying, Renamed, RenamedInv

LEMMA RenamedFactsNext == FlightInv' => RenamedInv'
BY RenamedFacts, PTL

\* What the call of a process in flight is to its caller.
LEMMA FlyingCall ==
    ASSUME FlightInv, NEW p \in Procs, Flying(p)
    PROVE  /\ version[p] \in Versions
           /\ CallOf(version[p]) = IF pc[p] = "dirsync" THEN "done" ELSE "asked"
BY RenamedFacts DEF FlightInv, Owned, RenamedInv, CallOf

LEMMA PromiseInit == Bounds /\ Init => Promise!Init
<1>. SUFFICES ASSUME Bounds, Init PROVE Promise!Init
  OBVIOUS
<1>1. Shown = <<Old>>
  BY FlightInit, NothingTorn DEF Init, WholeNames
<1>2. Calls = [v \in Versions |-> "none"]
  BY DEF Init, Calls, CallOf
<1>. QED BY <1>1, <1>2 DEF Promise!Init, Calls, CallOf, Shown

\* A step of the promise, from what happened to the path and to one call.
LEMMA PromiseStep ==
    ASSUME FlightInv, FlightInv', NEW v \in Versions,
           Calls' = [Calls EXCEPT ![v] = CallOf(v)'],
           \/ target' = target
              /\ \/ CallOf(v) = "none" /\ CallOf(v)' \in {"asked", "failed"}
                 \/ CallOf(v) = "asked" /\ CallOf(v)' \in {"failed", "dead"}
                 \/ CallOf(v) = "done" /\ CallOf(v)' = "dead"
           \/ target' = Append(target, v) /\ CallOf(v) = "asked" /\ CallOf(v)' = "done"
           \/ target' \in {target, <<Last(target)>>} /\ CallOf(v) = "done" /\ CallOf(v)' = "ok"
    PROVE  Promise!Next
<1>1. Shown = target /\ Shown' = target'
  BY NothingTorn, NothingTornNext DEF WholeNames
<1>2. Calls[v] = CallOf(v)
  BY DEF Calls
<1>3. CASE target' = target /\ CallOf(v) = "none" /\ CallOf(v)' = "asked"
  <2>1. Promise!Ask(v)
    BY <1>1, <1>2, <1>3 DEF Promise!Ask, Promise!Move, Calls, CallOf, Shown
  <2>. QED BY <2>1 DEF Promise!Next
<1>4. CASE target' = target /\ CallOf(v) \in {"none", "asked"} /\ CallOf(v)' = "failed"
  <2>1. Promise!Fail(v)
    BY <1>1, <1>2, <1>4 DEF Promise!Fail, Promise!Move, Calls, CallOf, Shown
  <2>. QED BY <2>1 DEF Promise!Next
<1>5. CASE target' = target /\ CallOf(v) \in {"asked", "done"} /\ CallOf(v)' = "dead"
  <2>1. Promise!Kill(v)
    BY <1>1, <1>2, <1>5 DEF Promise!Kill, Promise!Move, Promise!Pending, Calls, CallOf, Shown
  <2>. QED BY <2>1 DEF Promise!Next
<1>6. CASE target' = Append(target, v) /\ CallOf(v) = "asked" /\ CallOf(v)' = "done"
  <2>1. Promise!Replace(v)
    BY <1>1, <1>2, <1>6 DEF Promise!Replace, Promise!Move, Calls, CallOf, Shown
  <2>. QED BY <2>1 DEF Promise!Next
<1>7. CASE target' \in {target, <<Last(target)>>} /\ CallOf(v) = "done" /\ CallOf(v)' = "ok"
  <2>1. Promise!Answer(v)
    BY <1>1, <1>2, <1>7 DEF Promise!Answer, Promise!Move, Promise!Last, Last, Calls, CallOf, Shown
  <2>. QED BY <2>1 DEF Promise!Next
<1>. QED BY <1>3, <1>4, <1>5, <1>6, <1>7

LEMMA PromisePowerLoss ==
    ASSUME FlightInv, FlightInv', PowerLoss PROVE Promise!Next
<1>1. Shown = target /\ Shown' = target'
  BY NothingTorn, NothingTornNext DEF WholeNames
<1>2. \E i \in DOMAIN target : target' = <<target[i]>>
  BY DEF PowerLoss
<1>3. \A v \in Versions : ~Renamed(v)'
  BY DEF PowerLoss, Renamed
<1>4. \A v \in Versions : outcome'[v] = IF outcome[v] = "open" THEN "dead" ELSE outcome[v]
  BY DEF PowerLoss
<1>5. \A v \in Versions : CallOf(v)' = IF CallOf(v) \in {"asked", "done"} THEN "dead" ELSE CallOf(v)
  <2>. SUFFICES ASSUME NEW v \in Versions
                PROVE  CallOf(v)' = IF CallOf(v) \in {"asked", "done"} THEN "dead" ELSE CallOf(v)
    OBVIOUS
  <2>1. outcome[v] \notin {"asked", "done"}
    BY DEF FlightInv, TypeOK, Outcomes
  <2>. QED BY <1>3, <1>4, <2>1 DEF CallOf
<1>6. Calls' = [v \in Versions |-> IF Calls[v] \in {"asked", "done"} THEN "dead" ELSE Calls[v]]
  BY <1>5 DEF Calls
<1>7. Promise!PowerLoss
  BY <1>1, <1>2, <1>6 DEF Promise!PowerLoss, Promise!Pending, Calls, CallOf, Shown
<1>. QED BY <1>7 DEF Promise!Next

\* Whatever a process does, it moves its own call and the path as the promise allows.
LEMMA PromiseProcess ==
    ASSUME Bounds, FlightInv, FlightInv', NEW p \in Procs,
           Begin(p) \/ Open(p) \/ OpenFails(p) \/ Write(p) \/ Fsync(p)
             \/ Rename(p) \/ StepFails(p) \/ DirSync(p) \/ KillProc(p)
    PROVE  Promise!Next \/ (Calls' = Calls /\ target' = target)
<1>1. CASE Begin(p)
  <2>1. PICK v \in Versions :
            /\ outcome[v] = "none" /\ version' = [version EXCEPT ![p] = v]
            /\ \/ Goto(p, "idle", "open") /\ outcome' = [outcome EXCEPT ![v] = "open"]
               \/ Goto(p, "idle", "idle") /\ outcome' = [outcome EXCEPT ![v] = "failed"]
    BY <1>1 DEF Begin, SetVersion
  <2>2. PICK s \in {"open", "idle"} :
            /\ pc[p] = "idle" /\ pc' = [pc EXCEPT ![p] = s]
            /\ outcome' = [outcome EXCEPT ![v] = IF s = "open" THEN "open" ELSE "failed"]
    BY <2>1 DEF Goto
  <2>3. target' = target /\ version'[p] = v /\ pc'[p] = s
        /\ outcome'[v] = (IF s = "open" THEN "open" ELSE "failed")
        /\ (\A u \in Versions \ {v} : outcome'[u] = outcome[u])
        /\ (\A q \in Procs \ {p} : version'[q] = version[q])
    BY <1>1, <2>1, <2>2 DEF Begin, FlightInv, TypeOK
  <2>4. CallOf(v) = "none"
    BY <2>1 DEF CallOf
  <2>5. CallOf(v)' \in {"asked", "failed"}
    BY <2>3, RenamedFactsNext DEF RenamedInv, Flying, CallOf
  <2>6. Calls' = [Calls EXCEPT ![v] = CallOf(v)']
    BY <2>2, <2>3, OneCallMoves
  <2>. QED BY <2>3, <2>4, <2>5, <2>6, PromiseStep
<1>2. CASE Open(p) \/ Write(p) \/ Fsync(p)
  <2>1. PICK s \in {"write", "fsync", "rename"} : pc' = [pc EXCEPT ![p] = s]
    BY <1>2 DEF Open, Write, Fsync, Goto
  <2>2. pc[p] \in {"open", "write", "fsync"} /\ UNCHANGED <<version, target, outcome>>
    BY <1>2 DEF Open, Write, Fsync, Goto
  <2>3. \A q \in Procs : pc'[q] = IF q = p THEN s ELSE pc[q]
    BY <2>1 DEF FlightInv, TypeOK
  <2>4. \A v \in Versions : Renamed(v)' <=> Renamed(v)
    BY <2>2, <2>3 DEF Renamed
  <2>5. \A v \in Versions : CallOf(v)' = CallOf(v)
    BY <2>2, <2>4 DEF CallOf
  <2>. QED BY <2>2, <2>5 DEF Calls
<1>3. CASE OpenFails(p) \/ StepFails(p) \/ DirSync(p) \/ KillProc(p)
  <2>1. Flying(p) /\ pc' = [pc EXCEPT ![p] = "idle"]
    BY <1>3 DEF OpenFails, StepFails, DirSync, KillProc, Goto, Flying
  <2>2. PICK v \in Versions : v = version[p]
    BY <2>1, FlyingCall
  <2>3. PICK o \in {"failed", "ok", "dead"} :
            /\ outcome' = [outcome EXCEPT ![v] = o]
            /\ o = "failed" => pc[p] \in {"open", "write", "fsync", "rename"} /\ target' = target
            /\ o = "ok" => pc[p] = "dirsync" /\ target' \in {target, <<Last(target)>>}
            /\ o = "dead" => target' = target
    BY <1>3, <2>2 DEF OpenFails, StepFails, DirSync, KillProc, Goto, Return
  <2>4. \A q \in Procs \ {p} : version'[q] = version[q]
    BY <1>3 DEF OpenFails, StepFails, DirSync, KillProc, SetVersion, FlightInv, TypeOK
  <2>5. CallOf(v) = IF pc[p] = "dirsync" THEN "done" ELSE "asked"
    BY <2>1, <2>2, FlyingCall
  <2>6. outcome'[v] = o /\ \A u \in Versions \ {v} : outcome'[u] = outcome[u]
    BY <2>3 DEF FlightInv, TypeOK
  <2>7. CallOf(v)' = o
    BY <2>3, <2>6 DEF CallOf
  <2>8. Calls' = [Calls EXCEPT ![v] = CallOf(v)']
    BY <2>1, <2>2, <2>4, <2>6, OneCallMoves
  <2>. QED BY <2>3, <2>5, <2>7, <2>8, PromiseStep
<1>4. CASE Rename(p)
  <2>1. pc[p] = "rename" /\ pc' = [pc EXCEPT ![p] = "dirsync"] /\ UNCHANGED <<version, outcome>>
        /\ target' = Append(target, version[p])
    BY <1>4, RenameKeeps DEF Rename, Goto
  <2>2. PICK v \in Versions : v = version[p]
    BY <2>1, FlyingCall DEF Flying
  <2>3. CallOf(v) = "asked" /\ outcome[v] = "open"
    BY <2>1, <2>2, FlyingCall DEF Flying, FlightInv, Owned
  <2>4. CallOf(v)' = "done"
    <3>1. pc'[p] = "dirsync" /\ version'[p] = v
      BY <2>1, <2>2 DEF FlightInv, TypeOK
    <3>2. Renamed(v)'
      BY <3>1 DEF Renamed
    <3>. QED BY <2>1, <2>3, <3>2 DEF CallOf
  <2>5. Calls' = [Calls EXCEPT ![v] = CallOf(v)']
    BY <2>1, <2>2, OneCallMoves
  <2>. QED BY <2>1, <2>2, <2>3, <2>4, <2>5, PromiseStep
<1>. QED BY <1>1, <1>2, <1>3, <1>4

LEMMA PromiseNext ==
    Bounds /\ FlightInv /\ FlightInv' /\ [Next]_vars => [Promise!Next]_<<Shown, Calls>>
<1>. SUFFICES ASSUME Bounds, FlightInv, FlightInv', [Next]_vars
              PROVE  Promise!Next \/ UNCHANGED <<Shown, Calls>>
  OBVIOUS
<1>1. target' = target => Shown' = Shown
  BY NothingTorn, NothingTornNext DEF WholeNames
<1>2. CASE UNCHANGED vars
  <2>1. Calls' = Calls
    BY <1>2 DEF vars, Calls, CallOf, Renamed
  <2>. QED BY <1>1, <1>2, <2>1 DEF vars
<1>3. CASE \E p \in Procs :
               Begin(p) \/ Open(p) \/ OpenFails(p) \/ Write(p) \/ Fsync(p)
                 \/ Rename(p) \/ StepFails(p) \/ DirSync(p) \/ KillProc(p)
  BY <1>1, <1>3, PromiseProcess
<1>4. CASE PowerLoss
  BY <1>4, PromisePowerLoss
<1>. QED BY <1>2, <1>3, <1>4 DEF Next

-----------------------------------------------------------------------------
(* The theorems.                                                           *)

THEOREM Invariant == Bounds /\ Spec => [](Bounds /\ FlightInv)
<1>1. Bounds /\ Init => Bounds /\ FlightInv
  BY FlightInit
<1>2. Bounds /\ FlightInv /\ [Next]_vars => Bounds' /\ FlightInv'
  BY FlightNext DEF Bounds
<1>. QED BY <1>1, <1>2, PTL DEF Spec

\* Types, and "no tmp file survives": for any processes, calls and contents a
\* call that failed leaves no tmp file of its own and one that succeeded none
\* (platform/os_file_atomic.h:9-10).
THEOREM NoTmpFileSurvives == Bounds /\ Spec => []FileInv
<1>1. FlightInv => FileInv
  BY DEF FlightInv, Rested, Flying, FileInv, NoTmpSurvives
<1>. QED BY <1>1, Invariant, PTL

\* Whatever fails and wherever a process or the machine stops, a reader of
\* the path sees one whole version, and a call replaces it at its rename and
\* at no other step (platform/os_file_atomic.h:6-9).
THEOREM ReplacedAtOnceAlways == Bounds /\ Spec => ReplacedAtOnce
<1>. QED BY Invariant, PromiseInit, PromiseNext, PTL
         DEF Spec, ReplacedAtOnce, Promise!Spec, Shown, Calls, CallOf, Promise!vars

-----------------------------------------------------------------------------
(***************************************************************************)
(* Textures.  The slot map: which handles there are, which may come, and   *)
(* which never again.                                                      *)
(***************************************************************************)

Handles == [idx : Nat, gen : Nat]
Usages == {"STATIC", "STREAMING", "TARGET"}
RecType ==
    [name : Names \union {NoName}, refcount : Int, dev : Handles, kind : {"none", "IMAGE", "STREAMING"}]
SlotType == [rec : RecType, gen : 1 .. GenMax, live : BOOLEAN]

Free == {textures.free[k] : k \in 1 .. Len(textures.free)}

\* A slot that is not in use waits to be reused, once, or has run through its generations.
SlotsOK ==
    /\ textures \in [slots : Seq(SlotType), free : Seq(Nat)] /\ Count <= TexSlots
    /\ \A j, k \in 1 .. Len(textures.free) : textures.free[j] = textures.free[k] => j = k
    /\ \A i \in Free : i \in 0 .. Count - 1 /\ ~At(i).live
    /\ \A i \in 0 .. Count - 1 : At(i).live \/ i \in Free \/ At(i).gen = GenMax

\* A handle of the past is of an earlier generation than the slot will be given out under.
Gone(h) ==
    /\ h \in Handles /\ h.idx < Count
    /\ h.gen < At(h.idx).gen \/ (h.gen = At(h.idx).gen /\ ~At(h.idx).live /\ h.idx \notin Free)
PastOK == \A h \in past : Gone(h)

HoldsOK ==
    /\ DOMAIN holds = {Handle(i, At(i).gen) : i \in Live}
    /\ \A i \in Live : At(i).rec.refcount = holds[Handle(i, At(i).gen)]

NamesOK ==
    /\ \A i \in Live :
          /\ At(i).rec.kind \in {"IMAGE", "STREAMING"}
          /\ At(i).rec.kind = "IMAGE" =>
                At(i).rec.name \in DOMAIN by_name /\ by_name[At(i).rec.name] = Handle(i, At(i).gen)
    /\ \A n \in DOMAIN by_name : \E i \in Live :
          /\ by_name[n] = Handle(i, At(i).gen)
          /\ At(i).rec.name = n /\ At(i).rec.kind = "IMAGE"

\* The device: of its textures those are alive that have an owner, n of them.
DeviceOK(d, owned, n) ==
    /\ d \in [tex : [Indices -> [alive : BOOLEAN, gen : 0 .. GenMax, usage : Usages]],
              live : Int, room : Int]
    /\ owned \subseteq Handles
    /\ \A h \in owned :
          h.idx \in Indices /\ d.tex[h.idx].alive /\ d.tex[h.idx].gen = h.gen /\ h.gen > 0
    /\ \A x \in Indices : d.tex[x].alive => Handle(x, d.tex[x].gen) \in owned
    /\ d.live = n

Devs == {At(i).rec.dev : i \in Live}
OwnedTex == Devs \union ({target_tex} \ {Null})
Owners == Cardinality(Live) + (IF target_tex = Null THEN 0 ELSE 1)

\* Each owns another one.
Apart ==
    /\ target_tex \in Handles /\ target_tex \notin Devs /\ Null \notin Devs
    /\ \A i, j \in Live : At(i).rec.dev = At(j).rec.dev => i = j

Answered ==
    /\ asset_reply = "ASSET_LIMIT" => \A i \in Indices : i \in Live \/ (i < Count /\ At(i).gen = GenMax)
    /\ exhausted => device.room = 0

AssetsIInv ==
    /\ SlotsOK /\ PastOK /\ HoldsOK /\ NamesOK
    /\ DeviceOK(device, OwnedTex, Owners) /\ Apart /\ Answered

LEMMA Least ==
    ASSUME NEW T, T \subseteq Nat, T # {}
    PROVE  \E n \in T : \A m \in T : n <= m
<1>1. PICK x \in T : \A y \in T : ~(<<y, x>> \in OpToRel(<, Nat))
  BY NatLessThanWellFounded, WFMin
<1>2. \A y \in T : ~(y < x)
  BY <1>1 DEF OpToRel
<1>. QED BY <1>2

LEMMA MinOf == ASSUME NEW S, S \subseteq Nat, S # {} PROVE Min(S) \in S
<1>1. PICK x \in S : \A y \in S : x <= y
  BY Least
<1>. QED BY <1>1 DEF Min

LEMMA SlotFacts ==
    ASSUME SlotsOK
    PROVE  /\ textures = [slots |-> textures.slots, free |-> textures.free]
           /\ textures.slots \in Seq(SlotType) /\ textures.free \in Seq(Nat)
           /\ Count \in Nat /\ Count <= TexSlots /\ Len(textures.free) \in Nat
           /\ \A i \in 0 .. Count - 1 :
                 /\ At(i) \in SlotType /\ i \in Indices /\ i + 1 \in 1 .. Len(textures.slots)
                 /\ At(i).gen \in Nat /\ At(i).gen > 0 /\ Handle(i, At(i).gen) \in Handles
<1>1. /\ textures = [slots |-> textures.slots, free |-> textures.free]
      /\ textures.slots \in Seq(SlotType) /\ textures.free \in Seq(Nat)
  BY DEF SlotsOK
<1>2. Count \in Nat /\ Len(textures.free) \in Nat /\ Count <= TexSlots
  BY <1>1, LenProperties DEF Count, SlotsOK
<1>3. ASSUME NEW i \in 0 .. Count - 1
      PROVE  /\ At(i) \in SlotType /\ i \in Indices /\ i + 1 \in 1 .. Len(textures.slots)
             /\ At(i).gen \in Nat /\ At(i).gen > 0 /\ Handle(i, At(i).gen) \in Handles
  <2>1. i + 1 \in 1 .. Len(textures.slots) /\ i \in Indices /\ i \in Nat
    BY <1>2, AssetsAssumption DEF Count, Indices
  <2>2. At(i) \in SlotType
    BY <1>1, <2>1, ElementOfSeq DEF At
  <2>3. At(i).gen \in Nat /\ At(i).gen > 0
    BY <2>2, AssetsAssumption DEF SlotType
  <2>. QED BY <2>1, <2>2, <2>3 DEF Handle, Handles
<1>. QED BY <1>1, <1>2, <1>3

LEMMA FrontFacts ==
    ASSUME NEW S, NEW f \in Seq(S), Len(f) > 0
    PROVE  /\ Front(f) \in Seq(S) /\ Len(Front(f)) = Len(f) - 1
           /\ \A k \in 1 .. Len(f) - 1 : Front(f)[k] = f[k]
<1>. PICK n \in Nat : n = Len(f) - 1 /\ Len(f) \in Nat
  BY LenProperties
<1>1. \A k \in 1 .. n : f[k] \in S
  BY ElementOfSeq
<1>. DEFINE g == SubSeq(f, 1, n)
<1>2. /\ g \in Seq(S) /\ Len(g) = IF 1 <= n THEN n - 1 + 1 ELSE 0
      /\ \A k \in 1 .. n - 1 + 1 : g[k] = f[1 + k - 1]
  BY <1>1, SubSeqProperties
<1>. HIDE DEF g
<1>3. ASSUME NEW k \in 1 .. n PROVE g[k] = f[k]
  <2>1. k \in 1 .. n - 1 + 1 /\ 1 + k - 1 = k
    OBVIOUS
  <2>. QED BY <1>2, <2>1
<1>4. g = Front(f)
  BY DEF g, Front
<1>. QED BY <1>2, <1>3, <1>4

LEMMA EditedSlot ==
    ASSUME NEW r \in SlotType, NEW d
    PROVE  /\ [r EXCEPT !.live = d] = [rec |-> r.rec, gen |-> r.gen, live |-> d]
           /\ [r EXCEPT !.rec = d] = [rec |-> d, gen |-> r.gen, live |-> r.live]
BY DEF SlotType

\* What a record that is put into the map finds and leaves.
Placed(h, rec) ==
    /\ SlotsOK' /\ (\A p : Gone(p) => Gone(p)')
    /\ h \in Handles /\ h.gen > 0 /\ h.idx \in Indices /\ h.idx \notin Live /\ ~Gone(h)
    /\ Live' = Live \union {h.idx}
    /\ At(h.idx)' = [rec |-> rec, gen |-> h.gen, live |-> TRUE]
    /\ \A i \in Live : At(i)' = At(i)
LEMMA Inserted ==
    ASSUME SlotsOK, ~DomainFull, NEW h, h = NextHandle, NEW rec \in RecType, Insert(rec)
    PROVE  Placed(h, rec)
<1>. PICK n \in Nat : n = Count
  BY SlotFacts
<1>. DEFINE slots == textures.slots
            free == textures.free
            S == [rec |-> rec, gen |-> h.gen, live |-> TRUE]
<1>1. CASE ~Reused
  <2>1. h = Handle(n, 1) /\ h.idx = n /\ h.gen = 1 /\ n < TexSlots
    BY <1>1, SlotFacts, AssetsAssumption DEF DomainFull, NextHandle, Handle
  <2>2. textures' = [slots |-> Append(slots, S), free |-> free]
    BY <1>1, <2>1, SlotFacts DEF Insert
  <2>3. S \in SlotType
    BY <2>1, AssetsAssumption DEF SlotType
  <2>4. /\ Append(slots, S) \in Seq(SlotType) /\ Len(Append(slots, S)) = n + 1
        /\ \A i \in 1 .. n : Append(slots, S)[i] = slots[i]
        /\ Append(slots, S)[n + 1] = S
    BY <2>3, SlotFacts, AppendProperties DEF Count
  <2>5. textures'.slots = Append(slots, S) /\ textures'.free = free
    BY <2>2
  <2>. HIDE DEF S
  <2>6. Count' = n + 1 /\ Free' = Free
    BY <2>4, <2>5 DEF Count, Free
  <2>7. At(n)' = S /\ \A i \in 0 .. n - 1 : At(i)' = At(i)
    <3>1. At(n)' = S
      BY <2>4, <2>5 DEF At
    <3>2. ASSUME NEW i \in 0 .. n - 1 PROVE At(i)' = At(i)
      <4>1. i + 1 \in 1 .. n
        OBVIOUS
      <4>. QED BY <2>4, <2>5, <4>1 DEF At
    <3>. QED BY <3>1, <3>2
  <2>8. S.rec = rec /\ S.gen = 1 /\ S.live = TRUE
    BY <2>1 DEF S
  <2>9. SlotsOK'
    <3>1. textures' \in [slots : Seq(SlotType), free : Seq(Nat)] /\ Count' <= TexSlots
      <4>1. n + 1 <= TexSlots
        BY <2>1, AssetsAssumption
      <4>. QED BY <2>2, <2>4, <2>6, <4>1, SlotFacts DEF S
    <3>2. \A j, k \in 1 .. Len(textures'.free) : textures'.free[j] = textures'.free[k] => j = k
      BY <2>5 DEF SlotsOK
    <3>3. \A i \in Free' : i \in 0 .. Count' - 1 /\ ~At(i)'.live
      BY <2>6, <2>7, SlotFacts DEF SlotsOK
    <3>4. \A i \in 0 .. Count' - 1 : At(i)'.live \/ i \in Free' \/ At(i)'.gen = GenMax
      <4>1. SUFFICES ASSUME NEW i \in 0 .. Count' - 1
                     PROVE  At(i)'.live \/ i \in Free' \/ At(i)'.gen = GenMax
        OBVIOUS
      <4>2. CASE i = n
        BY <2>7, <2>8, <4>2
      <4>3. CASE i # n
        <5>1. i \in 0 .. n - 1
          BY <2>6, <4>3
        <5>. QED BY <2>6, <2>7, <5>1 DEF SlotsOK
      <4>. QED BY <4>2, <4>3
    <3>. QED BY <3>1, <3>2, <3>3, <3>4 DEF SlotsOK
  <2>10. ASSUME NEW p, Gone(p) PROVE Gone(p)'
    <3>1. p.idx \in 0 .. n - 1 /\ p.idx < Count'
      BY <2>6, <2>10, SlotFacts DEF Gone, Handles
    <3>. QED BY <2>6, <2>7, <2>10, <3>1 DEF Gone
  <2>11. Live' = Live \union {n}
    <3>1. ASSUME NEW i PROVE i \in Live' <=> i \in Live \/ i = n
      <4>1. CASE i \in 0 .. n - 1
        BY <2>6, <2>7, <4>1 DEF Live
      <4>2. CASE i \notin 0 .. n - 1
        BY <2>6, <2>7, <2>8, <4>2 DEF Live
      <4>. QED BY <4>1, <4>2
    <3>. QED BY <3>1
  <2>12. /\ h \in Handles /\ h.gen > 0 /\ n \in Indices /\ n \notin Live /\ ~Gone(h)
    BY <2>1, SlotFacts, AssetsAssumption DEF Handles, Handle, Indices, Live, Gone
  <2>13. \A i \in Live : At(i)' = At(i)
    BY <2>7 DEF Live
  <2>. QED BY <2>1, <2>7, <2>9, <2>10, <2>11, <2>12, <2>13 DEF Placed, S
<1>2. CASE Reused
  <2>. PICK i : i = Last(free)
    OBVIOUS
  <2>. DEFINE T == [rec |-> rec, gen |-> At(i).gen, live |-> TRUE]
  <2>1. /\ Len(free) > 0 /\ i = free[Len(free)] /\ i \in Free
        /\ i \in 0 .. n - 1 /\ ~At(i).live /\ i \in Nat
    BY <1>2, SlotFacts DEF Reused, Free, SlotsOK, Last
  <2>2. h = Handle(i, At(i).gen) /\ h.idx = i /\ h.gen = At(i).gen
    BY <1>2 DEF NextHandle, Handle
  <2>3. textures' = [slots |-> [slots EXCEPT ![i + 1] = T], free |-> Front(free)]
    <3>1. slots[i + 1] = At(i) /\ slots[i + 1] \in SlotType /\ i + 1 \in 1 .. Len(slots)
      BY <2>1, SlotFacts DEF At
    <3>2. textures' = [slots |-> [[slots EXCEPT ![i + 1].rec = rec] EXCEPT ![i + 1].live = TRUE], free |-> Front(free)]
      BY <1>2, <2>2 DEF Insert
    <3>. DEFINE r == [slots[i + 1] EXCEPT !.rec = rec]
                f == [slots EXCEPT ![i + 1] = r]
    <3>3. r \in SlotType
      BY <3>1 DEF SlotType
    <3>4. [r EXCEPT !.live = TRUE] = T
      <4>1. r = [rec |-> rec, gen |-> At(i).gen, live |-> At(i).live]
        BY <3>1, EditedSlot
      <4>2. r.rec = rec /\ r.gen = At(i).gen
        BY <4>1
      <4>. HIDE DEF r
      <4>3. [r EXCEPT !.live = TRUE] = [rec |-> r.rec, gen |-> r.gen, live |-> TRUE]
        BY <3>3, EditedSlot
      <4>. QED BY <4>2, <4>3, Zenon
    <3>. HIDE DEF r, T
    <3>5. f \in Seq(SlotType) /\ f[i + 1] = r
      BY <3>1, <3>3, SlotFacts, ExceptSeq
    <3>6. [f EXCEPT ![i + 1].live = TRUE] = [slots EXCEPT ![i + 1] = T]
      BY <3>1, <3>4, <3>5
    <3>. QED BY <3>2, <3>6 DEF r
  <2>4. T \in SlotType /\ T.rec = rec /\ T.live = TRUE /\ T.gen = At(i).gen
    BY <2>1, SlotFacts DEF SlotType
  <2>. HIDE DEF T
  <2>. DEFINE s == [slots EXCEPT ![i + 1] = T]
              g == Front(free)
  <2>5. /\ s \in Seq(SlotType) /\ Len(s) = n /\ s[i + 1] = T
        /\ \A j \in 1 .. n : j # i + 1 => s[j] = slots[j]
    BY <2>1, <2>4, SlotFacts, ExceptSeq DEF Count
  <2>6. /\ g \in Seq(Nat) /\ Len(g) = Len(free) - 1 /\ \A k \in 1 .. Len(free) - 1 : g[k] = free[k]
    BY <2>1, SlotFacts, FrontFacts
  <2>7. textures'.slots = s /\ textures'.free = g
    BY <2>3
  <2>. HIDE DEF s, g
  <2>8. Count' = n
    BY <2>5, <2>7 DEF Count
  <2>9. Free' = Free \ {i}
    <3>1. ASSUME NEW x PROVE x \in Free' <=> x \in Free /\ x # i
      <4>1. ASSUME x \in Free' PROVE x \in Free /\ x # i
        <5>1. PICK k \in 1 .. Len(free) - 1 : x = free[k]
          BY <2>6, <2>7, <4>1 DEF Free
        <5>2. k \in 1 .. Len(free) /\ Len(free) \in 1 .. Len(free) /\ k # Len(free)
          BY <2>1, <5>1, SlotFacts
        <5>. QED BY <2>1, <5>1, <5>2 DEF Free, SlotsOK
      <4>2. ASSUME x \in Free, x # i PROVE x \in Free'
        <5>1. PICK k \in 1 .. Len(free) : x = free[k]
          BY <4>2 DEF Free
        <5>2. k \in 1 .. Len(free) - 1
          BY <2>1, <4>2, <5>1, SlotFacts
        <5>. QED BY <2>6, <2>7, <5>1, <5>2 DEF Free
      <4>. QED BY <4>1, <4>2
    <3>. QED BY <3>1
  <2>10. At(i)' = T /\ \A j \in 0 .. n - 1 : j # i => At(j)' = At(j)
    <3>1. At(i)' = T
      BY <2>5, <2>7 DEF At
    <3>2. ASSUME NEW j \in 0 .. n - 1, j # i PROVE At(j)' = At(j)
      <4>1. j + 1 \in 1 .. n /\ j + 1 # i + 1
        BY <2>1, <3>2
      <4>. QED BY <2>5, <2>7, <4>1 DEF At
    <3>. QED BY <3>1, <3>2
  <2>11. SlotsOK'
    <3>1. textures' \in [slots : Seq(SlotType), free : Seq(Nat)] /\ Count' <= TexSlots
      BY <2>3, <2>5, <2>6, <2>8, SlotFacts DEF s, g
    <3>2. ASSUME NEW j \in 1 .. Len(g), NEW k \in 1 .. Len(g), g[j] = g[k] PROVE j = k
      <4>1. j \in 1 .. Len(free) /\ k \in 1 .. Len(free) /\ free[j] = free[k]
        <5>1. j \in 1 .. Len(free) - 1 /\ k \in 1 .. Len(free) - 1
          BY <2>6
        <5>2. j \in 1 .. Len(free) /\ k \in 1 .. Len(free)
          BY <5>1, SlotFacts
        <5>3. g[j] = free[j] /\ g[k] = free[k]
          BY <2>6, <5>1
        <5>. QED BY <3>2, <5>2, <5>3
      <4>. QED BY <4>1 DEF SlotsOK
    <3>3. \A x \in Free' : x \in 0 .. Count' - 1 /\ ~At(x)'.live
      BY <2>8, <2>9, <2>10 DEF SlotsOK
    <3>4. \A x \in 0 .. Count' - 1 : At(x)'.live \/ x \in Free' \/ At(x)'.gen = GenMax
      <4>1. SUFFICES ASSUME NEW x \in 0 .. n - 1
                     PROVE  At(x)'.live \/ x \in Free' \/ At(x)'.gen = GenMax
        BY <2>8
      <4>2. CASE x = i
        BY <2>4, <2>10, <4>2
      <4>3. CASE x # i
        BY <2>9, <2>10, <4>3 DEF SlotsOK
      <4>. QED BY <4>2, <4>3
    <3>. QED BY <2>7, <3>1, <3>2, <3>3, <3>4 DEF SlotsOK
  <2>12. ASSUME NEW p, Gone(p) PROVE Gone(p)'
    <3>1. p.idx \in 0 .. n - 1 /\ p.idx < Count' /\ p \in Handles
      BY <2>8, <2>12, SlotFacts DEF Gone, Handles
    <3>2. CASE p.idx = i
      BY <2>1, <2>4, <2>10, <2>12, <3>1, <3>2 DEF Gone
    <3>3. CASE p.idx # i
      BY <2>9, <2>10, <2>12, <3>1, <3>3 DEF Gone
    <3>. QED BY <3>2, <3>3
  <2>13. Live' = Live \union {i}
    <3>1. ASSUME NEW x PROVE x \in Live' <=> x \in Live \/ x = i
      <4>1. CASE x = i
        BY <2>1, <2>4, <2>8, <2>10, <4>1 DEF Live
      <4>2. CASE x # i
        BY <2>8, <2>10, <4>2 DEF Live
      <4>. QED BY <4>1, <4>2
    <3>. QED BY <3>1
  <2>14. h \in Handles /\ h.gen > 0 /\ i \in Indices /\ i \notin Live /\ ~Gone(h)
    BY <2>1, <2>2, SlotFacts DEF Live, Gone
  <2>15. \A x \in Live : At(x)' = At(x)
    BY <2>1, <2>10 DEF Live
  <2>16. At(i)' = [rec |-> rec, gen |-> h.gen, live |-> TRUE]
    BY <2>2, <2>10 DEF T
  <2>. QED BY <2>2, <2>11, <2>12, <2>13, <2>14, <2>15, <2>16 DEF Placed
<1>. QED BY <1>1, <1>2

\* What a record that is removed leaves.
Vacant(i, h) ==
    /\ SlotsOK' /\ (\A p : Gone(p) => Gone(p)') /\ Gone(h)'
    /\ Live' = Live \ {i}
    /\ \A j \in Live \ {i} : At(j)' = At(j)
LEMMA Vacated ==
    ASSUME SlotsOK, NEW i \in Live, NEW h, h = Handle(i, At(i).gen), Vacate(h)
    PROVE  Vacant(i, h)
<1>. PICK n \in Nat : n = Count
  BY SlotFacts
<1>. PICK g \in Nat : g = At(i).gen
  BY SlotFacts DEF Live
<1>. PICK m \in Nat : m = IF g = GenMax THEN g ELSE g + 1
  OBVIOUS
<1>. DEFINE slots == textures.slots
            free == textures.free
            T == [rec |-> NoRec, gen |-> m, live |-> FALSE]
            s == [slots EXCEPT ![i + 1] = T]
            f == IF g = GenMax THEN free ELSE Append(free, i)
<1>1. i \in 0 .. n - 1 /\ At(i).live /\ i \notin Free /\ g \in 1 .. GenMax /\ i \in Nat
  BY SMTT(40), SlotFacts DEF Live, SlotsOK, SlotType
<1>2. h.idx = i /\ h.gen = g /\ h = [idx |-> i, gen |-> g]
  BY DEF Handle
<1>3. textures' = [slots |-> s, free |-> f]
  BY <1>2 DEF Vacate
<1>4. T \in SlotType /\ T.gen = m /\ ~T.live
  <2>1. NoRec \in RecType
    BY DEF NoRec, RecType, Handles, Null
  <2>2. m \in 1 .. GenMax
    BY <1>1, AssetsAssumption
  <2>. QED BY <2>1, <2>2 DEF SlotType
<1>. HIDE DEF T
<1>5. /\ s \in Seq(SlotType) /\ Len(s) = n /\ s[i + 1] = T
      /\ \A j \in 1 .. n : j # i + 1 => s[j] = slots[j]
  BY <1>1, <1>4, SlotFacts, ExceptSeq DEF Count
<1>6. /\ f \in Seq(Nat) /\ Len(f) = (IF g = GenMax THEN Len(free) ELSE Len(free) + 1)
      /\ \A k \in 1 .. Len(free) : f[k] = free[k]
      /\ g # GenMax => f[Len(free) + 1] = i
  BY <1>1, SlotFacts, AppendProperties
<1>7. textures'.slots = s /\ textures'.free = f
  BY <1>3
<1>. HIDE DEF s, f
<1>8. Count' = n
  BY <1>5, <1>7 DEF Count
<1>9. ASSUME NEW x PROVE x \in Free' <=> x \in Free \/ (x = i /\ g # GenMax)
  <2>1. ASSUME x \in Free' PROVE x \in Free \/ (x = i /\ g # GenMax)
    <3>1. PICK k \in 1 .. Len(f) : x = f[k]
      BY <1>7, <2>1 DEF Free
    <3>2. CASE k \in 1 .. Len(free)
      BY <1>6, <3>1, <3>2 DEF Free
    <3>3. CASE k \notin 1 .. Len(free)
      BY <1>6, <3>1, <3>3, SlotFacts
    <3>. QED BY <3>2, <3>3
  <2>2. ASSUME x \in Free PROVE x \in Free'
    <3>1. PICK k \in 1 .. Len(free) : x = free[k]
      BY <2>2 DEF Free
    <3>2. k \in 1 .. Len(f)
      BY <1>6, SlotFacts
    <3>. QED BY <1>6, <1>7, <3>1, <3>2 DEF Free
  <2>3. ASSUME g # GenMax PROVE i \in Free'
    <3>1. Len(free) + 1 \in 1 .. Len(f)
      BY <1>6, <2>3, SlotFacts
    <3>. QED BY <1>6, <1>7, <2>3, <3>1 DEF Free
  <2>. QED BY <2>1, <2>2, <2>3
<1>10. At(i)' = T /\ \A j \in 0 .. n - 1 : j # i => At(j)' = At(j)
  <2>1. At(i)' = T
    BY <1>5, <1>7 DEF At
  <2>2. ASSUME NEW j \in 0 .. n - 1, j # i PROVE At(j)' = At(j)
    <3>1. j + 1 \in 1 .. n /\ j + 1 # i + 1
      BY <1>1, <2>2
    <3>. QED BY <1>5, <1>7, <3>1 DEF At
  <2>. QED BY <2>1, <2>2
<1>11. SlotsOK'
  <2>1. textures' \in [slots : Seq(SlotType), free : Seq(Nat)] /\ Count' <= TexSlots
    BY <1>3, <1>5, <1>6, <1>8, SlotFacts
  <2>2. ASSUME NEW j \in 1 .. Len(f), NEW k \in 1 .. Len(f), f[j] = f[k] PROVE j = k
    <3>1. \A x \in 1 .. Len(free) : free[x] \in Free
      BY DEF Free
    <3>2. CASE j \in 1 .. Len(free) /\ k \in 1 .. Len(free)
      BY <1>6, <2>2, <3>2 DEF SlotsOK
    <3>3. CASE j \notin 1 .. Len(free) /\ k \in 1 .. Len(free)
      <4>1. f[k] \in Free
        BY <1>6, <3>1, <3>3
      <4>2. f[j] = i
        BY <1>6, <3>3, SlotFacts
      <4>. QED BY <1>1, <2>2, <4>1, <4>2
    <3>4. CASE j \in 1 .. Len(free) /\ k \notin 1 .. Len(free)
      <4>1. f[j] \in Free
        BY <1>6, <3>1, <3>4
      <4>2. f[k] = i
        BY <1>6, <3>4, SlotFacts
      <4>. QED BY <1>1, <2>2, <4>1, <4>2
    <3>5. CASE j \notin 1 .. Len(free) /\ k \notin 1 .. Len(free)
      BY <1>6, <3>5, SlotFacts
    <3>. QED BY <3>2, <3>3, <3>4, <3>5
  <2>3. \A x \in Free' : x \in 0 .. Count' - 1 /\ ~At(x)'.live
    BY <1>1, <1>4, <1>8, <1>9, <1>10 DEF SlotsOK
  <2>4. \A x \in 0 .. Count' - 1 : At(x)'.live \/ x \in Free' \/ At(x)'.gen = GenMax
    <3>1. SUFFICES ASSUME NEW x \in 0 .. n - 1
                   PROVE  At(x)'.live \/ x \in Free' \/ At(x)'.gen = GenMax
      BY <1>8
    <3>2. CASE x = i
      BY <1>4, <1>9, <1>10, <3>2
    <3>3. CASE x # i
      BY <1>9, <1>10, <3>3 DEF SlotsOK
    <3>. QED BY <3>2, <3>3
  <2>. QED BY <1>7, <2>1, <2>2, <2>3, <2>4 DEF SlotsOK
<1>12. ASSUME NEW p, Gone(p) PROVE Gone(p)'
  <2>1. p.idx \in 0 .. n - 1 /\ p.idx < Count' /\ p \in Handles
    BY <1>8, <1>12, SlotFacts DEF Gone, Handles
  <2>2. CASE p.idx = i
    <3>1. p.gen \in Nat /\ p.gen < g
      BY <1>1, <1>12, <2>1, <2>2 DEF Gone, Handles
    <3>2. p.gen < m
      BY <3>1
    <3>. QED BY <1>4, <1>10, <2>1, <2>2, <3>2 DEF Gone
  <2>3. CASE p.idx # i
    BY <1>9, <1>10, <1>12, <2>1, <2>3 DEF Gone
  <2>. QED BY <2>2, <2>3
<1>13. Gone(h)'
  <2>1. h \in Handles /\ h.idx < Count'
    BY <1>1, <1>2, <1>8, SlotFacts DEF Handles
  <2>2. CASE g = GenMax
    BY <1>1, <1>2, <1>4, <1>9, <1>10, <2>1, <2>2 DEF Gone
  <2>3. CASE g # GenMax
    BY <1>2, <1>4, <1>10, <2>1, <2>3 DEF Gone
  <2>. QED BY <2>2, <2>3
<1>14. ASSUME NEW x PROVE x \in Live' <=> x \in Live /\ x # i
  <2>1. CASE x = i
    BY <1>4, <1>8, <1>10, <2>1 DEF Live
  <2>2. CASE x # i
    BY <1>8, <1>10, <2>2 DEF Live
  <2>. QED BY <2>1, <2>2
<1>15. \A j \in Live \ {i} : At(j)' = At(j)
  BY <1>10 DEF Live
<1>. QED BY <1>11, <1>12, <1>13, <1>14, <1>15 DEF Vacant

\* What a record whose holders are counted anew leaves.
Recounted(i, c) ==
    /\ SlotsOK' /\ (\A p : Gone(p) => Gone(p)')
    /\ Live' = Live
    /\ \A j \in Live : At(j)'.gen = At(j).gen
    /\ \A j \in Live \ {i} : At(j)' = At(j)
    /\ At(i)'.rec.refcount = c /\ At(i)'.rec.name = At(i).rec.name
    /\ At(i)'.rec.kind = At(i).rec.kind /\ At(i)'.rec.dev = At(i).rec.dev
LEMMA RecountedSlot ==
    ASSUME SlotsOK, NEW i \in Live, NEW c \in Int,
           textures' = [textures EXCEPT !.slots[i + 1].rec.refcount = c]
    PROVE  Recounted(i, c)
<1>. PICK n \in Nat : n = Count
  BY SlotFacts
<1>. DEFINE slots == textures.slots
            T == [slots[i + 1] EXCEPT !.rec.refcount = c]
            s == [slots EXCEPT ![i + 1] = T]
<1>1. i \in 0 .. n - 1 /\ At(i).live /\ i \in Nat /\ slots[i + 1] = At(i) /\ At(i) \in SlotType
  BY SlotFacts DEF Live, At
<1>2. textures' = [slots |-> s, free |-> textures.free]
  BY SlotFacts
<1>3. /\ T \in SlotType /\ T.gen = At(i).gen /\ T.live = At(i).live
      /\ T.rec.refcount = c /\ T.rec.name = At(i).rec.name
      /\ T.rec.kind = At(i).rec.kind /\ T.rec.dev = At(i).rec.dev
  BY <1>1 DEF SlotType, RecType
<1>. HIDE DEF T
<1>4. /\ s \in Seq(SlotType) /\ Len(s) = n /\ s[i + 1] = T
      /\ \A j \in 1 .. n : j # i + 1 => s[j] = slots[j]
  BY <1>1, <1>3, SlotFacts, ExceptSeq DEF Count
<1>5. textures'.slots = s /\ textures'.free = textures.free
  BY <1>2
<1>. HIDE DEF s
<1>6. Count' = n /\ Free' = Free
  BY <1>4, <1>5 DEF Count, Free
<1>7. At(i)' = T /\ \A j \in 0 .. n - 1 : j # i => At(j)' = At(j)
  <2>1. At(i)' = T
    BY <1>4, <1>5 DEF At
  <2>2. ASSUME NEW j \in 0 .. n - 1, j # i PROVE At(j)' = At(j)
    <3>1. j + 1 \in 1 .. n /\ j + 1 # i + 1
      BY <1>1, <2>2
    <3>. QED BY <1>4, <1>5, <3>1 DEF At
  <2>. QED BY <2>1, <2>2
<1>8. \A j \in 0 .. n - 1 : At(j)'.gen = At(j).gen /\ (At(j)'.live <=> At(j).live)
  BY <1>3, <1>7
<1>9. Live' = Live
  BY <1>6, <1>8 DEF Live
<1>10. SlotsOK'
  <2>1. textures' \in [slots : Seq(SlotType), free : Seq(Nat)] /\ Count' <= TexSlots
    <3>1. textures'.slots \in Seq(SlotType) /\ textures'.free \in Seq(Nat) /\ n <= TexSlots
      BY <1>4, <1>5, SlotFacts
    <3>. QED BY <1>2, <1>5, <1>6, <3>1
  <2>. QED BY <1>5, <1>6, <1>8, <2>1 DEF SlotsOK
<1>11. ASSUME NEW p, Gone(p) PROVE Gone(p)'
  <2>1. p.idx \in 0 .. n - 1 /\ p.idx < Count'
    BY <1>6, <1>11, SlotFacts DEF Gone, Handles
  <2>. QED BY <1>6, <1>8, <1>11, <2>1 DEF Gone
<1>12. Live \subseteq 0 .. n - 1
  BY DEF Live
<1>. QED BY <1>3, <1>7, <1>8, <1>9, <1>10, <1>11, <1>12 DEF Recounted

-----------------------------------------------------------------------------
(* The device.                                                             *)

TexType == [alive : BOOLEAN, gen : 0 .. GenMax, usage : Usages]
DeviceType == [tex : [Indices -> TexType], live : Int, room : Int]

LEMMA DeviceFacts ==
    ASSUME NEW d, NEW owned, NEW n, DeviceOK(d, owned, n)
    PROVE  /\ d \in DeviceType /\ d.tex \in [Indices -> TexType] /\ d.live \in Int /\ d.room \in Int
           /\ \A x \in Indices : d.tex[x] \in TexType /\ d.tex[x].gen \in Nat /\ d.tex[x].alive \in BOOLEAN
           /\ Indices \subseteq Nat
<1>1. d \in DeviceType
  BY DEF DeviceOK, DeviceType, TexType
<1>2. d.tex \in [Indices -> TexType] /\ d.live \in Int /\ d.room \in Int
  BY <1>1 DEF DeviceType
<1>3. Indices \subseteq Nat
  BY AssetsAssumption DEF Indices
<1>4. ASSUME NEW x \in Indices
      PROVE  d.tex[x] \in TexType /\ d.tex[x].gen \in Nat /\ d.tex[x].alive \in BOOLEAN
  <2>1. d.tex[x] \in TexType
    BY <1>2
  <2>2. d.tex[x].gen \in 0 .. GenMax /\ d.tex[x].alive \in BOOLEAN
    BY <2>1 DEF TexType
  <2>. QED BY <2>1, <2>2, AssetsAssumption
<1>. QED BY <1>1, <1>2, <1>3, <1>4

LEMMA DeviceNext ==
    ASSUME NEW e, NEW owned, NEW n, DeviceOK(e, owned, n), device' = e, OwnedTex' = owned, Owners' = n
    PROVE  DeviceOK(device, OwnedTex, Owners)'
BY Zenon DEF DeviceOK

\* One texture more, with an owner, or one the less.
Retextured(d, e, i, t, l) ==
    /\ e \in DeviceType /\ t \in TexType
    /\ e.tex[i] = t /\ (\A x \in Indices \ {i} : e.tex[x] = d.tex[x])
    /\ e.live = l

LEMMA CreatedFor ==
    ASSUME NEW d, NEW e, NEW owned, NEW n \in Int, NEW i \in Indices, NEW h, NEW t,
           DeviceOK(d, owned, n), ~d.tex[i].alive, Retextured(d, e, i, t, n + 1),
           t.alive, t.gen = h.gen, h.idx = i, h \in Handles, h.gen > 0
    PROVE  h \notin owned /\ DeviceOK(e, owned \union {h}, n + 1)
<1>1. h \notin owned /\ \A k \in owned : k.idx # i
  BY DEF DeviceOK
<1>2. e \in DeviceType /\ e.live = n + 1 /\ e.tex[i] = t /\ \A x \in Indices \ {i} : e.tex[x] = d.tex[x]
  BY DEF Retextured
<1>3. \A k \in owned \union {h} :
         k.idx \in Indices /\ e.tex[k.idx].alive /\ e.tex[k.idx].gen = k.gen /\ k.gen > 0
  BY <1>1, <1>2 DEF DeviceOK
<1>4. \A x \in Indices : e.tex[x].alive => Handle(x, e.tex[x].gen) \in owned \union {h}
  <2>1. Handle(i, t.gen) = h
    BY DEF Handle, Handles
  <2>. QED BY <1>2, <2>1 DEF DeviceOK
<1>5. owned \union {h} \subseteq Handles
  BY DEF DeviceOK
<1>. QED BY <1>1, <1>2, <1>3, <1>4, <1>5 DEF DeviceOK, DeviceType, TexType

LEMMA DestroyedOf ==
    ASSUME NEW d, NEW e, NEW owned, NEW n \in Int, NEW h \in owned, NEW t,
           DeviceOK(d, owned, n), Retextured(d, e, h.idx, t, n - 1), ~t.alive
    PROVE  DeviceOK(e, owned \ {h}, n - 1)
<1>1. h \in Handles /\ h.idx \in Indices /\ d.tex[h.idx].gen = h.gen
  BY DEF DeviceOK
<1>2. /\ e \in DeviceType /\ e.live = n - 1 /\ e.tex[h.idx] = t
      /\ \A x \in Indices \ {h.idx} : e.tex[x] = d.tex[x]
  BY DEF Retextured
<1>3. \A k \in owned \ {h} : k.idx \in Indices \ {h.idx}
  <2>1. SUFFICES ASSUME NEW k \in owned, k.idx = h.idx PROVE k = h
    BY DEF DeviceOK
  <2>2. k.gen = h.gen /\ k \in Handles
    BY <1>1, <2>1 DEF DeviceOK
  <2>. QED BY <1>1, <2>1, <2>2 DEF Handles
<1>4. \A k \in owned \ {h} :
         k.idx \in Indices /\ e.tex[k.idx].alive /\ e.tex[k.idx].gen = k.gen /\ k.gen > 0
  BY <1>2, <1>3 DEF DeviceOK
<1>5. ASSUME NEW x \in Indices, e.tex[x].alive PROVE Handle(x, e.tex[x].gen) \in owned \ {h}
  <2>1. x # h.idx /\ e.tex[x] = d.tex[x]
    BY <1>2, <1>5
  <2>2. Handle(x, e.tex[x].gen).idx = x
    BY DEF Handle
  <2>. QED BY <1>5, <2>1, <2>2 DEF DeviceOK
<1>6. owned \ {h} \subseteq Handles
  BY DEF DeviceOK
<1>. QED BY <1>2, <1>4, <1>5, <1>6 DEF DeviceOK, DeviceType, TexType

LEMMA TriedOnly ==
    ASSUME NEW d, NEW e, NEW owned, NEW n \in Int, NEW i \in Indices, NEW t,
           DeviceOK(d, owned, n), ~d.tex[i].alive, Retextured(d, e, i, t, n), ~t.alive
    PROVE  DeviceOK(e, owned, n)
<1>1. \A k \in owned : k.idx \in Indices \ {i}
  BY DEF DeviceOK
<1>2. e \in DeviceType /\ e.live = n /\ e.tex[i] = t /\ \A x \in Indices \ {i} : e.tex[x] = d.tex[x]
  BY DEF Retextured
<1>3. \A k \in owned :
         k.idx \in Indices /\ e.tex[k.idx].alive /\ e.tex[k.idx].gen = k.gen /\ k.gen > 0
  BY <1>1, <1>2 DEF DeviceOK
<1>4. \A x \in Indices : e.tex[x].alive => Handle(x, e.tex[x].gen) \in owned
  BY <1>2 DEF DeviceOK
<1>5. owned \subseteq Handles
  BY DEF DeviceOK
<1>. QED BY <1>2, <1>3, <1>4, <1>5 DEF DeviceOK, DeviceType, TexType

LEMMA RetexturedAs ==
    ASSUME NEW d \in DeviceType, NEW i \in Indices, NEW t \in TexType, NEW l \in Int, NEW r \in Int, NEW e,
           e = [tex |-> [d.tex EXCEPT ![i] = t], live |-> l, room |-> r]
    PROVE  Retextured(d, e, i, t, l) /\ e.room = r
<1>1. d.tex \in [Indices -> TexType]
  BY DEF DeviceType
<1>. QED BY <1>1 DEF Retextured, DeviceType

\* What Destroyed does to the device, whosever the texture is.
LEMMA DestroyedFacts ==
    ASSUME NEW d, NEW owned, NEW n \in Int, DeviceOK(d, owned, n), NEW h \in owned
    PROVE  /\ DeviceOK(Destroyed(d, h), owned \ {h}, n - 1)
           /\ Destroyed(d, h).room = d.room
<1>. PICK i : i = h.idx
  OBVIOUS
<1>1. i \in Indices /\ d \in DeviceType /\ d.live = n /\ d.tex[i] \in TexType /\ d.room \in Int
  BY DeviceFacts DEF DeviceOK
<1>. DEFINE t == Freed(d.tex[i].gen, d.tex[i].usage)
            d1 == [d EXCEPT !.tex[i] = t]
            e == [tex |-> [d.tex EXCEPT ![i] = t], live |-> n - 1, room |-> d.room]
<1>2. t \in TexType /\ ~t.alive
  <2>1. d.tex[i].gen \in 0 .. GenMax /\ d.tex[i].usage \in Usages
    BY <1>1 DEF TexType
  <2>. QED BY <2>1, AssetsAssumption DEF TexType, Freed
<1>3. Destroyed(d, h) = [d1 EXCEPT !.live = n - 1]
  <2>1. Destroyed(d, h) = [d1 EXCEPT !.live = d1.live - 1]
    BY DEF Destroyed
  <2>2. d1.live = n
    BY <1>1 DEF DeviceType
  <2>. QED BY <2>1, <2>2
<1>. HIDE DEF t
<1>4. d1 = [tex |-> [d.tex EXCEPT ![i] = t], live |-> n, room |-> d.room]
  BY <1>1 DEF DeviceType
<1>5. d1 \in DeviceType /\ d1.tex = [d.tex EXCEPT ![i] = t] /\ d1.room = d.room
  BY <1>1, <1>2, <1>4 DEF DeviceType
<1>. HIDE DEF d1
<1>6. Destroyed(d, h) = e
  <2>1. [d1 EXCEPT !.live = n - 1] = [tex |-> d1.tex, live |-> n - 1, room |-> d1.room]
    BY <1>5 DEF DeviceType
  <2>. QED BY <1>3, <1>5, <2>1
<1>7. Retextured(d, e, i, t, n - 1) /\ e.room = d.room
  BY <1>1, <1>2, RetexturedAs
<1>. HIDE DEF e
<1>8. DeviceOK(e, owned \ {h}, n - 1)
  BY <1>2, <1>7, DestroyedOf
<1>. QED BY <1>6, <1>7, <1>8

\* A texture is made where none is alive.
LEMMA NextFacts ==
    ASSUME NEW d, NEW owned, NEW n, DeviceOK(d, owned, n), FreeTex(d) # {}, NEW h, h = NextTex(d)
    PROVE  /\ h.idx \in Indices /\ ~d.tex[h.idx].alive /\ h.gen \in 1 .. GenMax
           /\ h \in Handles /\ h.gen > 0 /\ h # Null
<1>. PICK i : i = Min(FreeTex(d))
  OBVIOUS
<1>1. FreeTex(d) \subseteq Nat
  BY DeviceFacts DEF FreeTex
<1>2. i \in FreeTex(d)
  BY <1>1, MinOf
<1>3. i \in Indices /\ ~d.tex[i].alive /\ i \in Nat
  BY <1>1, <1>2 DEF FreeTex
<1>4. d.tex[i].gen \in 0 .. GenMax
  BY <1>3, DeviceFacts DEF TexType
<1>5. PICK g \in 1 .. GenMax : h = [idx |-> i, gen |-> g]
  BY <1>4, AssetsAssumption DEF NextTex, Handle
<1>6. h.idx = i /\ h.gen = g /\ g \in Nat /\ g > 0
  BY <1>5, AssetsAssumption
<1>. QED BY <1>3, <1>5, <1>6 DEF Handles, Null

LEMMA MadeFacts ==
    ASSUME NEW d, NEW owned, NEW n \in Int, DeviceOK(d, owned, n), FreeTex(d) # {}, NEW h, h = NextTex(d),
           NEW usage \in Usages, NEW e, e = Made(d, h, usage)
    PROVE  h \notin owned /\ DeviceOK(e, owned \union {h}, n + 1)
<1>. DEFINE t == [alive |-> TRUE, gen |-> h.gen, usage |-> usage]
            d1 == [d EXCEPT !.tex[h.idx] = t]
            f == [tex |-> [d.tex EXCEPT ![h.idx] = t], live |-> n + 1, room |-> d.room]
<1>1. /\ h.idx \in Indices /\ ~d.tex[h.idx].alive /\ h.gen \in 1 .. GenMax
      /\ h \in Handles /\ h.gen > 0
  BY NextFacts
<1>2. t \in TexType /\ t.alive /\ t.gen = h.gen
  <2>1. h.gen \in 0 .. GenMax
    BY <1>1, AssetsAssumption
  <2>. QED BY <2>1 DEF TexType
<1>3. d \in DeviceType /\ d.live = n /\ d.room \in Int
  BY DeviceFacts DEF DeviceOK
<1>4. e = [d1 EXCEPT !.live = n + 1]
  BY <1>3 DEF Made, DeviceType
<1>. HIDE DEF t
<1>5. d1 = [tex |-> [d.tex EXCEPT ![h.idx] = t], live |-> n, room |-> d.room]
  BY <1>3 DEF DeviceType
<1>6. d1 \in DeviceType /\ d1.room = d.room /\ d1.tex = [d.tex EXCEPT ![h.idx] = t]
  BY <1>1, <1>2, <1>3, <1>5 DEF DeviceType
<1>. HIDE DEF d1
<1>7. e = f
  BY <1>4, <1>6 DEF DeviceType
<1>8. n + 1 \in Int
  OBVIOUS
<1>9. Retextured(d, e, h.idx, t, n + 1)
  BY <1>1, <1>2, <1>3, <1>7, <1>8, RetexturedAs
<1>. QED BY <1>1, <1>2, <1>9, CreatedFor

\* What streams besides takes a buffer from the platform's arena.
LEMMA CreateFacts ==
    ASSUME NEW owned, NEW n \in Int, DeviceOK(device, owned, n), FreeTex(device) # {},
           NEW usage \in Usages, NEW h, h = NextTex(device), Create(usage)
    PROVE  h \notin owned /\ DeviceOK(device', owned \union {h}, n + 1)
<1>. PICK d : d = device
  OBVIOUS
<1>. PICK e : e = Made(d, h, usage)
  OBVIOUS
<1>. DEFINE r == IF usage = "STREAMING" THEN e.room - 1 ELSE e.room
<1>1. DeviceOK(d, owned, n) /\ FreeTex(d) # {} /\ h = NextTex(d)
  OBVIOUS
<1>2. h \notin owned /\ DeviceOK(e, owned \union {h}, n + 1)
  BY <1>1, MadeFacts
<1>3. device' = [e EXCEPT !.room = r]
  BY DEF Create
<1>4. e \in DeviceType /\ e.room \in Int
  BY <1>2, DeviceFacts
<1>5. r \in Int
  BY <1>4
<1>. HIDE DEF r
<1>6. device' = [tex |-> e.tex, live |-> e.live, room |-> r]
  BY <1>3, <1>4 DEF DeviceType
<1>7. device' \in DeviceType /\ device'.tex = e.tex /\ device'.live = e.live
  BY <1>4, <1>5, <1>6 DEF DeviceType
<1>8. DeviceOK(device', owned \union {h}, n + 1)
  BY <1>2, <1>7 DEF DeviceOK, DeviceType, TexType
<1>. QED BY <1>2, <1>8

-----------------------------------------------------------------------------
(* The two together, step by step.                                         *)

LEMMA LiveCounted ==
    ASSUME SlotsOK
    PROVE  /\ Cardinality(Live) \in Int /\ Live \subseteq Nat
           /\ \A i : i \notin Live => Cardinality(Live \union {i}) = Cardinality(Live) + 1
           /\ \A i \in Live : Cardinality(Live \ {i}) = Cardinality(Live) - 1
<1>1. PICK n \in Nat : n = Count
  BY SlotFacts
<1>2. Live \subseteq 0 .. n - 1 /\ Live \subseteq Nat
  BY <1>1 DEF Live
<1>3. IsFiniteSet(Live)
  <2>1. IsFiniteSet(0 .. n - 1)
    BY FS_Interval
  <2>. QED BY <1>2, <2>1, FS_Subset
<1>. QED BY <1>2, <1>3, FS_CardinalityType, FS_AddElement, FS_RemoveElement

\* What a device that serves the same slots and target must answer for.
LEMMA OwnersFacts ==
    ASSUME AssetsIInv
    PROVE  /\ Owners \in Int /\ DeviceOK(device, OwnedTex, Owners)
           /\ Devs \subseteq Handles \ {Null} /\ OwnedTex \subseteq Handles /\ Devs \subseteq OwnedTex
<1>1. Owners \in Int
  BY LiveCounted DEF AssetsIInv, Owners
<1>2. OwnedTex \subseteq Handles /\ Devs \subseteq OwnedTex
  BY DEF AssetsIInv, DeviceOK, OwnedTex
<1>3. Null \notin Devs
  BY DEF AssetsIInv, Apart
<1>. QED BY <1>1, <1>2, <1>3 DEF AssetsIInv

\* A step that leaves the records alone.
LEMMA RecordsKept ==
    ASSUME AssetsIInv, UNCHANGED <<textures, by_name, holds, past>>
    PROVE  /\ SlotsOK' /\ PastOK' /\ HoldsOK' /\ NamesOK'
           /\ Devs' = Devs /\ Live' = Live /\ Count' = Count
           /\ \A i : At(i)' = At(i)
<1>1. /\ textures' = textures /\ by_name' = by_name /\ holds' = holds /\ past' = past
  OBVIOUS
<1>2. Count' = Count /\ Free' = Free /\ \A i : At(i)' = At(i)
  BY <1>1 DEF Count, Free, At
<1>3. Live' = Live
  BY <1>2 DEF Live
<1>4. Devs' = Devs
  BY <1>2, <1>3 DEF Devs
<1>5. SlotsOK'
  BY <1>1, <1>2 DEF AssetsIInv, SlotsOK
<1>6. PastOK'
  BY <1>1, <1>2 DEF AssetsIInv, PastOK, Gone
<1>7. HoldsOK'
  BY <1>1, <1>2, <1>3 DEF AssetsIInv, HoldsOK
<1>8. NamesOK'
  BY <1>1, <1>2, <1>3 DEF AssetsIInv, NamesOK
<1>. QED BY <1>2, <1>3, <1>4, <1>5, <1>6, <1>7, <1>8

LEMMA Refuses ==
    ASSUME AssetsIInv, ~exhausted, NEW e, Refuse(e), e = "ASSET_LIMIT" => DomainFull
    PROVE  AssetsIInv'
<1>1. /\ SlotsOK' /\ PastOK' /\ HoldsOK' /\ NamesOK'
      /\ Devs' = Devs /\ Live' = Live /\ Count' = Count /\ \A i : At(i)' = At(i)
  BY RecordsKept DEF Refuse
<1>2. device' = device /\ target_tex' = target_tex /\ exhausted' = exhausted /\ asset_reply' = e
  BY DEF Refuse
<1>3. OwnedTex' = OwnedTex /\ Owners' = Owners
  BY <1>1, <1>2 DEF OwnedTex, Owners
<1>4. DeviceOK(device, OwnedTex, Owners)'
  BY <1>2, <1>3 DEF AssetsIInv, DeviceOK
<1>5. Apart'
  BY <1>1, <1>2 DEF AssetsIInv, Apart
<1>6. Answered'
  <2>1. ASSUME e = "ASSET_LIMIT", NEW i \in Indices PROVE i \in Live \/ (i < Count /\ At(i).gen = GenMax)
    <3>1. textures.free = <<>> /\ Count >= TexSlots
      BY <2>1 DEF DomainFull, Reused
    <3>2. Free = {}
      BY <3>1 DEF Free
    <3>3. i \in 0 .. Count - 1 /\ i < Count
      BY <3>1, SlotFacts, AssetsAssumption DEF AssetsIInv, Indices
    <3>. QED BY <3>2, <3>3 DEF AssetsIInv, SlotsOK, Live
  <2>. QED BY <1>1, <1>2, <2>1 DEF Answered
<1>. QED BY <1>1, <1>4, <1>5, <1>6 DEF AssetsIInv

\* A new record, whose holder is the only one, of a new texture.
GrantLeaves(h, name, kind) ==
    /\ SlotsOK' /\ PastOK' /\ HoldsOK' /\ DeviceOK(device, OwnedTex, Owners)' /\ Apart'
    /\ h.idx \notin Live /\ Live' = Live \union {h.idx} /\ \A i \in Live : At(i)' = At(i)
    /\ h = Handle(h.idx, At(h.idx)'.gen)
    /\ At(h.idx)'.rec.name = name /\ At(h.idx)'.rec.kind = kind
LEMMA Grants ==
    ASSUME AssetsIInv, ~DomainFull, FreeTex(device) # {}, NEW usage \in Usages, Create(usage),
           NEW name \in Names \union {NoName}, NEW kind \in {"IMAGE", "STREAMING"}, Grant(name, kind),
           NEW h, h = NextHandle, UNCHANGED <<target_tex, past>>
    PROVE  GrantLeaves(h, name, kind)
<1>. PICK x : x = NextTex(device)
  OBVIOUS
<1>. PICK n \in Int : n = Owners
  BY OwnersFacts
<1>. DEFINE rec == [name |-> name, refcount |-> 1, dev |-> x, kind |-> kind]
<1>1. DeviceOK(device, OwnedTex, n)
  BY DEF AssetsIInv
<1>2. x \in Handles /\ x # Null /\ x \notin OwnedTex /\ DeviceOK(device', OwnedTex \union {x}, n + 1)
  <2>. PICK owned : owned = OwnedTex
    OBVIOUS
  <2>1. DeviceOK(device, owned, n)
    BY <1>1
  <2>. QED BY <2>1, CreateFacts, NextFacts
<1>3. rec \in RecType /\ rec.name = name /\ rec.kind = kind /\ rec.dev = x /\ rec.refcount = 1
  BY <1>2 DEF RecType
<1>4. Insert(rec) /\ holds' = With(holds, h, 1)
  BY DEF Grant
<1>. HIDE DEF rec
<1>5. SlotsOK
  BY DEF AssetsIInv
<1>6. Placed(h, rec)
  BY <1>3, <1>4, <1>5, Inserted
<1>7. /\ SlotsOK' /\ (\A p : Gone(p) => Gone(p)')
      /\ h \in Handles /\ h.gen > 0 /\ h.idx \notin Live /\ Live' = Live \union {h.idx}
      /\ At(h.idx)' = [rec |-> rec, gen |-> h.gen, live |-> TRUE]
      /\ \A i \in Live : At(i)' = At(i)
  BY <1>6 DEF Placed
<1>. PICK k : k = h.idx
  OBVIOUS
<1>8. At(k)'.rec = rec /\ At(k)'.gen = h.gen /\ h = Handle(k, h.gen)
  BY <1>7 DEF Handles, Handle
<1>9. PastOK'
  BY <1>7 DEF AssetsIInv, PastOK
<1>10. HoldsOK'
  <2>1. DOMAIN holds = {Handle(i, At(i).gen) : i \in Live} /\ \A i \in Live : At(i).rec.refcount = holds[Handle(i, At(i).gen)]
    BY DEF AssetsIInv, HoldsOK
  <2>2. h \notin DOMAIN holds
    BY <1>7, <2>1 DEF Handle
  <2>3. DOMAIN holds' = DOMAIN holds \union {h} /\ holds'[h] = 1 /\ \A p \in DOMAIN holds : holds'[p] = holds[p]
    BY <1>4, <2>2 DEF With
  <2>4. DOMAIN holds' = {Handle(i, At(i)'.gen) : i \in Live'}
    BY <1>7, <1>8, <2>1, <2>3
  <2>5. ASSUME NEW i \in Live' PROVE At(i)'.rec.refcount = holds'[Handle(i, At(i)'.gen)]
    <3>1. CASE i = k
      BY <1>3, <1>8, <2>3, <3>1
    <3>2. CASE i \in Live
      <4>1. At(i)' = At(i) /\ Handle(i, At(i).gen) \in DOMAIN holds
        BY <1>7, <2>1, <3>2
      <4>. QED BY <2>1, <2>3, <3>2, <4>1
    <3>. QED BY <1>7, <3>1, <3>2
  <2>. QED BY <2>4, <2>5 DEF HoldsOK
<1>11. Devs' = Devs \union {x}
  BY <1>3, <1>7, <1>8 DEF Devs
<1>12. OwnedTex' = OwnedTex \union {x} /\ x \notin Devs /\ target_tex # x
  BY <1>2, <1>11 DEF OwnedTex
<1>13. Owners' = n + 1
  <2>1. Cardinality(Live') = Cardinality(Live) + 1 /\ Cardinality(Live) \in Int
    BY <1>5, <1>7, LiveCounted
  <2>. QED BY <2>1 DEF Owners
<1>14. DeviceOK(device, OwnedTex, Owners)'
  BY <1>2, <1>12, <1>13 DEF DeviceOK
<1>15. Apart'
  <2>1. target_tex' \in Handles /\ target_tex' \notin Devs' /\ Null \notin Devs'
    BY <1>2, <1>11, <1>12 DEF AssetsIInv, Apart
  <2>2. ASSUME NEW i \in Live', NEW j \in Live', At(i)'.rec.dev = At(j)'.rec.dev PROVE i = j
    <3>1. \A l \in Live : At(l)'.rec.dev \in Devs /\ At(l)' = At(l)
      BY <1>7 DEF Devs
    <3>2. CASE i \in Live /\ j \in Live
      BY <2>2, <3>1, <3>2 DEF AssetsIInv, Apart
    <3>3. CASE i = k
      BY <1>3, <1>7, <1>8, <1>12, <2>2, <3>1, <3>3
    <3>4. CASE j = k
      BY <1>3, <1>7, <1>8, <1>12, <2>2, <3>1, <3>4
    <3>. QED BY <1>7, <3>2, <3>3, <3>4
  <2>. QED BY <2>1, <2>2 DEF Apart
<1>. QED BY <1>3, <1>7, <1>8, <1>9, <1>10, <1>14, <1>15 DEF GrantLeaves

LEMMA CreateStreamingStep ==
    ASSUME AssetsIInv, ~exhausted, NEW w, CreateStreaming(w) PROVE AssetsIInv'
<1>1. CASE w = 0
  BY <1>1, Refuses DEF CreateStreaming
<1>2. CASE w # 0 /\ DomainFull
  BY <1>2, Refuses DEF CreateStreaming
<1>3. CASE w # 0 /\ ~DomainFull /\ CreateError(w) # "OK"
  <2>1. Refuse(CreateError(w)) /\ CreateError(w) # "ASSET_LIMIT"
    BY <1>3 DEF CreateStreaming, CreateError
  <2>. QED BY <2>1, Refuses
<1>4. CASE w # 0 /\ ~DomainFull /\ CreateError(w) = "OK" /\ device.room = 0
  <2>1. UNCHANGED <<textures, by_name, device, target_tex, asset_reply, holds, past>>
    BY <1>4 DEF CreateStreaming
  <2>2. /\ SlotsOK' /\ PastOK' /\ HoldsOK' /\ NamesOK'
        /\ Devs' = Devs /\ Live' = Live /\ Count' = Count /\ \A i : At(i)' = At(i)
    BY <2>1, RecordsKept
  <2>3. OwnedTex' = OwnedTex /\ Owners' = Owners
    BY <2>1, <2>2 DEF OwnedTex, Owners
  <2>4. DeviceOK(device, OwnedTex, Owners)'
    BY <2>1, <2>3 DEF AssetsIInv, DeviceOK
  <2>5. Apart' /\ Answered'
    BY <1>4, <2>1, <2>2 DEF AssetsIInv, Apart, Answered
  <2>. QED BY <2>2, <2>4, <2>5 DEF AssetsIInv
<1>5. CASE w # 0 /\ ~DomainFull /\ CreateError(w) = "OK" /\ device.room # 0
  <2>. PICK h : h = NextHandle
    OBVIOUS
  <2>1. Create("STREAMING") /\ Grant(NoName, "STREAMING") /\ UNCHANGED <<by_name, target_tex, exhausted, past>>
    BY <1>5 DEF CreateStreaming
  <2>2. FreeTex(device) # {}
    BY <1>5 DEF CreateError
  <2>3. GrantLeaves(h, NoName, "STREAMING")
    BY <1>5, <2>1, <2>2, Grants DEF Usages
  <2>4. NamesOK'
    BY <2>1, <2>3 DEF GrantLeaves, AssetsIInv, NamesOK
  <2>5. Answered'
    BY <2>1 DEF Grant, Answered
  <2>. QED BY <2>3, <2>4, <2>5 DEF GrantLeaves, AssetsIInv
<1>. QED BY <1>1, <1>2, <1>3, <1>4, <1>5

LEMMA UploadStep ==
    ASSUME AssetsIInv, ~exhausted, ~DomainFull, FreeTex(device) # {},
           NEW name \in Names, name \notin DOMAIN by_name, Upload(name)
    PROVE  AssetsIInv'
<1>. PICK h : h = NextHandle
  OBVIOUS
<1>1. /\ Create("STATIC") /\ Grant(name, "IMAGE") /\ UNCHANGED <<target_tex, exhausted, past>>
      /\ by_name' = With(by_name, name, h)
  BY DEF Upload
<1>2. GrantLeaves(h, name, "IMAGE")
  BY <1>1, Grants DEF Usages
<1>. PICK k : k = h.idx
  OBVIOUS
<1>3. /\ k \notin Live /\ Live' = Live \union {k} /\ \A i \in Live : At(i)' = At(i)
      /\ h = Handle(k, At(k)'.gen) /\ At(k)'.rec.name = name /\ At(k)'.rec.kind = "IMAGE"
  BY <1>2 DEF GrantLeaves
<1>4. /\ DOMAIN by_name' = DOMAIN by_name \union {name} /\ by_name'[name] = h
      /\ \A m \in DOMAIN by_name : by_name'[m] = by_name[m]
  BY <1>1 DEF With
<1>5. NamesOK'
  <2>1. ASSUME NEW i \in Live'
        PROVE  /\ At(i)'.rec.kind \in {"IMAGE", "STREAMING"}
               /\ At(i)'.rec.kind = "IMAGE" =>
                     /\ At(i)'.rec.name \in DOMAIN by_name'
                     /\ by_name'[At(i)'.rec.name] = Handle(i, At(i)'.gen)
    <3>1. CASE i = k
      BY <1>3, <1>4, <3>1
    <3>2. CASE i \in Live
      <4>1. At(i)' = At(i) /\ At(i).rec.kind \in {"IMAGE", "STREAMING"}
        BY <1>3, <3>2 DEF AssetsIInv, NamesOK
      <4>2. At(i).rec.kind = "IMAGE" =>
               At(i).rec.name \in DOMAIN by_name /\ by_name[At(i).rec.name] = Handle(i, At(i).gen)
        BY <3>2 DEF AssetsIInv, NamesOK
      <4>. QED BY <1>4, <4>1, <4>2
    <3>. QED BY <1>3, <3>1, <3>2
  <2>2. ASSUME NEW m \in DOMAIN by_name'
        PROVE  \E i \in Live' : /\ by_name'[m] = Handle(i, At(i)'.gen)
                                /\ At(i)'.rec.name = m /\ At(i)'.rec.kind = "IMAGE"
    <3>1. CASE m = name
      BY <1>3, <1>4, <3>1
    <3>2. CASE m \in DOMAIN by_name
      <4>1. PICK i \in Live : by_name[m] = Handle(i, At(i).gen) /\ At(i).rec.name = m /\ At(i).rec.kind = "IMAGE"
        BY <3>2 DEF AssetsIInv, NamesOK
      <4>. QED BY <1>3, <1>4, <3>2, <4>1, SMTT(40)
    <3>. QED BY <1>4, <3>1, <3>2
  <2>. QED BY <2>1, <2>2 DEF NamesOK
<1>6. Answered'
  BY <1>1 DEF Grant, Answered
<1>. QED BY <1>2, <1>5, <1>6 DEF GrantLeaves, AssetsIInv

\* The upload that fails leaves the device as it found it, but for the generation.
LEMMA UploadFailsStep ==
    ASSUME AssetsIInv, ~exhausted, FreeTex(device) # {}, UploadFails PROVE AssetsIInv'
<1>. PICK d : d = device
  OBVIOUS
<1>. PICK h : h = NextTex(d)
  OBVIOUS
<1>. PICK owned : owned = OwnedTex
  OBVIOUS
<1>. PICK n \in Int : n = Owners
  BY OwnersFacts
<1>. PICK i : i = h.idx
  OBVIOUS
<1>. DEFINE t == Freed(h.gen, "STATIC")
            e == [d EXCEPT !.tex[i] = t]
<1>1. DeviceOK(d, owned, n) /\ FreeTex(d) # {}
  BY DEF AssetsIInv
<1>2. i \in Indices /\ ~d.tex[i].alive /\ h.gen \in 1 .. GenMax
  BY <1>1, NextFacts
<1>3. device' = e /\ asset_reply' = "DEVICE_ERROR" /\ UNCHANGED <<textures, by_name, target_tex, exhausted, holds, past>>
  BY DEF UploadFails
<1>4. t \in TexType /\ ~t.alive
  BY <1>2, AssetsAssumption DEF TexType, Freed, Usages
<1>. HIDE DEF t
<1>5. d \in DeviceType /\ d.live = n /\ d.room \in Int
  BY <1>1, DeviceFacts DEF DeviceOK
<1>6. e = [tex |-> [d.tex EXCEPT ![i] = t], live |-> n, room |-> d.room]
  BY <1>5 DEF DeviceType
<1>. HIDE DEF e
<1>7. Retextured(d, e, i, t, n)
  BY <1>2, <1>4, <1>5, <1>6, RetexturedAs
<1>8. DeviceOK(e, owned, n)
  BY <1>1, <1>2, <1>4, <1>7, TriedOnly
<1>9. /\ SlotsOK' /\ PastOK' /\ HoldsOK' /\ NamesOK'
      /\ Devs' = Devs /\ Live' = Live /\ Count' = Count /\ \A x : At(x)' = At(x)
  BY <1>3, RecordsKept
<1>10. OwnedTex' = owned /\ Owners' = n
  BY <1>3, <1>9 DEF OwnedTex, Owners
<1>11. DeviceOK(device, OwnedTex, Owners)'
  BY <1>3, <1>8, <1>10 DEF DeviceOK
<1>12. Apart' /\ Answered'
  BY <1>3, <1>9 DEF AssetsIInv, Apart, Answered
<1>. QED BY <1>9, <1>11, <1>12 DEF AssetsIInv

\* A holder more or less of what is loaded.
LEMMA Recounts ==
    ASSUME AssetsIInv, ~exhausted, NEW i \in Live, NEW c \in Int, NEW h, h = Handle(i, At(i).gen),
           textures' = [textures EXCEPT !.slots[i + 1].rec.refcount = c],
           holds' = [holds EXCEPT ![h] = c], asset_reply' = "OK",
           UNCHANGED <<by_name, device, target_tex, exhausted, past>>
    PROVE  AssetsIInv'
<1>1. SlotsOK
  BY DEF AssetsIInv
<1>2. Recounted(i, c)
  BY <1>1, RecountedSlot
<1>3. /\ SlotsOK' /\ (\A p : Gone(p) => Gone(p)') /\ Live' = Live
      /\ \A j \in Live : At(j)'.gen = At(j).gen
      /\ \A j \in Live \ {i} : At(j)' = At(j)
      /\ At(i)'.rec.refcount = c /\ At(i)'.rec.name = At(i).rec.name
      /\ At(i)'.rec.kind = At(i).rec.kind /\ At(i)'.rec.dev = At(i).rec.dev
  BY <1>2 DEF Recounted
<1>4. \A j \in Live : /\ At(j)'.gen = At(j).gen /\ At(j)'.rec.name = At(j).rec.name
                      /\ At(j)'.rec.kind = At(j).rec.kind /\ At(j)'.rec.dev = At(j).rec.dev
  BY <1>3
<1>5. PastOK'
  BY <1>3 DEF AssetsIInv, PastOK
<1>6. HoldsOK'
  <2>1. DOMAIN holds = {Handle(j, At(j).gen) : j \in Live} /\ \A j \in Live : At(j).rec.refcount = holds[Handle(j, At(j).gen)]
    BY DEF AssetsIInv, HoldsOK
  <2>2. DOMAIN holds' = {Handle(j, At(j)'.gen) : j \in Live'}
    BY <1>3, <2>1
  <2>3. ASSUME NEW j \in Live PROVE At(j)'.rec.refcount = holds'[Handle(j, At(j)'.gen)]
    <3>1. CASE j = i
      <4>1. h \in DOMAIN holds
        BY <2>1
      <4>2. holds'[h] = c
        BY <4>1
      <4>. QED BY <1>3, <3>1, <4>2
    <3>2. CASE j # i
      <4>1. Handle(j, At(j).gen) # h
        BY <3>2 DEF Handle
      <4>2. Handle(j, At(j).gen) \in DOMAIN holds
        BY <2>1
      <4>3. holds'[Handle(j, At(j).gen)] = holds[Handle(j, At(j).gen)]
        BY <4>1, <4>2
      <4>. QED BY <1>3, <2>1, <3>2, <4>3
    <3>. QED BY <3>1, <3>2
  <2>. QED BY <1>3, <2>2, <2>3 DEF HoldsOK
<1>7. NamesOK'
  BY <1>3, <1>4 DEF AssetsIInv, NamesOK
<1>8. Devs' = Devs
  BY <1>3, <1>4 DEF Devs
<1>9. OwnedTex' = OwnedTex /\ Owners' = Owners
  BY <1>3, <1>8 DEF OwnedTex, Owners
<1>10. DeviceOK(device, OwnedTex, Owners)'
  BY <1>9 DEF AssetsIInv, DeviceOK
<1>11. Apart'
  BY <1>3, <1>4, <1>8 DEF AssetsIInv, Apart
<1>12. Answered'
  BY DEF Answered
<1>. QED BY <1>3, <1>5, <1>6, <1>7, <1>10, <1>11, <1>12 DEF AssetsIInv

LEMMA LoadAgainStep ==
    ASSUME AssetsIInv, ~exhausted, NEW name \in DOMAIN by_name, LoadAgain(name) PROVE AssetsIInv'
<1>1. PICK i \in Live : by_name[name] = Handle(i, At(i).gen)
  BY DEF AssetsIInv, NamesOK
<1>. PICK h : h = Handle(i, At(i).gen)
  OBVIOUS
<1>. PICK c : c = At(i).rec.refcount + 1
  OBVIOUS
<1>2. h.idx = i /\ textures.slots[i + 1].rec.refcount + 1 = c /\ holds[h] + 1 = c
  BY DEF Handle, At, AssetsIInv, HoldsOK
<1>3. c \in Int
  BY SlotFacts DEF AssetsIInv, Live, SlotType, RecType
<1>4. /\ textures' = [textures EXCEPT !.slots[i + 1].rec.refcount = c]
      /\ holds' = [holds EXCEPT ![h] = c]
      /\ asset_reply' = "OK" /\ UNCHANGED <<by_name, device, target_tex, exhausted, past>>
  BY <1>1, <1>2 DEF LoadAgain
<1>. QED BY <1>3, <1>4, Recounts

LEMMA LoadStep ==
    ASSUME AssetsIInv, ~exhausted, NEW name \in Names \union {NoName}, NEW w, Load(name, w)
    PROVE  AssetsIInv'
<1>0. CASE name = NoName
  <2>1. Refuse("ASSET_BAD_ARG") /\ "ASSET_BAD_ARG" # "ASSET_LIMIT"
    BY <1>0 DEF Load
  <2>. QED BY <2>1, Refuses
<1>1. CASE name # NoName /\ name \in DOMAIN by_name
  BY <1>1, LoadAgainStep DEF Load
<1>2. CASE name # NoName /\ name \notin DOMAIN by_name /\ DomainFull
  BY <1>2, Refuses DEF Load
<1>3. CASE name # NoName /\ name \notin DOMAIN by_name /\ ~DomainFull
  <2>1. CASE \E e \in {"NOT_FOUND", "FILE_IO", "IMAGE_DECODE"} : Refuse(e)
    <3>. PICK e \in {"NOT_FOUND", "FILE_IO", "IMAGE_DECODE"} : Refuse(e)
      BY <2>1
    <3>1. e # "ASSET_LIMIT"
      OBVIOUS
    <3>. QED BY <3>1, Refuses
  <2>2. CASE w # 0 /\ CreateError(w) # "OK" /\ Refuse(CreateError(w))
    <3>1. CreateError(w) # "ASSET_LIMIT"
      BY DEF CreateError
    <3>. QED BY <2>2, <3>1, Refuses
  <2>3. CASE w # 0 /\ CreateError(w) = "OK" /\ (UploadFails \/ Upload(name))
    <3>1. FreeTex(device) # {}
      BY <2>3 DEF CreateError
    <3>. QED BY <1>3, <2>3, <3>1, UploadFailsStep, UploadStep
  <2>. QED BY <1>3, <2>1, <2>2, <2>3 DEF Load
<1>. QED BY <1>0, <1>1, <1>2, <1>3

\* The last holder lets go.
LEMMA ReleaseLast ==
    ASSUME AssetsIInv, ~exhausted, NEW i \in Live, NEW h, h = Handle(i, At(i).gen),
           Destroy(At(i).rec.dev), Vacate(h),
           by_name' = IF At(i).rec.kind = "STREAMING" THEN by_name
                      ELSE Restrict(by_name, DOMAIN by_name \ {At(i).rec.name}),
           holds' = Restrict(holds, DOMAIN holds \ {h}), past' = past \union {h},
           asset_reply' = "OK", UNCHANGED <<target_tex, exhausted>>
    PROVE  AssetsIInv'
<1>. PICK x : x = At(i).rec.dev
  OBVIOUS
<1>. PICK n \in Int : n = Owners
  BY OwnersFacts
<1>. PICK owned : owned = OwnedTex
  OBVIOUS
<1>1. SlotsOK /\ DeviceOK(device, owned, n)
  BY DEF AssetsIInv
<1>2. x \in owned /\ x # Null /\ x # target_tex
  BY DEF Devs, OwnedTex, AssetsIInv, Apart
<1>3. DeviceOK(device', owned \ {x}, n - 1)
  <2>1. Lookup(x)
    BY <1>1, <1>2 DEF Lookup, DeviceOK
  <2>2. device' = Destroyed(device, x)
    BY <2>1 DEF Destroy
  <2>3. DeviceOK(Destroyed(device, x), owned \ {x}, n - 1)
    BY <1>1, <1>2, DestroyedFacts
  <2>. QED BY <2>2, <2>3
<1>4. Vacant(i, h)
  BY <1>1, Vacated
<1>5. /\ SlotsOK' /\ (\A p : Gone(p) => Gone(p)') /\ Gone(h)'
      /\ Live' = Live \ {i} /\ \A j \in Live \ {i} : At(j)' = At(j)
  BY <1>4 DEF Vacant
<1>6. PastOK'
  BY <1>5 DEF AssetsIInv, PastOK
<1>7. HoldsOK'
  <2>1. DOMAIN holds = {Handle(j, At(j).gen) : j \in Live} /\ \A j \in Live : At(j).rec.refcount = holds[Handle(j, At(j).gen)]
    BY DEF AssetsIInv, HoldsOK
  <2>2. DOMAIN holds' = DOMAIN holds \ {h} /\ \A p \in DOMAIN holds \ {h} : holds'[p] = holds[p]
    BY DEF Restrict
  <2>3. \A j \in Live \ {i} : Handle(j, At(j).gen) # h
    BY DEF Handle
  <2>4. DOMAIN holds' = {Handle(j, At(j)'.gen) : j \in Live'}
    <3>1. DOMAIN holds \ {h} = {Handle(j, At(j).gen) : j \in Live \ {i}}
      BY <2>1, <2>3
    <3>2. \A j \in Live \ {i} : Handle(j, At(j)'.gen) = Handle(j, At(j).gen)
      BY <1>5
    <3>. QED BY <1>5, <2>2, <3>1, <3>2
  <2>5. \A j \in Live' : At(j)'.rec.refcount = holds'[Handle(j, At(j)'.gen)]
    BY <1>5, <2>1, <2>2, <2>3
  <2>. QED BY <2>4, <2>5 DEF HoldsOK
<1>8. NamesOK'
  <2>1. /\ \A j \in Live :
             /\ At(j).rec.kind \in {"IMAGE", "STREAMING"}
             /\ At(j).rec.kind = "IMAGE" =>
                   At(j).rec.name \in DOMAIN by_name /\ by_name[At(j).rec.name] = Handle(j, At(j).gen)
        /\ \A m \in DOMAIN by_name : \E j \in Live :
             /\ by_name[m] = Handle(j, At(j).gen)
             /\ At(j).rec.name = m /\ At(j).rec.kind = "IMAGE"
    BY DEF AssetsIInv, NamesOK
  <2>2. /\ DOMAIN by_name' = {m \in DOMAIN by_name : At(i).rec.kind = "STREAMING" \/ m # At(i).rec.name}
        /\ \A m \in DOMAIN by_name' : by_name'[m] = by_name[m]
    BY DEF Restrict
  <2>3. ASSUME NEW j \in Live \ {i}, At(j).rec.kind = "IMAGE" PROVE At(j).rec.name \in DOMAIN by_name'
    <3>1. ASSUME At(i).rec.kind = "IMAGE" PROVE At(i).rec.name # At(j).rec.name
      <4>1. Handle(i, At(i).gen) # Handle(j, At(j).gen)
        BY <2>3 DEF Handle
      <4>. QED BY <2>1, <2>3, <3>1, <4>1
    <3>. QED BY <2>1, <2>2, <2>3, <3>1
  <2>4. ASSUME NEW j \in Live'
        PROVE  /\ At(j)'.rec.kind \in {"IMAGE", "STREAMING"}
               /\ At(j)'.rec.kind = "IMAGE" =>
                     /\ At(j)'.rec.name \in DOMAIN by_name'
                     /\ by_name'[At(j)'.rec.name] = Handle(j, At(j)'.gen)
    <3>1. j \in Live \ {i} /\ At(j)' = At(j)
      BY <1>5
    <3>2. CASE At(j).rec.kind = "IMAGE"
      <4>1. /\ At(j).rec.name \in DOMAIN by_name'
            /\ by_name'[At(j).rec.name] = by_name[At(j).rec.name]
            /\ by_name[At(j).rec.name] = Handle(j, At(j).gen)
        BY <2>1, <2>2, <2>3, <3>1, <3>2
      <4>. QED BY <3>1, <3>2, <4>1
    <3>3. CASE At(j).rec.kind # "IMAGE"
      BY <2>1, <3>1, <3>3
    <3>. QED BY <3>2, <3>3
  <2>5. ASSUME NEW m \in DOMAIN by_name'
        PROVE  \E j \in Live' : /\ by_name'[m] = Handle(j, At(j)'.gen)
                                /\ At(j)'.rec.name = m /\ At(j)'.rec.kind = "IMAGE"
    <3>1. PICK j \in Live : by_name[m] = Handle(j, At(j).gen) /\ At(j).rec.name = m /\ At(j).rec.kind = "IMAGE"
      BY <2>1, <2>2
    <3>2. j # i
      BY <2>2, <3>1
    <3>3. j \in Live' /\ At(j)' = At(j) /\ by_name'[m] = by_name[m]
      BY <1>5, <2>2, <3>2
    <3>. QED BY <3>1, <3>3
  <2>. QED BY <2>4, <2>5 DEF NamesOK
<1>9. Devs' = Devs \ {x}
  <2>1. \A j \in Live \ {i} : At(j).rec.dev # x
    BY DEF AssetsIInv, Apart
  <2>. QED BY <1>5, <2>1 DEF Devs
<1>10. OwnedTex' = owned \ {x}
  BY <1>2, <1>9 DEF OwnedTex
<1>11. Owners' = n - 1
  <2>1. Cardinality(Live') = Cardinality(Live) - 1 /\ Cardinality(Live) \in Int
    BY <1>1, <1>5, LiveCounted
  <2>. QED BY <2>1 DEF Owners
<1>12. DeviceOK(device, OwnedTex, Owners)'
  BY <1>3, <1>10, <1>11 DEF DeviceOK
<1>13. Apart'
  BY <1>5, <1>9 DEF AssetsIInv, Apart
<1>14. Answered'
  BY DEF Answered
<1>. QED BY <1>5, <1>6, <1>7, <1>8, <1>12, <1>13, <1>14 DEF AssetsIInv

LEMMA ReleaseStep ==
    ASSUME AssetsIInv, ~exhausted, NEW h \in DOMAIN holds \union past \union {Null}, Release(h) PROVE AssetsIInv'
<1>1. CASE ~Alive(h)
  BY <1>1, Refuses DEF Release
<1>2. CASE Alive(h)
  <2>. PICK i : i = h.idx
    OBVIOUS
  <2>1. h # Null /\ i < Count /\ At(i).live /\ At(i).gen = h.gen
    BY <1>2 DEF Alive
  <2>2. h \in Handles
    <3>1. DOMAIN holds \subseteq Handles
      BY SlotFacts DEF AssetsIInv, HoldsOK, Live
    <3>. QED BY <2>1, <3>1 DEF AssetsIInv, PastOK, Gone
  <2>3. i \in Live /\ h = Handle(i, At(i).gen)
    BY <2>1, <2>2, SlotFacts DEF AssetsIInv, Live, Handle, Handles
  <2>4. At(i).rec.refcount \in Int /\ textures.slots[i + 1].rec.refcount = At(i).rec.refcount
        /\ holds[h] = At(i).rec.refcount
    BY <2>3, SlotFacts DEF AssetsIInv, HoldsOK, Live, SlotType, RecType, At
  <2>5. CASE At(i).rec.refcount > 1
    <3>. PICK c : c = At(i).rec.refcount - 1
      OBVIOUS
    <3>1. c \in Int /\ textures.slots[i + 1].rec.refcount - 1 = c /\ holds[h] - 1 = c
      BY <2>4
    <3>2. /\ textures' = [textures EXCEPT !.slots[i + 1].rec.refcount = c]
          /\ holds' = [holds EXCEPT ![h] = c]
          /\ asset_reply' = "OK" /\ UNCHANGED <<by_name, device, target_tex, exhausted, past>>
      BY <1>2, <2>5, <3>1 DEF Release
    <3>. QED BY <2>3, <3>1, <3>2, Recounts
  <2>6. CASE ~(At(i).rec.refcount > 1)
    <3>1. /\ Destroy(At(i).rec.dev) /\ Vacate(h)
          /\ by_name' = IF At(i).rec.kind = "STREAMING" THEN by_name
                        ELSE Restrict(by_name, DOMAIN by_name \ {At(i).rec.name})
          /\ holds' = Restrict(holds, DOMAIN holds \ {h}) /\ past' = past \union {h}
          /\ asset_reply' = "OK" /\ UNCHANGED <<target_tex, exhausted>>
      BY <1>2, <2>6 DEF Release
    <3>. QED BY <2>3, <3>1, ReleaseLast
  <2>. QED BY <2>5, <2>6
<1>. QED BY <1>1, <1>2

\* The target gone, what the device has is the registry's.
LEMMA TargetGone ==
    ASSUME AssetsIInv, NEW d, d = IF Lookup(target_tex) THEN Destroyed(device, target_tex) ELSE device
    PROVE  DeviceOK(d, Devs, Cardinality(Live)) /\ Cardinality(Live) \in Int
<1>. PICK n \in Int : n = Owners
  BY OwnersFacts
<1>. PICK owned : owned = OwnedTex
  OBVIOUS
<1>1. DeviceOK(device, owned, n) /\ Cardinality(Live) \in Int /\ target_tex \notin Devs
  BY LiveCounted DEF AssetsIInv, Apart
<1>2. CASE target_tex = Null
  <2>1. owned = Devs /\ n = Cardinality(Live)
    BY <1>1, <1>2 DEF OwnedTex, Owners
  <2>2. d = device
    BY <1>2 DEF Lookup
  <2>. QED BY <1>1, <2>1, <2>2
<1>3. CASE target_tex # Null
  <2>1. owned \ {target_tex} = Devs /\ n - 1 = Cardinality(Live) /\ target_tex \in owned
    BY <1>1, <1>3 DEF OwnedTex, Owners
  <2>2. Lookup(target_tex)
    BY <1>1, <1>3, <2>1 DEF Lookup, DeviceOK
  <2>3. DeviceOK(Destroyed(device, target_tex), owned \ {target_tex}, n - 1)
    BY <1>1, <2>1, DestroyedFacts
  <2>. QED BY <1>1, <2>1, <2>2, <2>3
<1>. QED BY <1>2, <1>3

LEMMA ResizeStep ==
    ASSUME AssetsIInv, ~exhausted, NEW w, Resize(w) PROVE AssetsIInv'
<1>. PICK d : d = IF Lookup(target_tex) THEN Destroyed(device, target_tex) ELSE device
  OBVIOUS
<1>. PICK devs : devs = Devs
  OBVIOUS
<1>. PICK n \in Int : n = Cardinality(Live)
  BY TargetGone
<1>1. /\ IF w = 0 \/ w > MaxWidth \/ FreeTex(d) = {}
         THEN device' = d /\ target_tex' = Null
         ELSE device' = Made(d, NextTex(d), "TARGET") /\ target_tex' = NextTex(d)
      /\ UNCHANGED <<textures, by_name, asset_reply, exhausted, holds, past>>
  BY DEF Resize
<1>2. DeviceOK(d, devs, n)
  BY TargetGone
<1>3. /\ SlotsOK' /\ PastOK' /\ HoldsOK' /\ NamesOK'
      /\ Devs' = devs /\ Live' = Live /\ Count' = Count /\ \A x : At(x)' = At(x)
  BY <1>1, RecordsKept
<1>4. Answered'
  BY <1>1, <1>3 DEF AssetsIInv, Answered
<1>5. Null \notin devs /\ \A x, y \in Live' : At(x)'.rec.dev = At(y)'.rec.dev => x = y
  BY <1>3 DEF AssetsIInv, Apart
<1>6. CASE w = 0 \/ w > MaxWidth \/ FreeTex(d) = {}
  <2>1. device' = d /\ target_tex' = Null
    BY <1>1, <1>6
  <2>2. OwnedTex' = devs /\ Owners' = n
    BY <1>3, <2>1 DEF OwnedTex, Owners
  <2>3. DeviceOK(device, OwnedTex, Owners)'
    BY <1>2, <2>1, <2>2 DEF DeviceOK
  <2>4. Apart'
    BY <1>3, <1>5, <2>1 DEF Apart, Handles, Null
  <2>. QED BY <1>3, <1>4, <2>3, <2>4 DEF AssetsIInv
<1>7. CASE ~(w = 0 \/ w > MaxWidth \/ FreeTex(d) = {})
  <2>. PICK h : h = NextTex(d)
    OBVIOUS
  <2>. PICK e : e = Made(d, h, "TARGET")
    OBVIOUS
  <2>1. device' = e /\ target_tex' = h
    BY <1>1, <1>7
  <2>2. h \in Handles /\ h # Null /\ h \notin devs /\ DeviceOK(e, devs \union {h}, n + 1)
    <3>1. FreeTex(d) # {} /\ "TARGET" \in Usages
      BY <1>7 DEF Usages
    <3>2. h \in Handles /\ h # Null
      BY <1>2, <3>1, NextFacts
    <3>. QED BY <1>2, <3>1, <3>2, MadeFacts
  <2>3. OwnedTex' = devs \union {h} /\ Owners' = n + 1
    BY <1>3, <2>1, <2>2 DEF OwnedTex, Owners
  <2>4. DeviceOK(device, OwnedTex, Owners)'
    BY <2>1, <2>2, <2>3, DeviceNext
  <2>5. Apart'
    BY <1>3, <1>5, <2>1, <2>2 DEF Apart
  <2>. QED BY <1>3, <1>4, <2>4, <2>5 DEF AssetsIInv
<1>. QED BY <1>6, <1>7

LEMMA AssetsInit == AInit => AssetsIInv
<1>. SUFFICES ASSUME AInit PROVE AssetsIInv
  OBVIOUS
<1>. DEFINE d == [tex |-> [i \in Indices |-> [alive |-> FALSE, gen |-> 0, usage |-> "STATIC"]],
                  live |-> 0, room |-> ArenaRoom]
<1>1. /\ textures = [slots |-> <<>>, free |-> <<>>] /\ by_name = <<>> /\ device = d
      /\ target_tex = Null /\ asset_reply = "OK" /\ exhausted = FALSE
      /\ holds = <<>> /\ past = {}
  BY DEF AInit
<1>2. Count = 0 /\ Free = {} /\ Live = {}
  BY <1>1 DEF Count, Free, Live
<1>3. SlotsOK
  BY <1>1, <1>2, AssetsAssumption DEF SlotsOK
<1>4. PastOK /\ HoldsOK /\ NamesOK
  BY <1>1, <1>2 DEF PastOK, HoldsOK, NamesOK
<1>5. Devs = {} /\ OwnedTex = {} /\ Owners = 0
  BY <1>1, <1>2, FS_EmptySet DEF Devs, OwnedTex, Owners
<1>6. DeviceOK(device, OwnedTex, Owners)
  <2>1. d.tex \in [Indices -> TexType] /\ \A x \in Indices : ~d.tex[x].alive
    BY AssetsAssumption DEF TexType, Usages
  <2>2. d \in DeviceType /\ d.live = 0
    BY <2>1, AssetsAssumption DEF DeviceType
  <2>. HIDE DEF d
  <2>. QED BY <1>1, <1>5, <2>1, <2>2 DEF DeviceOK, DeviceType, TexType
<1>7. Apart /\ Answered
  BY <1>1, <1>2, <1>5 DEF Apart, Answered, Handles, Null
<1>. QED BY <1>3, <1>4, <1>6, <1>7 DEF AssetsIInv

LEMMA AssetsNext == AssetsIInv /\ [ANext]_avars => AssetsIInv'
<1>. SUFFICES ASSUME AssetsIInv, [ANext]_avars PROVE AssetsIInv'
  OBVIOUS
<1>1. CASE ANext
  <2>1. ~exhausted
    BY <1>1 DEF ANext
  <2>2. ASSUME NEW w, CreateStreaming(w) PROVE AssetsIInv'
    BY <2>1, <2>2, CreateStreamingStep
  <2>3. ASSUME NEW w, Resize(w) PROVE AssetsIInv'
    BY <2>1, <2>3, ResizeStep
  <2>4. ASSUME NEW w, NEW n \in Names \union {NoName}, Load(n, w) PROVE AssetsIInv'
    BY <2>1, <2>4, LoadStep
  <2>5. ASSUME NEW h \in DOMAIN holds \union past \union {Null}, Release(h) PROVE AssetsIInv'
    BY <2>1, <2>5, ReleaseStep
  <2>. QED BY <1>1, <2>2, <2>3, <2>4, <2>5 DEF ANext
<1>2. CASE UNCHANGED avars
  <2>1. UNCHANGED <<textures, by_name, holds, past>> /\ UNCHANGED <<device, target_tex, asset_reply, exhausted>>
    BY <1>2 DEF avars
  <2>2. /\ SlotsOK' /\ PastOK' /\ HoldsOK' /\ NamesOK'
        /\ Devs' = Devs /\ Live' = Live /\ Count' = Count /\ \A x : At(x)' = At(x)
    BY <2>1, RecordsKept
  <2>3. OwnedTex' = OwnedTex /\ Owners' = Owners
    BY <2>1, <2>2 DEF OwnedTex, Owners
  <2>4. DeviceOK(device, OwnedTex, Owners)'
    BY <2>1, <2>3 DEF AssetsIInv, DeviceOK
  <2>5. Apart' /\ Answered'
    BY <2>1, <2>2 DEF AssetsIInv, Apart, Answered
  <2>. QED BY <2>2, <2>4, <2>5 DEF AssetsIInv
<1>. QED BY <1>1, <1>2

LEMMA AssetsSound == AssetsIInv => AssetsInv
<1>. SUFFICES ASSUME AssetsIInv PROVE AssetsInv
  OBVIOUS
<1>. DEFINE out == {Handle(i, device.tex[i].gen) : i \in {j \in Indices : device.tex[j].alive}}
<1>1. out = OwnedTex
  <2>1. out \subseteq OwnedTex
    BY DEF AssetsIInv, DeviceOK
  <2>2. ASSUME NEW h \in OwnedTex PROVE h \in out
    <3>1. h \in Handles /\ h.idx \in Indices /\ device.tex[h.idx].alive /\ device.tex[h.idx].gen = h.gen
      BY DEF AssetsIInv, DeviceOK
    <3>2. h = Handle(h.idx, device.tex[h.idx].gen)
      BY <3>1 DEF Handle, Handles
    <3>. QED BY <3>1, <3>2
  <2>. QED BY <2>1, <2>2
<1>2. out = {At(i).rec.dev : i \in Live} \union ({target_tex} \ {Null})
  BY <1>1 DEF OwnedTex, Devs
<1>3. device.live = Cardinality(Live) + (IF target_tex = Null THEN 0 ELSE 1)
  BY DEF AssetsIInv, DeviceOK, Owners
<1>4. {Handle(i, At(i).gen) : i \in Live} = DOMAIN holds
  BY DEF AssetsIInv, HoldsOK
<1>5. ASSUME NEW h \in DOMAIN holds
      PROVE  /\ Rec(h).refcount = holds[h]
             /\ Rec(h).kind = "IMAGE" => Rec(h).name \in DOMAIN by_name /\ by_name[Rec(h).name] = h
  <2>1. PICK i \in Live : h = Handle(i, At(i).gen)
    BY <1>4
  <2>2. h.idx = i
    BY <2>1 DEF Handle
  <2>. QED BY <2>1, <2>2 DEF AssetsIInv, HoldsOK, NamesOK, Rec
<1>6. ASSUME NEW n \in DOMAIN by_name PROVE by_name[n] \in DOMAIN holds /\ Rec(by_name[n]).name = n
  <2>1. PICK i \in Live : by_name[n] = Handle(i, At(i).gen) /\ At(i).rec.name = n
    BY DEF AssetsIInv, NamesOK
  <2>2. by_name[n].idx = i
    BY <2>1 DEF Handle
  <2>. QED BY <1>4, <2>1, <2>2 DEF Rec
<1>7. ASSUME NEW h \in past PROVE ~Alive(h)
  <2>1. Gone(h) /\ h.gen \in Nat
    BY DEF AssetsIInv, PastOK, Gone, Handles
  <2>2. h.gen < At(h.idx).gen => h.gen # At(h.idx).gen
    BY <2>1, SlotFacts DEF AssetsIInv, Gone, Handles
  <2>. QED BY <2>1, <2>2 DEF Gone, Alive
<1>8. /\ asset_reply = "ASSET_LIMIT" => \A i \in Indices : i \in Live \/ (i < Count /\ At(i).gen = GenMax)
      /\ exhausted => device.room = 0
  BY DEF AssetsIInv, Answered
<1>. QED BY <1>2, <1>3, <1>4, <1>5, <1>6, <1>7, <1>8 DEF AssetsInv

\* Whatever fails, no texture leaks or is shared, the holders of each are counted truly, and a
\* handle that its holders let go of never finds another texture.
THEOREM TexturesAreOwned == ASpec => []AssetsInv
<1>. QED BY AssetsInit, AssetsNext, AssetsSound, PTL DEF ASpec

-----------------------------------------------------------------------------
(* The store of sequenced records.                                         *)

AllRecords == {Record(id) : id \in Ids}
Stored == {records[i] : i \in DOMAIN records}

StoreTypes ==
    /\ sequenced \in [Ids -> LogTickRange]
    /\ \A a, b \in Ids : a[1] = b[1] /\ a[2] <= b[2] => sequenced[a] <= sequenced[b]
    /\ rest \in [Ids -> Rests]
    /\ records \in Seq(AllRecords) /\ Len(records) <= Capacity
    /\ offered \subseteq Ids /\ refused \subseteq Ids

Fits == \A t \in LogTickRange : CountAt(t) <= MaxRecords

LogIInv == StoreTypes /\ Fits /\ StoredOnce

\* Places of numbers, all that Before compares.
IsRecord(r) == r.tick \in Nat /\ r.origin \in Nat /\ r.seq \in Nat

Sorted(seq) == \A i, j \in DOMAIN seq : i < j => Before(seq[i], seq[j])

LEMMA LogConstants ==
    /\ Capacity \in Nat /\ LogTicks \in Nat /\ MaxRecords \in Nat /\ MaxTicks \in Nat
    /\ Slots \subseteq Nat /\ Ids \subseteq Nat \X Nat
BY StoreAssumption, ArchiveAssumption

LEMMA RecordFacts ==
    ASSUME StoreTypes, NEW i \in DOMAIN records
    PROVE  /\ i \in 1 .. Len(records) /\ Len(records) \in Nat
           /\ IsRecord(records[i]) /\ Id(records[i]) \in Ids
           /\ records[i] = Record(Id(records[i]))
           /\ records[i].tick \in LogTickRange /\ records[i].tick = sequenced[Id(records[i])]
           /\ Id(records[i]) = <<records[i].origin, records[i].seq>>
<1>1. i \in 1 .. Len(records) /\ Len(records) \in Nat /\ records[i] \in AllRecords
  BY DEF StoreTypes
<1>2. PICK id \in Ids : records[i] = Record(id)
  BY <1>1 DEF AllRecords
<1>3. PICK o \in Nat, s \in Nat : id = <<o, s>>
  BY LogConstants
<1>4. sequenced[id] \in LogTickRange
  BY DEF StoreTypes
<1>5. records[i].origin = o /\ records[i].seq = s /\ records[i].tick = sequenced[id]
  BY <1>2, <1>3 DEF Record
<1>6. Id(records[i]) = id
  BY <1>3, <1>5 DEF Id
<1>7. o \in Nat /\ s \in Nat /\ sequenced[id] \in Nat
  BY <1>4, LogConstants DEF LogTickRange
<1>. QED BY <1>1, <1>2, <1>3, <1>4, <1>5, <1>6, <1>7 DEF IsRecord, Id

LEMMA StoredFacts ==
    ASSUME StoreTypes, NEW r \in Stored
    PROVE  /\ IsRecord(r)
           /\ r.tick \in LogTickRange /\ r.tick = sequenced[<<r.origin, r.seq>>]
           /\ r = Record(<<r.origin, r.seq>>) /\ <<r.origin, r.seq>> \in Ids
<1>1. PICK i \in DOMAIN records : r = records[i]
  BY DEF Stored
<1>. QED BY <1>1, RecordFacts

LEMMA StoredRecords == ASSUME StoreTypes PROVE \A r \in Stored : IsRecord(r)
BY StoredFacts

\* The frontier of an origin only grows.
LEMMA FrontierGrows ==
    ASSUME StoreTypes, NEW o, NEW s, NEW u, <<o, s>> \in Ids, <<o, u>> \in Ids, s <= u
    PROVE  sequenced[<<o, s>>] <= sequenced[<<o, u>>]
<1>. PICK a \in Ids, b \in Ids : a = <<o, s>> /\ b = <<o, u>>
  OBVIOUS
<1>1. a[1] = b[1] /\ a[2] <= b[2]
  OBVIOUS
<1>. QED BY <1>1 DEF StoreTypes

LEMMA BeforeOrders ==
    ASSUME NEW a, NEW b, IsRecord(a), IsRecord(b)
    PROVE  /\ ~Before(a, a) /\ (Before(a, b) => ~Before(b, a))
           /\ Before(a, b) => a.tick <= b.tick
           /\ Before(a, b) \/ Before(b, a)
              \/ (a.tick = b.tick /\ a.origin = b.origin /\ a.seq = b.seq)
BY DEF IsRecord, Before

LEMMA BeforeTransitive ==
    ASSUME NEW a, NEW b, NEW c, IsRecord(a), IsRecord(b), IsRecord(c), Before(a, b), Before(b, c)
    PROVE  Before(a, c)
BY DEF IsRecord, Before

\* Two stored records that neither precedes are one.
LEMMA StoredTotal ==
    ASSUME StoreTypes, NEW a \in Stored, NEW b \in Stored, ~Before(a, b), ~Before(b, a)
    PROVE  a = b
<1>1. a.origin = b.origin /\ a.seq = b.seq
  BY StoredFacts, BeforeOrders
<1>. QED BY <1>1, StoredFacts

\* The code's search for the least.
LEMMA LeastFound ==
    ASSUME StoreTypes, NEW t, NEW S, S \subseteq DOMAIN records, S # {},
           \A i \in S : records[i].tick = t
    PROVE  \E i \in S : /\ LeastOf(S) = records[i]
                        /\ \A j \in S : records[j] = records[i] \/ Before(records[i], records[j])
<1>1. \A i \in S : IsRecord(records[i]) /\ records[i] \in Stored
  BY RecordFacts DEF Stored
<1>. DEFINE O == {o \in Nat : \E i \in S : records[i].origin = o}
<1>2. PICK o \in O : \A p \in O : o <= p
  <2>1. O \subseteq Nat /\ O # {}
    BY <1>1 DEF IsRecord
  <2>. HIDE DEF O
  <2>. QED BY <2>1, Least
<1>. DEFINE Q == {q \in Nat : \E i \in S : records[i].origin = o /\ records[i].seq = q}
<1>3. PICK q \in Q : \A p \in Q : q <= p
  <2>1. Q \subseteq Nat /\ Q # {}
    BY <1>1, <1>2 DEF IsRecord
  <2>. HIDE DEF Q
  <2>. QED BY <2>1, Least
<1>4. PICK k \in S : records[k].origin = o /\ records[k].seq = q
  BY <1>3
<1>5. \A j \in S : ~Before(records[j], records[k])
  <2>. SUFFICES ASSUME NEW j \in S, Before(records[j], records[k]) PROVE FALSE
    OBVIOUS
  <2>1. PICK a : a = records[j]
    OBVIOUS
  <2>2. PICK b : b = records[k]
    OBVIOUS
  <2>3. IsRecord(a) /\ IsRecord(b) /\ Before(a, b) /\ a.tick = b.tick /\ b.origin = o /\ b.seq = q
    BY <1>1, <1>4, <2>1, <2>2
  <2>4. a.origin \in O
    BY <1>1, <2>1, <2>3 DEF IsRecord
  <2>5. o <= a.origin
    BY <1>2, <2>4
  <2>6. a.origin = o /\ a.seq < q
    BY <2>3, <2>5 DEF IsRecord, Before
  <2>7. a.seq \in Q
    BY <2>1, <2>3, <2>6 DEF IsRecord
  <2>8. q <= a.seq
    BY <1>3, <2>7
  <2>. QED BY <2>3, <2>6, <2>8 DEF IsRecord
<1>6. PICK c : c = CHOOSE i \in S : \A j \in S : ~Before(records[j], records[i])
  OBVIOUS
<1>7. c \in S /\ \A j \in S : ~Before(records[j], records[c])
  BY <1>5, <1>6
<1>8. LeastOf(S) = records[c]
  BY <1>6 DEF LeastOf
<1>9. ASSUME NEW j \in S PROVE records[j] = records[c] \/ Before(records[c], records[j])
  BY <1>1, <1>7, StoredTotal
<1>. QED BY <1>7, <1>8, <1>9

-----------------------------------------------------------------------------
(* A recursion over 0 .. n has a solution, whatever the step makes of a    *)
(* state of S.                                                             *)

Iterates(G, a, n, f) ==
    /\ DOMAIN f = 0 .. n
    /\ f[0] = a
    /\ \A i \in 1 .. n : f[i] = G[<<f[i - 1], i>>]

Tabulates(n, f) == f = [i \in 0 .. n |-> f[i]]

LEMMA IterationExists ==
    ASSUME NEW S, NEW a \in S, NEW n \in Nat, NEW G \in [S \X (1 .. n) -> S]
    PROVE  \E f \in [0 .. n -> S] : Iterates(G, a, n, f)
<1>. DEFINE Good(m) == \E f \in [0 .. m -> S] : Iterates(G, a, m, f)
            T == {m \in 0 .. n : ~Good(m)}
<1>1. ASSUME T # {} PROVE FALSE
  <2>1. PICK m \in T : \A k \in T : m <= k
    <3>1. T \subseteq Nat
      OBVIOUS
    <3>. HIDE DEF T
    <3>. QED BY <1>1, <3>1, Least
  <2>2. m \in 0 .. n /\ ~Good(m)
    OBVIOUS
  <2>3. m # 0
    <3>. SUFFICES ASSUME m = 0 PROVE FALSE
      OBVIOUS
    <3>. DEFINE f == [i \in 0 .. 0 |-> a]
    <3>1. f \in [0 .. 0 -> S] /\ Iterates(G, a, 0, f)
      BY DEF Iterates
    <3>. QED BY <2>2, <3>1
  <2>4. m - 1 \in 0 .. n /\ m - 1 \notin T
    BY <2>1, <2>2, <2>3
  <2>5. Good(m - 1)
    BY <2>4
  <2>6. PICK g \in [0 .. m - 1 -> S] : Iterates(G, a, m - 1, g)
    BY <2>5
  <2>7. PICK x \in S : x = G[<<g[m - 1], m>>]
    <3>1. g[m - 1] \in S /\ m \in 1 .. n
      BY <2>2, <2>3, <2>4
    <3>. QED BY <3>1
  <2>. DEFINE f == [i \in 0 .. m |-> IF i = m THEN x ELSE g[i]]
  <2>8. /\ f \in [0 .. m -> S] /\ f[m] = x /\ f[0] = g[0]
        /\ \A i \in 0 .. m - 1 : f[i] = g[i]
    BY <2>2, <2>3
  <2>. HIDE DEF f
  <2>9. \A i \in 1 .. m : f[i] = G[<<f[i - 1], i>>]
    <3>. SUFFICES ASSUME NEW i \in 1 .. m PROVE f[i] = G[<<f[i - 1], i>>]
      OBVIOUS
    <3>1. CASE i = m
      <4>1. m - 1 \in 0 .. m - 1
        BY <2>2, <2>3
      <4>. QED BY <2>7, <2>8, <3>1, <4>1
    <3>2. CASE i # m
      <4>1. i \in 1 .. m - 1 /\ i \in 0 .. m - 1 /\ i - 1 \in 0 .. m - 1
        BY <2>2, <3>2
      <4>. QED BY <2>6, <2>8, <4>1 DEF Iterates
    <3>. QED BY <3>1, <3>2
  <2>10. Iterates(G, a, m, f)
    BY <2>6, <2>8, <2>9 DEF Iterates
  <2>. QED BY <2>2, <2>8, <2>10
<1>2. n \in 0 .. n /\ n \notin T
  BY <1>1
<1>3. Good(n)
  BY <1>2
<1>. QED BY <1>3

-----------------------------------------------------------------------------
(* A read of one tick.                                                     *)

Taken(o, r) == \E k \in DOMAIN o : o[k] = r

\* The first n records of the tick in their order, or all if there are no more.
ReadOK(t, n, o) ==
    /\ o \in Seq(Stored) /\ Sorted(o) /\ Len(o) <= n
    /\ \A k \in DOMAIN o : o[k].tick = t
    /\ \A r \in Stored : r.tick = t => Taken(o, r) \/ \A k \in DOMAIN o : Before(o[k], r)
    /\ Len(o) < n => \A r \in Stored : r.tick = t => Taken(o, r)

LEMMA LeftAtIs ==
    ASSUME StoreTypes, NEW t, NEW n, NEW o, ReadOK(t, n, o), NEW i \in DOMAIN records
    PROVE  i \in LeftAt(t, o) <=> records[i].tick = t /\ ~Taken(o, records[i])
<1>1. o \in Seq(Stored) /\ DOMAIN o = 1 .. Len(o) /\ Len(o) \in Nat
  BY DEF ReadOK
<1>2. PICK r \in Stored : r = records[i]
  BY DEF Stored
<1>3. i \in LeftAt(t, o) <=> r.tick = t /\ (o # <<>> => Before(Last(o), r))
  BY <1>2 DEF LeftAt
<1>4. CASE o = <<>>
  <2>1. ~Taken(o, r)
    BY <1>4 DEF Taken
  <2>. QED BY <1>2, <1>3, <1>4, <2>1
<1>5. CASE o # <<>>
  <2>1. PICK m \in DOMAIN o : m = Len(o)
    BY <1>1, <1>5
  <2>2. Last(o) = o[m] /\ o[m] \in Stored /\ IsRecord(o[m]) /\ IsRecord(r)
    <3>1. o[m] \in Stored /\ Last(o) = o[m]
      BY <1>1, <2>1 DEF Last
    <3>. QED BY <3>1, StoredRecords
  <2>3. ASSUME Taken(o, r) PROVE ~Before(o[m], r)
    <3>1. PICK k \in DOMAIN o : o[k] = r
      BY <2>3 DEF Taken
    <3>2. CASE k = m
      BY <2>2, <3>1, <3>2, BeforeOrders
    <3>3. CASE k # m
      <4>1. k < m
        BY <1>1, <2>1, <3>3
      <4>2. Before(o[k], o[m])
        BY <4>1 DEF ReadOK, Sorted
      <4>3. Before(r, o[m])
        BY <3>1, <4>2
      <4>. QED BY <2>2, <4>3, BeforeOrders
    <3>. QED BY <3>2, <3>3
  <2>4. ASSUME ~Taken(o, r), r.tick = t PROVE Before(o[m], r)
    BY <2>1, <2>4 DEF ReadOK
  <2>. QED BY <1>2, <1>3, <1>5, <2>2, <2>3, <2>4
<1>. QED BY <1>4, <1>5

LEMMA LeastLeft ==
    ASSUME StoreTypes, NEW t, NEW o, LeftAt(t, o) # {}
    PROVE  \E i \in LeftAt(t, o) :
              /\ LeastOf(LeftAt(t, o)) = records[i]
              /\ \A j \in LeftAt(t, o) : records[j] = records[i] \/ Before(records[i], records[j])
<1>1. LeftAt(t, o) \subseteq DOMAIN records /\ \A i \in LeftAt(t, o) : records[i].tick = t
  BY DEF LeftAt
<1>. QED BY <1>1, LeastFound

LEMMA TakeNextType ==
    ASSUME StoreTypes, NEW t, NEW o \in Seq(Stored)
    PROVE  TakeNext(t, o) \in Seq(Stored)
<1>1. CASE LeftAt(t, o) = {}
  BY <1>1 DEF TakeNext
<1>2. CASE LeftAt(t, o) # {}
  <2>1. PICK i \in LeftAt(t, o) : LeastOf(LeftAt(t, o)) = records[i]
    BY <1>2, LeastLeft
  <2>2. records[i] \in Stored
    BY DEF LeftAt, Stored
  <2>3. PICK r \in Stored : r = LeastOf(LeftAt(t, o))
    BY <2>1, <2>2
  <2>4. TakeNext(t, o) = Append(o, r)
    BY <1>2, <2>3 DEF TakeNext
  <2>. QED BY <2>4
<1>. QED BY <1>1, <1>2

LEMMA TakeNextIs ==
    ASSUME StoreTypes, NEW t, NEW n \in Nat, NEW o, ReadOK(t, n, o)
    PROVE  ReadOK(t, n + 1, TakeNext(t, o))
<1>1. /\ o \in Seq(Stored) /\ Len(o) \in Nat /\ DOMAIN o = 1 .. Len(o) /\ Len(o) <= n
      /\ \A k \in DOMAIN o : o[k].tick = t /\ o[k] \in Stored /\ IsRecord(o[k])
  <2>1. o \in Seq(Stored) /\ Len(o) <= n /\ \A k \in DOMAIN o : o[k].tick = t
    BY DEF ReadOK
  <2>2. \A k \in DOMAIN o : o[k] \in Stored
    BY <2>1
  <2>. QED BY <2>1, <2>2, StoredRecords
<1>2. CASE LeftAt(t, o) = {}
  <2>1. TakeNext(t, o) = o
    BY <1>2 DEF TakeNext
  <2>2. ASSUME NEW r \in Stored, r.tick = t PROVE Taken(o, r)
    <3>1. PICK i \in DOMAIN records : r = records[i]
      BY DEF Stored
    <3>. QED BY <1>2, <2>2, <3>1, LeftAtIs
  <2>3. Len(o) <= n + 1
    BY <1>1
  <2>. QED BY <1>1, <2>1, <2>2, <2>3 DEF ReadOK
<1>3. CASE LeftAt(t, o) # {}
  <2>1. PICK i \in LeftAt(t, o) :
            /\ LeastOf(LeftAt(t, o)) = records[i]
            /\ \A j \in LeftAt(t, o) : records[j] = records[i] \/ Before(records[i], records[j])
    BY <1>3, LeastLeft
  <2>2. PICK m \in Stored : m = records[i]
    BY DEF LeftAt, Stored
  <2>3. PICK p : p = TakeNext(t, o)
    OBVIOUS
  <2>4. p = Append(o, m)
    BY <1>3, <2>1, <2>2, <2>3 DEF TakeNext
  <2>5. PICK L \in Nat : L = Len(o)
    BY <1>1
  <2>6. /\ p \in Seq(Stored) /\ Len(p) = L + 1 /\ DOMAIN p = 1 .. L + 1 /\ DOMAIN o = 1 .. L
        /\ p[L + 1] = m /\ \A k \in 1 .. L : p[k] = o[k]
    BY <1>1, <2>4, <2>5
  <2>. HIDE <2>4
  <2>7. i \in DOMAIN records /\ m.tick = t /\ ~Taken(o, m) /\ IsRecord(m)
    <3>1. i \in DOMAIN records
      BY DEF LeftAt
    <3>. QED BY <2>2, <3>1, LeftAtIs, StoredFacts
  <2>8. \A k \in 1 .. L : Before(o[k], m)
    BY <2>6, <2>7 DEF ReadOK
  <2>9. Sorted(p)
    <3>. SUFFICES ASSUME NEW j \in 1 .. L + 1, NEW k \in 1 .. L + 1, j < k
                  PROVE  Before(p[j], p[k])
      BY <2>6 DEF Sorted
    <3>1. CASE k = L + 1
      <4>1. j \in 1 .. L
        BY <2>5, <3>1
      <4>. QED BY <2>6, <2>8, <3>1, <4>1
    <3>2. CASE k # L + 1
      <4>1. j \in 1 .. L /\ k \in 1 .. L
        BY <2>5, <3>2
      <4>2. Before(o[j], o[k])
        BY <2>6, <4>1 DEF ReadOK, Sorted
      <4>. QED BY <2>6, <4>1, <4>2
    <3>. QED BY <3>1, <3>2
  <2>10. \A k \in DOMAIN p : p[k].tick = t
    <3>1. \A k \in 1 .. L : p[k].tick = t
      BY <1>1, <2>6
    <3>2. \A k \in 1 .. L + 1 : k \in 1 .. L \/ k = L + 1
      BY <2>5
    <3>. QED BY <2>6, <2>7, <3>1, <3>2
  <2>11. \A r : Taken(p, r) <=> Taken(o, r) \/ r = m
    <3>1. \A k : k \in 1 .. L + 1 <=> k \in 1 .. L \/ k = L + 1
      BY <2>5
    <3>. QED BY <2>6, <3>1 DEF Taken
  <2>12. ASSUME NEW r \in Stored, r.tick = t, ~Taken(p, r)
         PROVE  \A k \in DOMAIN p : Before(p[k], r)
    <3>1. PICK j \in DOMAIN records : r = records[j]
      BY DEF Stored
    <3>2. ~Taken(o, r) /\ r # m
      BY <2>11, <2>12
    <3>3. j \in LeftAt(t, o)
      BY <2>12, <3>1, <3>2, LeftAtIs
    <3>4. Before(m, r)
      BY <2>1, <2>2, <3>1, <3>2, <3>3
    <3>5. \A k \in 1 .. L : Before(o[k], r)
      BY <2>6, <2>12, <3>2 DEF ReadOK
    <3>6. \A k \in 1 .. L + 1 : k \in 1 .. L \/ k = L + 1
      BY <2>5
    <3>. QED BY <2>6, <3>4, <3>5, <3>6
  <2>13. Len(p) <= n + 1
    BY <1>1, <2>5, <2>6
  <2>14. ASSUME Len(p) < n + 1 PROVE FALSE
    <3>1. Len(o) < n
      BY <1>1, <2>5, <2>6, <2>14
    <3>. QED BY <2>7, <3>1 DEF ReadOK
  <2>15. ReadOK(t, n + 1, p)
    BY <2>6, <2>9, <2>10, <2>12, <2>13, <2>14 DEF ReadOK
  <2>. QED BY <2>3, <2>15
<1>. QED BY <1>2, <1>3

\* The loop of log_store_at_tick.
ReadStep(t, o, n) == IF n = 0 THEN <<>> ELSE TakeNext(t, o[n - 1])
IsReading(t, cap, o) == o = [n \in 0 .. cap |-> ReadStep(t, o, n)]

LEMMA ReadsIs ==
    ASSUME StoreTypes, NEW t, NEW cap \in Nat
    PROVE  ReadOK(t, cap, Reads(t, cap))
<1>. DEFINE G == [p \in Seq(Stored) \X (1 .. cap) |-> TakeNext(t, p[1])]
            none == <<>>
<1>1. none \in Seq(Stored) /\ Len(none) = 0 /\ DOMAIN none = {}
  OBVIOUS
<1>2. /\ G \in [Seq(Stored) \X (1 .. cap) -> Seq(Stored)]
      /\ \A o \in Seq(Stored), i \in 1 .. cap : G[<<o, i>>] = TakeNext(t, o)
  BY TakeNextType
<1>. HIDE DEF G, none
<1>3. PICK h \in [0 .. cap -> Seq(Stored)] : Iterates(G, none, cap, h)
  BY <1>1, <1>2, IterationExists
<1>4. \A n \in 0 .. cap : h[n] = ReadStep(t, h, n)
  <2>. SUFFICES ASSUME NEW n \in 0 .. cap PROVE h[n] = ReadStep(t, h, n)
    OBVIOUS
  <2>1. CASE n = 0
    BY <1>3, <2>1 DEF Iterates, ReadStep, none
  <2>2. CASE n # 0
    <3>1. n \in 1 .. cap /\ n - 1 \in 0 .. cap
      BY <2>2
    <3>. QED BY <1>2, <1>3, <2>2, <3>1 DEF Iterates, ReadStep
  <2>. QED BY <2>1, <2>2
<1>5. IsReading(t, cap, h)
  <2>1. h = [n \in 0 .. cap |-> h[n]]
    OBVIOUS
  <2>. QED BY <1>4, <2>1 DEF IsReading
<1>6. PICK out : out = CHOOSE o : IsReading(t, cap, o)
  OBVIOUS
<1>7. IsReading(t, cap, out)
  BY <1>5, <1>6
<1>8. Reads(t, cap) = out[cap]
  BY <1>6 DEF Reads, IsReading, ReadStep
<1>9. \A n \in 0 .. cap : out[n] = ReadStep(t, out, n)
  BY <1>7 DEF IsReading
<1>. DEFINE T == {n \in 0 .. cap : ~ReadOK(t, n, out[n])}
<1>10. ASSUME T # {} PROVE FALSE
  <2>1. PICK n \in T : \A k \in T : n <= k
    <3>1. T \subseteq Nat
      OBVIOUS
    <3>. HIDE DEF T
    <3>. QED BY <1>10, <3>1, Least
  <2>2. n \in 0 .. cap /\ ~ReadOK(t, n, out[n])
    OBVIOUS
  <2>3. n # 0
    <3>. SUFFICES ASSUME n = 0 PROVE FALSE
      OBVIOUS
    <3>1. out[n] = none
      BY <1>9, <2>2 DEF ReadStep, none
    <3>2. ReadOK(t, n, none)
      BY <1>1 DEF ReadOK, Sorted
    <3>. QED BY <2>2, <3>1, <3>2
  <2>4. n - 1 \in 0 .. cap /\ n - 1 \notin T /\ n - 1 \in Nat /\ (n - 1) + 1 = n
    BY <2>1, <2>2, <2>3
  <2>5. PICK o : o = out[n - 1]
    OBVIOUS
  <2>6. PICK m \in Nat : m = n - 1
    BY <2>4
  <2>7. ReadOK(t, m, o)
    BY <2>4, <2>5, <2>6
  <2>8. ReadOK(t, m + 1, TakeNext(t, o))
    BY <2>7, TakeNextIs
  <2>9. out[n] = TakeNext(t, o)
    BY <1>9, <2>2, <2>3, <2>5 DEF ReadStep
  <2>. QED BY <2>2, <2>4, <2>6, <2>8, <2>9
<1>11. cap \in 0 .. cap /\ cap \notin T
  BY <1>10
<1>. QED BY <1>8, <1>11

-----------------------------------------------------------------------------
(* How many records.                                                       *)

\* As many values as places, when no value is repeated.
LEMMA CountValues ==
    ASSUME NEW S, IsFiniteSet(S), NEW f, \A p, q \in S : f[p] = f[q] => p = q,
           NEW T, \A x : x \in T <=> \E p \in S : f[p] = x
    PROVE  IsFiniteSet(T) /\ Cardinality(T) = Cardinality(S)
<1>. DEFINE F == [p \in S |-> f[p]]
<1>1. F \in [S -> T] /\ \A p, q \in S : F[p] = F[q] => p = q
  OBVIOUS
<1>2. \A t \in T : \E p \in S : F[p] = t
  OBVIOUS
<1>. HIDE DEF F
<1>3. F \in Surjection(S, T)
  BY <1>1, <1>2, Fun_IsSurj
<1>4. F \in Bijection(S, T)
  BY <1>1, <1>3, Fun_IsBij
<1>5. ExistsBijection(S, T)
  BY <1>4 DEF ExistsBijection
<1>. QED BY <1>5, FS_Bijection

Here(t) == {r \in Stored : r.tick = t}
PlacesAt(t) == {i \in DOMAIN records : records[i].tick = t}

LEMMA HereCount ==
    ASSUME StoreTypes, StoredOnce, NEW t
    PROVE  /\ IsFiniteSet(Here(t)) /\ Cardinality(Here(t)) = CountAt(t) /\ CountAt(t) \in Nat
           /\ IsFiniteSet(PlacesAt(t)) /\ CountAt(t) = Cardinality(PlacesAt(t))
<1>1. IsFiniteSet(PlacesAt(t))
  <2>1. Len(records) \in Nat /\ DOMAIN records = 1 .. Len(records)
    BY DEF StoreTypes
  <2>2. IsFiniteSet(1 .. Len(records))
    BY <2>1, FS_Interval
  <2>3. PlacesAt(t) \in SUBSET (1 .. Len(records))
    BY <2>1 DEF PlacesAt
  <2>. QED BY <2>2, <2>3, FS_Subset
<1>2. CountAt(t) = Cardinality(PlacesAt(t))
  BY DEF CountAt, PlacesAt
<1>3. \A p, q \in PlacesAt(t) : records[p] = records[q] => p = q
  BY DEF PlacesAt, StoredOnce
<1>4. \A x : x \in Here(t) <=> \E p \in PlacesAt(t) : records[p] = x
  BY DEF Here, Stored, PlacesAt
<1>5. IsFiniteSet(Here(t)) /\ Cardinality(Here(t)) = Cardinality(PlacesAt(t))
  BY <1>1, <1>3, <1>4, CountValues
<1>6. Cardinality(PlacesAt(t)) \in Nat
  BY <1>1, FS_CardinalityType
<1>. QED BY <1>1, <1>2, <1>5, <1>6

\* A sorted sequence repeats nothing.
LEMMA SortedCount ==
    ASSUME StoreTypes, NEW o \in Seq(Stored), Sorted(o)
    PROVE  IsFiniteSet(ToSet(o)) /\ Cardinality(ToSet(o)) = Len(o)
<1>1. Len(o) \in Nat /\ DOMAIN o = 1 .. Len(o) /\ \A k \in DOMAIN o : o[k] \in Stored
  OBVIOUS
<1>2. IsFiniteSet(DOMAIN o) /\ Cardinality(DOMAIN o) = Len(o)
  <2>1. PICK L \in Nat : L = Len(o) /\ DOMAIN o = 1 .. L
    BY <1>1
  <2>2. IsFiniteSet(1 .. L) /\ Cardinality(1 .. L) = IF 1 > L THEN 0 ELSE (L - 1) + 1
    BY FS_Interval
  <2>. QED BY <2>1, <2>2
<1>3. \A p, q \in DOMAIN o : o[p] = o[q] => p = q
  <2>. SUFFICES ASSUME NEW p \in DOMAIN o, NEW q \in DOMAIN o, o[p] = o[q], p < q PROVE FALSE
    BY <1>1
  <2>1. Before(o[p], o[q]) /\ IsRecord(o[p])
    BY <1>1, StoredRecords DEF Sorted
  <2>2. Before(o[p], o[p])
    BY <2>1
  <2>. QED BY <2>1, <2>2, BeforeOrders
<1>4. \A x : x \in ToSet(o) <=> \E p \in DOMAIN o : o[p] = x
  BY DEF ToSet
<1>. QED BY <1>2, <1>3, <1>4, CountValues

LEMMA MinOfTwo ==
    ASSUME NEW a \in Nat, NEW b \in Nat
    PROVE  (a <= b => Min({a, b}) = a) /\ (b <= a => Min({a, b}) = b)
BY DEF Min

LEMMA TakenCount ==
    ASSUME StoreTypes, StoredOnce, NEW t, NEW n \in Nat, NEW o, ReadOK(t, n, o)
    PROVE  /\ ToSet(o) \subseteq Here(t)
           /\ Cardinality(ToSet(o)) = Min({n, Cardinality(Here(t))})
           /\ (\A r \in Stored : r.tick = t => Taken(o, r)) <=> ToSet(o) = Here(t)
           /\ Cardinality(Here(t)) <= n => ToSet(o) = Here(t)
<1>1. o \in Seq(Stored) /\ Sorted(o) /\ Len(o) <= n /\ \A k \in DOMAIN o : o[k].tick = t
  BY DEF ReadOK
<1>2. IsFiniteSet(ToSet(o)) /\ Cardinality(ToSet(o)) = Len(o) /\ Len(o) \in Nat
  BY <1>1, SortedCount
<1>3. \A r : r \in ToSet(o) <=> Taken(o, r)
  BY DEF ToSet, Taken
<1>4. ToSet(o) \subseteq Here(t)
  BY <1>1, <1>3 DEF Here, Taken
<1>5. (\A r \in Stored : r.tick = t => Taken(o, r)) <=> ToSet(o) = Here(t)
  BY <1>3, <1>4 DEF Here
<1>6. IsFiniteSet(Here(t)) /\ Cardinality(Here(t)) \in Nat
  BY HereCount
<1>7. Len(o) <= Cardinality(Here(t)) /\ (Cardinality(Here(t)) = Len(o) => ToSet(o) = Here(t))
  <2>1. ToSet(o) \in SUBSET Here(t)
    BY <1>4
  <2>2. Cardinality(ToSet(o)) <= Cardinality(Here(t)) /\ (Cardinality(Here(t)) = Cardinality(ToSet(o)) => Here(t) = ToSet(o))
    BY <1>6, <2>1, FS_Subset
  <2>. QED BY <1>2, <2>2
<1>8. Len(o) < n => ToSet(o) = Here(t)
  BY <1>5 DEF ReadOK
<1>9. PICK h \in Nat : h = Cardinality(Here(t))
  BY <1>6
<1>10. CASE Len(o) < n
  <2>1. h = Len(o)
    BY <1>2, <1>8, <1>9, <1>10
  <2>2. Min({n, h}) = h
    BY <1>10, <2>1, MinOfTwo
  <2>. QED BY <1>2, <1>4, <1>5, <1>8, <1>9, <1>10, <2>1, <2>2
<1>11. CASE Len(o) = n
  <2>1. n <= h
    BY <1>7, <1>9, <1>11
  <2>2. Min({n, h}) = n
    BY <2>1, MinOfTwo
  <2>3. h <= n => h = n
    BY <2>1
  <2>. QED BY <1>2, <1>4, <1>5, <1>7, <1>9, <1>11, <2>2, <2>3
<1>. QED BY <1>1, <1>2, <1>10, <1>11

LEMMA ReadsInOrder ==
    ASSUME LogIInv
    PROVE  ReadIsOrdered
<1>0. StoreTypes /\ StoredOnce
  BY DEF LogIInv
<1>. SUFFICES ASSUME NEW t \in LogTickRange, NEW cap \in 0 .. MaxRecords + 1
              PROVE  LET here == {r \in ToSet(records) : r.tick = t}
                         read == AtTick(t, cap)
                         taken == ToSet(read.out)
                     IN /\ \A i \in 2 .. Len(read.out) : Before(read.out[i - 1], read.out[i])
                        /\ taken \subseteq here
                        /\ \A r \in here \ taken, k \in taken : Before(k, r)
                        /\ Cardinality(taken) = Min({cap, Cardinality(here)})
                        /\ read.truncated <=> here # taken
  BY DEF ReadIsOrdered
<1>1. cap \in Nat
  BY LogConstants
<1>2. PICK o : o = Reads(t, cap)
  OBVIOUS
<1>3. ReadOK(t, cap, o)
  BY <1>0, <1>1, <1>2, ReadsIs
<1>4. AtTick(t, cap).out = o /\ AtTick(t, cap).truncated = (LeftAt(t, o) # {})
  BY <1>2 DEF AtTick
<1>5. {r \in ToSet(records) : r.tick = t} = Here(t)
  BY DEF ToSet, Here, Stored
<1>6. \A i \in 2 .. Len(o) : Before(o[i - 1], o[i])
  <2>1. Len(o) \in Nat /\ DOMAIN o = 1 .. Len(o) /\ Sorted(o)
    BY <1>3 DEF ReadOK
  <2>. QED BY <2>1 DEF Sorted
<1>7. /\ ToSet(o) \subseteq Here(t) /\ Cardinality(ToSet(o)) = Min({cap, Cardinality(Here(t))})
      /\ (\A r \in Stored : r.tick = t => Taken(o, r)) <=> ToSet(o) = Here(t)
  BY <1>0, <1>1, <1>3, TakenCount
<1>8. \A r \in Here(t) \ ToSet(o), k \in ToSet(o) : Before(k, r)
  BY <1>3 DEF ReadOK, ToSet, Taken, Here
<1>9. LeftAt(t, o) # {} <=> Here(t) # ToSet(o)
  <2>1. \A i \in DOMAIN records : i \in LeftAt(t, o) <=> records[i].tick = t /\ ~Taken(o, records[i])
    BY <1>0, <1>3, LeftAtIs
  <2>2. LeftAt(t, o) \subseteq DOMAIN records
    BY DEF LeftAt
  <2>3. LeftAt(t, o) # {} <=> ~(\A r \in Stored : r.tick = t => Taken(o, r))
    BY <2>1, <2>2 DEF Stored
  <2>. QED BY <1>7, <2>3
<1>. QED BY <1>4, <1>5, <1>6, <1>7, <1>8, <1>9

-----------------------------------------------------------------------------
(* The log of a segment.                                                   *)

\* All the tick's records.
Section(t, o) == ReadOK(t, MaxRecords, o) /\ \A r \in Stored : r.tick = t => Taken(o, r)

LEMMA SectionIs ==
    ASSUME LogIInv, NEW t \in Nat
    PROVE  Section(t, Reads(t, MaxRecords))
<1>0. StoreTypes /\ StoredOnce /\ Fits /\ MaxRecords \in Nat
  BY LogConstants DEF LogIInv
<1>1. PICK o : o = Reads(t, MaxRecords)
  OBVIOUS
<1>2. ReadOK(t, MaxRecords, o)
  BY <1>0, <1>1, ReadsIs
<1>3. CASE t \in LogTickRange
  <2>1. Cardinality(Here(t)) <= MaxRecords
    BY <1>0, <1>3, HereCount DEF Fits
  <2>. QED BY <1>0, <1>1, <1>2, <2>1, TakenCount DEF Section
<1>4. CASE t \notin LogTickRange
  <2>1. \A r \in Stored : r.tick # t
    BY <1>0, <1>4, StoredFacts
  <2>. QED BY <1>1, <1>2, <2>1 DEF Section
<1>. QED BY <1>3, <1>4

\* The records of the ticks from base on, n of them.
Within(t, base, n) == t >= base /\ t < base + n
SegmentOK(base, n, log) ==
    /\ log \in Seq(Stored) /\ Sorted(log) /\ Len(log) <= MaxRecords * n
    /\ \A k \in DOMAIN log : Within(log[k].tick, base, n)
    /\ \A r \in Stored : Within(r.tick, base, n) => Taken(log, r)

LEMMA SegmentGrows ==
    ASSUME StoreTypes, NEW base \in Nat, NEW n \in Nat, NEW l, SegmentOK(base, n, l),
           NEW o, Section(base + n, o)
    PROVE  SegmentOK(base, n + 1, l \o o)
<1>1. PICK t \in Nat : t = base + n
  OBVIOUS
<1>2. /\ l \in Seq(Stored) /\ Sorted(l) /\ Len(l) <= MaxRecords * n
      /\ \A k \in DOMAIN l : Within(l[k].tick, base, n)
  BY DEF SegmentOK
<1>3. o \in Seq(Stored) /\ Sorted(o) /\ Len(o) <= MaxRecords /\ \A k \in DOMAIN o : o[k].tick = t
  BY <1>1 DEF Section, ReadOK
<1>4. PICK L \in Nat, M \in Nat : L = Len(l) /\ M = Len(o)
  BY <1>2, <1>3
<1>5. PICK p : p = l \o o
  OBVIOUS
<1>6. /\ p \in Seq(Stored) /\ Len(p) = L + M /\ DOMAIN p = 1 .. L + M
      /\ DOMAIN l = 1 .. L /\ DOMAIN o = 1 .. M
      /\ \A k \in 1 .. L : p[k] = l[k]
      /\ \A k \in 1 .. M : p[L + k] = o[k]
  BY <1>2, <1>3, <1>4, <1>5
<1>7. ASSUME NEW k \in 1 .. L + M, k \notin 1 .. L
      PROVE  \E j \in 1 .. M : k = L + j /\ p[k] = o[j]
  <2>1. k - L \in 1 .. M /\ k = L + (k - L)
    BY <1>7
  <2>. QED BY <1>6, <2>1
<1>71. ASSUME NEW k \in 1 .. L + M, k \notin 1 .. L PROVE p[k].tick = t
  <2>1. PICK j \in 1 .. M : p[k] = o[j]
    BY <1>7, <1>71
  <2>2. o[j].tick = t
    BY <1>3, <1>6
  <2>. QED BY <2>1, <2>2
<1>8. \A k \in 1 .. L : p[k].tick \in Nat /\ p[k].tick >= base /\ p[k].tick < t /\ IsRecord(p[k])
  <2>. SUFFICES ASSUME NEW k \in 1 .. L
                PROVE  p[k].tick \in Nat /\ p[k].tick >= base /\ p[k].tick < t /\ IsRecord(p[k])
    OBVIOUS
  <2>1. p[k] = l[k] /\ l[k] \in Stored /\ Within(l[k].tick, base, n)
    BY <1>2, <1>6
  <2>2. IsRecord(p[k])
    BY <2>1, StoredRecords
  <2>. QED BY <1>1, <2>1, <2>2 DEF IsRecord, Within
<1>9. Sorted(p)
  <2>. SUFFICES ASSUME NEW i \in 1 .. L + M, NEW k \in 1 .. L + M, i < k PROVE Before(p[i], p[k])
    BY <1>6 DEF Sorted
  <2>1. CASE i \in 1 .. L /\ k \in 1 .. L
    BY <1>2, <1>6, <2>1 DEF Sorted
  <2>2. CASE i \in 1 .. L /\ k \notin 1 .. L
    <3>1. p[k].tick = t
      BY <1>71, <2>2
    <3>. QED BY <1>8, <2>2, <3>1 DEF Before
  <2>3. CASE i \notin 1 .. L
    <3>1. k \notin 1 .. L
      BY <2>3
    <3>2. PICK a \in 1 .. M : i = L + a /\ p[i] = o[a]
      BY <1>7, <2>3
    <3>3. PICK b \in 1 .. M : k = L + b /\ p[k] = o[b]
      BY <1>7, <3>1
    <3>4. a < b
      BY <3>2, <3>3
    <3>. QED BY <1>3, <1>6, <3>2, <3>3, <3>4 DEF Sorted
  <2>. QED BY <2>1, <2>2, <2>3
<1>10. \A k \in DOMAIN p : Within(p[k].tick, base, n + 1)
  <2>1. ASSUME NEW k \in 1 .. L PROVE Within(p[k].tick, base, n + 1)
    BY <1>1, <1>8 DEF Within
  <2>2. ASSUME NEW k \in 1 .. L + M, k \notin 1 .. L PROVE Within(p[k].tick, base, n + 1)
    <3>1. p[k].tick = t
      BY <1>71, <2>2
    <3>. QED BY <1>1, <3>1 DEF Within
  <2>. QED BY <1>6, <2>1, <2>2
<1>11. Len(p) <= MaxRecords * (n + 1)
  <2>1. PICK m \in Nat : m = MaxRecords * n
    BY LogConstants
  <2>2. MaxRecords * (n + 1) = m + MaxRecords
    BY <2>1, LogConstants
  <2>. QED BY <1>2, <1>3, <1>4, <1>6, <2>1, <2>2, LogConstants
<1>12. ASSUME NEW r \in Stored, Within(r.tick, base, n + 1) PROVE Taken(p, r)
  <2>1. r.tick \in Nat
    BY StoredRecords DEF IsRecord
  <2>2. CASE r.tick = t
    <3>1. PICK k \in 1 .. M : o[k] = r
      BY <1>1, <1>6, <2>2 DEF Section, Taken
    <3>2. L + k \in 1 .. L + M
      BY <3>1
    <3>. QED BY <1>6, <3>1, <3>2 DEF Taken
  <2>3. CASE r.tick # t
    <3>1. Within(r.tick, base, n)
      BY <1>1, <1>12, <2>1, <2>3 DEF Within
    <3>2. PICK k \in 1 .. L : l[k] = r
      BY <1>6, <3>1 DEF SegmentOK, Taken
    <3>3. k \in 1 .. L + M
      BY <3>2
    <3>. QED BY <1>6, <3>2, <3>3 DEF Taken
  <2>. QED BY <2>2, <2>3
<1>. QED BY <1>5, <1>6, <1>9, <1>10, <1>11, <1>12 DEF SegmentOK

\* The loop over the ticks.
LogStep(base, l, t) ==
    IF t = 0 THEN <<>> ELSE l[t - 1] \o AtTick(base + t - 1, MaxRecords).out
IsLog(base, n, l) == l = [t \in 0 .. n |-> LogStep(base, l, t)]

LEMMA SegmentIs ==
    ASSUME LogIInv, NEW base \in Nat, NEW n \in Nat
    PROVE  SegmentOK(base, n, SegmentLog(base, n))
<1>0. StoreTypes
  BY DEF LogIInv
<1>. DEFINE G == [p \in Seq(Stored) \X (1 .. n) |-> p[1] \o Reads(base + p[2] - 1, MaxRecords)]
            none == <<>>
<1>1. none \in Seq(Stored) /\ Len(none) = 0 /\ DOMAIN none = {}
  OBVIOUS
<1>2. /\ G \in [Seq(Stored) \X (1 .. n) -> Seq(Stored)]
      /\ \A o \in Seq(Stored), i \in 1 .. n : G[<<o, i>>] = o \o Reads(base + i - 1, MaxRecords)
  <2>1. \A i \in 1 .. n : Reads(base + i - 1, MaxRecords) \in Seq(Stored)
    <3>. SUFFICES ASSUME NEW i \in 1 .. n PROVE Reads(base + i - 1, MaxRecords) \in Seq(Stored)
      OBVIOUS
    <3>1. PICK t \in Nat : t = base + i - 1
      OBVIOUS
    <3>. QED BY <3>1, SectionIs DEF Section, ReadOK
  <2>2. \A o \in Seq(Stored), i \in 1 .. n : o \o Reads(base + i - 1, MaxRecords) \in Seq(Stored)
    <3>. SUFFICES ASSUME NEW o \in Seq(Stored), NEW i \in 1 .. n
                  PROVE  o \o Reads(base + i - 1, MaxRecords) \in Seq(Stored)
      OBVIOUS
    <3>1. PICK r \in Seq(Stored) : r = Reads(base + i - 1, MaxRecords)
      BY <2>1
    <3>2. o \o r \in Seq(Stored)
      OBVIOUS
    <3>. QED BY <3>1, <3>2
  <2>. QED BY <2>2
<1>. HIDE DEF G, none
<1>3. PICK h \in [0 .. n -> Seq(Stored)] : Iterates(G, none, n, h)
  BY <1>1, <1>2, IterationExists
<1>4. \A t \in 0 .. n : h[t] = LogStep(base, h, t)
  <2>. SUFFICES ASSUME NEW t \in 0 .. n PROVE h[t] = LogStep(base, h, t)
    OBVIOUS
  <2>1. CASE t = 0
    BY <1>3, <2>1 DEF Iterates, LogStep, none
  <2>2. CASE t # 0
    <3>1. t \in 1 .. n /\ t - 1 \in 0 .. n
      BY <2>2
    <3>2. h[t] = G[<<h[t - 1], t>>] /\ h[t - 1] \in Seq(Stored)
      BY <1>3, <3>1 DEF Iterates
    <3>3. h[t] = h[t - 1] \o Reads(base + t - 1, MaxRecords)
      BY <1>2, <3>1, <3>2
    <3>. QED BY <2>2, <3>3 DEF LogStep, AtTick
  <2>. QED BY <2>1, <2>2
<1>5. IsLog(base, n, h)
  <2>1. h = [t \in 0 .. n |-> h[t]]
    OBVIOUS
  <2>. QED BY <1>4, <2>1 DEF IsLog
<1>6. PICK log : log = CHOOSE l : IsLog(base, n, l)
  OBVIOUS
<1>7. IsLog(base, n, log)
  BY <1>5, <1>6
<1>8. SegmentLog(base, n) = log[n]
  BY <1>6 DEF SegmentLog, IsLog, LogStep
<1>9. \A t \in 0 .. n : log[t] = LogStep(base, log, t)
  BY <1>7 DEF IsLog
<1>. DEFINE T == {t \in 0 .. n : ~SegmentOK(base, t, log[t])}
<1>10. ASSUME T # {} PROVE FALSE
  <2>1. PICK t \in T : \A k \in T : t <= k
    <3>1. T \subseteq Nat
      OBVIOUS
    <3>. HIDE DEF T
    <3>. QED BY <1>10, <3>1, Least
  <2>2. t \in 0 .. n /\ ~SegmentOK(base, t, log[t])
    OBVIOUS
  <2>3. t # 0
    <3>. SUFFICES ASSUME t = 0 PROVE FALSE
      OBVIOUS
    <3>1. log[t] = none
      BY <1>9, <2>2 DEF LogStep, none
    <3>2. ASSUME NEW r \in Stored PROVE ~Within(r.tick, base, t)
      <4>1. r.tick \in Nat
        BY <1>0, StoredRecords DEF IsRecord
      <4>. QED BY <4>1 DEF Within
    <3>3. Len(none) <= MaxRecords * t
      BY <1>1, LogConstants
    <3>4. SegmentOK(base, t, none)
      BY <1>1, <3>2, <3>3 DEF SegmentOK, Sorted
    <3>. QED BY <2>2, <3>1, <3>4
  <2>4. t - 1 \in 0 .. n /\ t - 1 \notin T /\ t - 1 \in Nat /\ (t - 1) + 1 = t
        /\ base + t - 1 = base + (t - 1)
    BY <2>1, <2>2, <2>3
  <2>5. PICK l : l = log[t - 1]
    OBVIOUS
  <2>6. PICK m \in Nat, b \in Nat : m = t - 1 /\ b = base + m /\ b = base + t - 1
    BY <2>4
  <2>7. SegmentOK(base, m, l)
    BY <2>4, <2>5, <2>6
  <2>8. PICK o : o = Reads(b, MaxRecords)
    OBVIOUS
  <2>9. Section(base + m, o)
    BY <2>6, <2>8, SectionIs
  <2>10. SegmentOK(base, m + 1, l \o o)
    BY <1>0, <2>7, <2>9, SegmentGrows
  <2>11. log[t] = l \o o
    BY <1>9, <2>2, <2>3, <2>5, <2>6, <2>8 DEF LogStep, AtTick
  <2>. QED BY <2>2, <2>4, <2>6, <2>10, <2>11
<1>11. n \in 0 .. n
  OBVIOUS
<1>12. n \notin T
  BY <1>10
<1>. QED BY <1>8, <1>11, <1>12

-----------------------------------------------------------------------------
(* What the archive checks of the log.                                     *)

\* In any order of an origin's records by tick, the sequence numbers follow.
LEMMA SeqGrows ==
    ASSUME StoreTypes, NEW a \in Stored, NEW b \in Stored, a.origin = b.origin, Before(a, b)
    PROVE  a.seq < b.seq
<1>1. /\ a.tick \in Nat /\ b.tick \in Nat /\ a.seq \in Nat /\ b.seq \in Nat /\ a.origin \in Nat
      /\ <<a.origin, a.seq>> \in Ids /\ <<a.origin, b.seq>> \in Ids
      /\ a.tick = sequenced[<<a.origin, a.seq>>] /\ b.tick = sequenced[<<a.origin, b.seq>>]
  <2>1. IsRecord(a) /\ IsRecord(b)
    BY StoredFacts
  <2>. QED BY <2>1, StoredFacts DEF IsRecord
<1>2. ASSUME b.seq <= a.seq PROVE FALSE
  <2>1. b.tick <= a.tick
    BY <1>1, <1>2, FrontierGrows
  <2>. QED BY <1>1, <1>2, <2>1 DEF Before
<1>. QED BY <1>1, <1>2

LEMMA GreatestFound ==
    ASSUME NEW n \in Nat, NEW S, S \subseteq 1 .. n, S # {}
    PROVE  Max(S) \in S
<1>. DEFINE T == {n - x : x \in S}
<1>0. \A x \in S : x \in Nat /\ n - x \in Nat
  <2>. SUFFICES ASSUME NEW x \in S PROVE x \in Nat /\ n - x \in Nat
    OBVIOUS
  <2>1. x \in 1 .. n
    OBVIOUS
  <2>. QED BY <2>1
<1>1. PICK m \in T : \A y \in T : m <= y
  <2>1. T \subseteq Nat /\ T # {}
    BY <1>0
  <2>. HIDE DEF T
  <2>. QED BY <2>1, Least
<1>2. PICK x \in S : m = n - x
  OBVIOUS
<1>3. \A y \in S : x >= y
  <2>. SUFFICES ASSUME NEW y \in S PROVE x >= y
    OBVIOUS
  <2>1. m <= n - y
    BY <1>1
  <2>2. x \in Nat /\ y \in Nat
    BY <1>0
  <2>. QED BY <1>2, <2>1, <2>2
<1>. QED BY <1>3 DEF Max

SameTick(log, t) == {j \in DOMAIN log : log[j].tick = t}

LEMMA FewAtTick ==
    ASSUME LogIInv, NEW log \in Seq(Stored), Sorted(log), NEW t \in LogTickRange
    PROVE  /\ IsFiniteSet(SameTick(log, t)) /\ Cardinality(SameTick(log, t)) \in Nat
           /\ Cardinality(SameTick(log, t)) <= MaxRecords
<1>0. StoreTypes /\ StoredOnce /\ Fits
  BY DEF LogIInv
<1>1. Len(log) \in Nat /\ DOMAIN log = 1 .. Len(log) /\ \A j \in DOMAIN log : log[j] \in Stored
  OBVIOUS
<1>2. IsFiniteSet(SameTick(log, t))
  <2>1. IsFiniteSet(1 .. Len(log)) /\ SameTick(log, t) \in SUBSET (1 .. Len(log))
    BY <1>1, FS_Interval DEF SameTick
  <2>. QED BY <2>1, FS_Subset
<1>3. \A p, q \in SameTick(log, t) : log[p] = log[q] => p = q
  <2>. SUFFICES ASSUME NEW p \in SameTick(log, t), NEW q \in SameTick(log, t),
                       log[p] = log[q], p < q
                PROVE  FALSE
    BY <1>1 DEF SameTick
  <2>1. Before(log[p], log[q]) /\ IsRecord(log[p])
    BY <1>0, <1>1, StoredRecords DEF Sorted, SameTick
  <2>2. Before(log[p], log[p])
    BY <2>1
  <2>. QED BY <2>1, <2>2, BeforeOrders
<1>. DEFINE V == {log[p] : p \in SameTick(log, t)}
<1>4. \A x : x \in V <=> \E p \in SameTick(log, t) : log[p] = x
  OBVIOUS
<1>5. V \in SUBSET Here(t)
  BY <1>1 DEF SameTick, Here
<1>. HIDE DEF V
<1>6. Cardinality(V) = Cardinality(SameTick(log, t))
  BY <1>2, <1>3, <1>4, CountValues
<1>7. IsFiniteSet(Here(t)) /\ Cardinality(Here(t)) <= MaxRecords /\ Cardinality(Here(t)) \in Nat
  BY <1>0, HereCount DEF Fits
<1>8. Cardinality(V) <= Cardinality(Here(t))
  BY <1>5, <1>7, FS_Subset
<1>9. Cardinality(SameTick(log, t)) \in Nat
  BY <1>2, FS_CardinalityType
<1>. QED BY <1>2, <1>6, <1>7, <1>8, <1>9, LogConstants

\* What the records of a segment are, one by one.
LEMMA LogFacts ==
    ASSUME LogIInv, NEW base \in Nat, NEW n \in Nat, NEW log, SegmentOK(base, n, log)
    PROVE  /\ log \in Seq(Stored) /\ Sorted(log) /\ Len(log) \in Nat
           /\ DOMAIN log = 1 .. Len(log) /\ Len(log) <= MaxRecords * n
           /\ \A i \in DOMAIN log :
                 /\ log[i] \in Stored /\ IsRecord(log[i])
                 /\ log[i].origin \in Nat /\ log[i].seq \in Nat /\ log[i].tick \in LogTickRange
                 /\ log[i].tick >= base /\ log[i].tick - base < n
           /\ \A i, j \in DOMAIN log : i < j =>
                 /\ Before(log[i], log[j])
                 /\ log[i].origin = log[j].origin => log[i].seq < log[j].seq
<1>0. StoreTypes
  BY DEF LogIInv
<1>1. log \in Seq(Stored) /\ Sorted(log) /\ Len(log) <= MaxRecords * n
      /\ \A k \in DOMAIN log : Within(log[k].tick, base, n)
  BY DEF SegmentOK
<1>2. ASSUME NEW i \in DOMAIN log
      PROVE  /\ log[i] \in Stored /\ IsRecord(log[i])
             /\ log[i].origin \in Nat /\ log[i].seq \in Nat /\ log[i].tick \in LogTickRange
             /\ log[i].tick >= base /\ log[i].tick - base < n
  <2>1. log[i] \in Stored
    BY <1>1
  <2>2. IsRecord(log[i]) /\ log[i].tick \in LogTickRange
    BY <1>0, <2>1, StoredFacts
  <2>. QED BY <1>1, <2>1, <2>2 DEF IsRecord, Within
<1>3. ASSUME NEW i \in DOMAIN log, NEW j \in DOMAIN log, i < j
      PROVE  /\ Before(log[i], log[j])
             /\ log[i].origin = log[j].origin => log[i].seq < log[j].seq
  <2>1. Before(log[i], log[j])
    BY <1>1, <1>3 DEF Sorted
  <2>. QED BY <1>0, <1>2, <2>1, SeqGrows
<1>. QED BY <1>1, <1>2, <1>3

LEMMA EncoderAccepts ==
    ASSUME LogIInv, NEW base \in Nat, NEW n \in Nat, NEW log, SegmentOK(base, n, log),
           n <= MaxTicks, \A i \in DOMAIN log : WellFormed(log[i])
    PROVE  EncoderTakes(log, base, n)
<1>1. /\ log \in Seq(Stored) /\ Sorted(log) /\ Len(log) \in Nat
      /\ DOMAIN log = 1 .. Len(log) /\ Len(log) <= MaxRecords * n
      /\ \A i \in DOMAIN log :
            /\ log[i].tick \in LogTickRange /\ log[i].seq \in Nat
            /\ log[i].tick >= base /\ log[i].tick - base < n
      /\ \A i, j \in DOMAIN log : i < j =>
            /\ Before(log[i], log[j])
            /\ log[i].origin = log[j].origin => log[i].seq < log[j].seq
  BY LogFacts
<1>2. \A i \in 2 .. Len(log) : Before(log[i - 1], log[i])
  BY <1>1
<1>3. ASSUME NEW i \in DOMAIN log, {j \in 1 .. i - 1 : log[j].origin = log[i].origin} # {}
      PROVE  log[i].seq > log[Max({j \in 1 .. i - 1 : log[j].origin = log[i].origin})].seq
  <2>. DEFINE gone == {j \in 1 .. i - 1 : log[j].origin = log[i].origin}
  <2>1. gone \subseteq 1 .. i - 1 /\ i - 1 \in Nat
    BY <1>1
  <2>. HIDE DEF gone
  <2>2. PICK k : k = Max(gone)
    OBVIOUS
  <2>3. k \in gone
    BY <1>3, <2>1, <2>2, GreatestFound DEF gone
  <2>4. k \in DOMAIN log /\ k < i /\ log[k].origin = log[i].origin
    BY <1>1, <2>3 DEF gone
  <2>5. log[k].seq < log[i].seq /\ log[k].seq \in Nat /\ log[i].seq \in Nat
    BY <1>1, <2>4
  <2>. QED BY <2>2, <2>5 DEF gone
<1>4. ASSUME NEW i \in DOMAIN log
      PROVE  Cardinality({j \in 1 .. i : \A k \in j .. i : log[k].tick = log[i].tick}) <= MaxRecords
  <2>. DEFINE run == {j \in 1 .. i : \A k \in j .. i : log[k].tick = log[i].tick}
  <2>1. PICK t \in LogTickRange : t = log[i].tick
    BY <1>1
  <2>2. run \in SUBSET SameTick(log, t)
    BY <1>1, <2>1 DEF SameTick
  <2>. HIDE DEF run
  <2>3. IsFiniteSet(SameTick(log, t)) /\ Cardinality(SameTick(log, t)) <= MaxRecords
        /\ Cardinality(SameTick(log, t)) \in Nat
    BY <1>1, FewAtTick
  <2>4. IsFiniteSet(run) /\ Cardinality(run) <= Cardinality(SameTick(log, t))
    BY <2>2, <2>3, FS_Subset
  <2>5. Cardinality(run) \in Nat
    BY <2>4, FS_CardinalityType
  <2>. QED BY <2>3, <2>4, <2>5, LogConstants DEF run
<1>. QED BY <1>1, <1>2, <1>3, <1>4 DEF EncoderTakes

-----------------------------------------------------------------------------
(* What the decoder remembers after the first i records.                   *)

States == [ok : BOOLEAN, prev : Seq(Stored), run : Int, last_seq : [Slots -> Int]]

UpTo(log, i) == {j \in 1 .. i : log[j].tick = log[i].tick}

Remembers(log, i, s) ==
    /\ s \in States /\ s.ok
    /\ i = 0 => s.prev = <<>>
    /\ i > 0 => /\ s.prev # <<>> /\ s.prev[1] = log[i]
                /\ s.run <= Cardinality(UpTo(log, i))
    /\ \A o \in Slots : \/ s.last_seq[o] = -1
                        \/ \E j \in 1 .. i : log[j].origin = o /\ log[j].seq = s.last_seq[o]

LEMMA StartIs ==
    ASSUME LogIInv, NEW base \in Nat, NEW n \in Nat, NEW log, SegmentOK(base, n, log)
    PROVE  /\ DecoderStart(log, n) \in States
           /\ DecoderStart(log, n).ok <=> n <= MaxTicks
           /\ n <= MaxTicks => Remembers(log, 0, DecoderStart(log, n))
<1>1. Len(log) <= MaxRecords * n
  BY LogFacts
<1>2. PICK s : s = DecoderStart(log, n)
  OBVIOUS
<1>3. s.prev = <<>> /\ s.run = 0 /\ s.last_seq = [o \in Slots |-> -1]
  BY <1>2 DEF DecoderStart
<1>4. PICK b \in BOOLEAN : b <=> n <= MaxTicks
  OBVIOUS
<1>5. s \in States /\ (s.ok <=> n <= MaxTicks)
  <2>1. [o \in Slots |-> -1] \in [Slots -> Int]
    OBVIOUS
  <2>2. PICK f \in [Slots -> Int] : f = [o \in Slots |-> -1]
    BY <2>1
  <2>3. (n <= MaxTicks /\ Len(log) <= MaxRecords * n) = b
    BY <1>1, <1>4
  <2>4. PICK e \in Seq(Stored) : e = <<>>
    <3>1. <<>> \in Seq(Stored)
      OBVIOUS
    <3>. QED BY <3>1, Zenon
  <2>5. s = [ok |-> b, prev |-> e, run |-> 0, last_seq |-> f]
    BY <1>2, <2>2, <2>3, <2>4 DEF DecoderStart
  <2>. QED BY <1>4, <2>5 DEF States
<1>6. \A o \in Slots : s.last_seq[o] = -1
  BY <1>3
<1>. QED BY <1>2, <1>3, <1>5, <1>6 DEF Remembers

LEMMA StepType ==
    ASSUME StoreTypes, NEW s \in States, NEW r \in Stored, NEW base \in Nat, NEW n \in Nat
    PROVE  DecoderStep(s, r, base, n) \in States
<1>1. PICK f \in [Slots -> Int] : f = [s.last_seq EXCEPT ![r.origin] = r.seq]
  <2>1. r.seq \in Int
    BY StoredRecords DEF IsRecord
  <2>2. s.last_seq \in [Slots -> Int]
    BY DEF States
  <2>. QED BY <2>1, <2>2
<1>2. PICK k \in Int : k = RunOf(s, r)
  <2>1. s.run \in Int
    BY DEF States
  <2>. QED BY <2>1 DEF RunOf
<1>3. PICK e \in Seq(Stored) : e = <<r>>
  <2>1. <<r>> \in Seq(Stored)
    OBVIOUS
  <2>. QED BY <2>1, Zenon
<1>4. CASE s.ok /\ Follows(s, r, base, n)
  <2>1. DecoderStep(s, r, base, n) = [ok |-> TRUE, prev |-> e, run |-> k, last_seq |-> f]
    BY <1>1, <1>2, <1>3, <1>4 DEF DecoderStep
  <2>. QED BY <2>1 DEF States
<1>5. CASE ~(s.ok /\ Follows(s, r, base, n))
  <2>1. DecoderStep(s, r, base, n) = [s EXCEPT !.ok = FALSE]
    BY <1>5 DEF DecoderStep
  <2>. QED BY <2>1 DEF States
<1>. QED BY <1>4, <1>5

\* It goes on only from what it took, with a record that is as it should be.
LEMMA StepTook ==
    ASSUME NEW s \in States, NEW r, NEW base, NEW n, DecoderStep(s, r, base, n).ok
    PROVE  s.ok /\ WellFormed(r)
<1>1. CASE s.ok /\ Follows(s, r, base, n)
  BY <1>1 DEF Follows
<1>2. CASE ~(s.ok /\ Follows(s, r, base, n))
  <2>1. DecoderStep(s, r, base, n) = [s EXCEPT !.ok = FALSE]
    BY <1>2 DEF DecoderStep
  <2>2. [s EXCEPT !.ok = FALSE].ok = FALSE
    BY DEF States
  <2>. QED BY <2>1, <2>2
<1>. QED BY <1>1, <1>2

LEMMA StepIs ==
    ASSUME LogIInv, NEW base \in Nat, NEW n \in Nat, NEW log, SegmentOK(base, n, log),
           NEW i \in DOMAIN log, WellFormed(log[i]), NEW s, Remembers(log, i - 1, s)
    PROVE  Remembers(log, i, DecoderStep(s, log[i], base, n))
<1>0. StoreTypes
  BY DEF LogIInv
<1>1. /\ log \in Seq(Stored) /\ Sorted(log) /\ Len(log) \in Nat /\ DOMAIN log = 1 .. Len(log)
      /\ \A j \in DOMAIN log :
            /\ log[j] \in Stored
            /\ log[j].tick \in LogTickRange /\ log[j].seq \in Nat
            /\ log[j].tick >= base /\ log[j].tick - base < n
      /\ \A j, k \in DOMAIN log : j < k =>
            /\ Before(log[j], log[k])
            /\ log[j].origin = log[k].origin => log[j].seq < log[k].seq
  BY LogFacts
<1>2. PICK r \in Stored : r = log[i]
  BY <1>1
<1>3. PICK d : d = DecoderStep(s, r, base, n)
  OBVIOUS
<1>4. WellFormed(r) /\ r.origin \in Slots
  BY <1>2 DEF WellFormed
<1>5. s \in States /\ s.ok
  BY DEF Remembers
<1>6. d \in States
  BY <1>0, <1>3, <1>5, StepType
<1>7. PICK c \in Nat : c = Cardinality(UpTo(log, i)) /\ c <= MaxRecords
  <2>1. PICK t \in LogTickRange : t = r.tick
    BY <1>1, <1>2
  <2>2. UpTo(log, i) \in SUBSET SameTick(log, t)
    BY <1>1, <1>2, <2>1 DEF UpTo, SameTick
  <2>3. IsFiniteSet(SameTick(log, t)) /\ Cardinality(SameTick(log, t)) \in Nat
        /\ Cardinality(SameTick(log, t)) <= MaxRecords
    BY <1>1, FewAtTick
  <2>4. IsFiniteSet(UpTo(log, i)) /\ Cardinality(UpTo(log, i)) <= Cardinality(SameTick(log, t))
    BY <2>2, <2>3, FS_Subset
  <2>5. Cardinality(UpTo(log, i)) \in Nat
    BY <2>4, FS_CardinalityType
  <2>. QED BY <2>3, <2>4, <2>5, LogConstants
<1>8. RunOf(s, r) <= c
  <2>0. i \in Nat /\ i - 1 \in Nat /\ i >= 1 /\ IsFiniteSet(1 .. i - 1) /\ IsFiniteSet(1 .. i)
    <3>1. i \in Nat /\ i >= 1 /\ 1 \in Int
      BY <1>1
    <3>2. PICK k \in Int : k = i - 1
      BY <3>1
    <3>3. IsFiniteSet(1 .. k) /\ IsFiniteSet(1 .. i)
      BY <3>1, FS_Interval
    <3>. QED BY <3>1, <3>2, <3>3
  <2>1. CASE i = 1 \/ ~(s.prev # <<>> /\ s.prev[1].tick = r.tick)
    <3>1. RunOf(s, r) = 1
      BY <2>0, <2>1 DEF RunOf, Remembers
    <3>2. i \in UpTo(log, i)
      BY <2>0 DEF UpTo
    <3>3. IsFiniteSet(UpTo(log, i))
      <4>1. UpTo(log, i) \in SUBSET (1 .. i)
        BY DEF UpTo
      <4>. QED BY <2>0, <4>1, FS_Subset
    <3>4. c # 0
      BY <1>7, <3>2, <3>3, FS_EmptySet
    <3>. QED BY <3>1, <3>4
  <2>2. CASE i # 1 /\ s.prev # <<>> /\ s.prev[1].tick = r.tick
    <3>1. s.prev[1] = log[i - 1] /\ s.run <= Cardinality(UpTo(log, i - 1)) /\ i - 1 \in DOMAIN log
      BY <1>1, <2>0, <2>2 DEF Remembers
    <3>2. log[i - 1].tick = log[i].tick
      BY <1>2, <2>2, <3>1
    <3>3. UpTo(log, i) = UpTo(log, i - 1) \cup {i} /\ i \notin UpTo(log, i - 1)
      BY <2>0, <3>2 DEF UpTo
    <3>4. IsFiniteSet(UpTo(log, i - 1))
      <4>1. UpTo(log, i - 1) \in SUBSET (1 .. i - 1)
        BY DEF UpTo
      <4>. QED BY <2>0, <4>1, FS_Subset
    <3>5. Cardinality(UpTo(log, i)) = Cardinality(UpTo(log, i - 1)) + 1
      BY <3>3, <3>4, FS_AddElement
    <3>6. RunOf(s, r) = s.run + 1
      BY <2>2 DEF RunOf
    <3>7. s.run \in Int /\ Cardinality(UpTo(log, i - 1)) \in Nat
      BY <1>5, <3>4, FS_CardinalityType DEF States
    <3>. QED BY <1>7, <3>1, <3>5, <3>6, <3>7
  <2>. QED BY <2>1, <2>2
<1>9. s.last_seq[r.origin] < r.seq
  <2>1. PICK q : q = s.last_seq[r.origin]
    OBVIOUS
  <2>2. r.origin \in Slots /\ r.seq \in Nat
    BY <1>1, <1>2, <1>4
  <2>3. q = -1 \/ \E j \in 1 .. i - 1 : log[j].origin = r.origin /\ log[j].seq = q
    BY <2>1, <2>2 DEF Remembers
  <2>4. CASE q = -1
    BY <2>1, <2>2, <2>4
  <2>5. ASSUME NEW j \in 1 .. i - 1, log[j].origin = r.origin, log[j].seq = q
        PROVE  q < r.seq
    <3>1. j \in DOMAIN log /\ j < i
      BY <1>1
    <3>2. log[j].seq < log[i].seq
      BY <1>1, <1>2, <2>5, <3>1
    <3>. QED BY <1>2, <2>5, <3>2
  <2>. QED BY <2>1, <2>3, <2>4, <2>5
<1>10. s.prev # <<>> => Before(s.prev[1], r)
  <2>. SUFFICES ASSUME s.prev # <<>> PROVE Before(s.prev[1], r)
    OBVIOUS
  <2>1. i - 1 # 0
    BY <1>1 DEF Remembers
  <2>2. i - 1 \in DOMAIN log /\ i - 1 < i /\ i - 1 > 0
    BY <1>1, <2>1
  <2>3. s.prev[1] = log[i - 1]
    BY <2>2 DEF Remembers
  <2>. QED BY <1>1, <1>2, <2>2, <2>3
<1>11. Follows(s, r, base, n)
  <2>1. PICK k \in Int : k = RunOf(s, r)
    <3>1. s.run \in Int
      BY <1>5 DEF States
    <3>. QED BY <3>1 DEF RunOf
  <2>2. k <= MaxRecords
    BY <1>7, <1>8, <2>1, LogConstants
  <2>3. r.tick >= base /\ r.tick - base < n
    BY <1>1, <1>2
  <2>. QED BY <1>4, <1>9, <1>10, <2>1, <2>2, <2>3 DEF Follows
<1>14. /\ d.ok /\ d.prev = <<r>> /\ d.run = RunOf(s, r)
       /\ d.last_seq = [s.last_seq EXCEPT ![r.origin] = r.seq]
  BY <1>3, <1>5, <1>11 DEF DecoderStep
<1>12. i # 0 /\ d.prev # <<>> /\ d.prev[1] = log[i] /\ d.run <= Cardinality(UpTo(log, i))
  BY <1>1, <1>2, <1>7, <1>8, <1>14
<1>13. ASSUME NEW o \in Slots
       PROVE  \/ d.last_seq[o] = -1
              \/ \E j \in 1 .. i : log[j].origin = o /\ log[j].seq = d.last_seq[o]
  <2>1. s.last_seq \in [Slots -> Int]
    BY <1>5 DEF States
  <2>2. CASE o = r.origin
    <3>1. d.last_seq[o] = r.seq
      BY <1>14, <2>1, <2>2
    <3>2. i \in 1 .. i
      BY <1>1
    <3>. QED BY <1>2, <2>2, <3>1, <3>2
  <2>3. CASE o # r.origin
    <3>1. d.last_seq[o] = s.last_seq[o]
      BY <1>14, <2>1, <2>3
    <3>2. s.last_seq[o] = -1 \/ \E j \in 1 .. i - 1 : log[j].origin = o /\ log[j].seq = s.last_seq[o]
      BY DEF Remembers
    <3>3. \A j \in 1 .. i - 1 : j \in 1 .. i
      BY <1>1
    <3>. QED BY <3>1, <3>2, <3>3
  <2>. QED BY <2>2, <2>3
<1>. QED BY <1>2, <1>3, <1>6, <1>12, <1>13, <1>14 DEF Remembers

\* The decoder's one pass.
PassStep(log, base, n, f, i) ==
    IF i = 0 THEN DecoderStart(log, n) ELSE DecoderStep(f[i - 1], log[i], base, n)
IsPass(log, base, n, f) == f = [i \in 0 .. Len(log) |-> PassStep(log, base, n, f, i)]

Passes(log, base, n, state) ==
    /\ DecoderTakes(log, base, n) = state[Len(log)].ok
    /\ \A i \in 0 .. Len(log) :
          state[i] \in States /\ state[i] = PassStep(log, base, n, state, i)

LEMMA PassExists ==
    ASSUME LogIInv, NEW base \in Nat, NEW n \in Nat, NEW log, SegmentOK(base, n, log)
    PROVE  \E state : Passes(log, base, n, state)
<1>0. StoreTypes
  BY DEF LogIInv
<1>1. /\ log \in Seq(Stored) /\ Len(log) \in Nat /\ DOMAIN log = 1 .. Len(log)
      /\ \A i \in DOMAIN log : log[i] \in Stored
  BY LogFacts
<1>2. PICK m \in Nat : m = Len(log)
  BY <1>1
<1>3. PICK start \in States : start = DecoderStart(log, n)
  BY StartIs
<1>. DEFINE G == [p \in States \X (1 .. m) |-> DecoderStep(p[1], log[p[2]], base, n)]
<1>4. /\ G \in [States \X (1 .. m) -> States]
      /\ \A s \in States, i \in 1 .. m : G[<<s, i>>] = DecoderStep(s, log[i], base, n)
  <2>1. \A s \in States, i \in 1 .. m : DecoderStep(s, log[i], base, n) \in States
    <3>. SUFFICES ASSUME NEW s \in States, NEW i \in 1 .. m
                  PROVE  DecoderStep(s, log[i], base, n) \in States
      OBVIOUS
    <3>1. PICK r \in Stored : r = log[i]
      BY <1>1, <1>2
    <3>2. DecoderStep(s, r, base, n) \in States
      BY <1>0, StepType
    <3>. QED BY <3>1, <3>2
  <2>. QED BY <2>1
<1>. HIDE DEF G
<1>5. PICK h \in [0 .. m -> States] : Iterates(G, start, m, h)
  BY <1>4, IterationExists
<1>6. \A i \in 0 .. m : h[i] = PassStep(log, base, n, h, i)
  <2>. SUFFICES ASSUME NEW i \in 0 .. m PROVE h[i] = PassStep(log, base, n, h, i)
    OBVIOUS
  <2>1. CASE i = 0
    BY <1>3, <1>5, <2>1 DEF Iterates, PassStep
  <2>2. CASE i # 0
    <3>1. i \in 1 .. m /\ i - 1 \in 0 .. m
      BY <2>2
    <3>2. h[i] = G[<<h[i - 1], i>>] /\ h[i - 1] \in States
      BY <1>5, <3>1 DEF Iterates
    <3>. QED BY <1>4, <2>2, <3>1, <3>2 DEF PassStep
  <2>. QED BY <2>1, <2>2
<1>7. IsPass(log, base, n, h)
  <2>1. h = [i \in 0 .. m |-> h[i]]
    OBVIOUS
  <2>. QED BY <1>2, <1>6, <2>1 DEF IsPass
<1>8. PICK state : state = CHOOSE f : IsPass(log, base, n, f)
  OBVIOUS
<1>9. IsPass(log, base, n, state)
  BY <1>7, <1>8
<1>10. DecoderTakes(log, base, n) = state[m].ok
  BY <1>2, <1>8 DEF DecoderTakes, IsPass, PassStep
<1>11. \A i \in 0 .. m : state[i] = PassStep(log, base, n, state, i)
  BY <1>2, <1>9 DEF IsPass
<1>. DEFINE T == {i \in 0 .. m : state[i] \notin States}
<1>12. ASSUME T # {} PROVE FALSE
  <2>1. PICK i \in T : \A k \in T : i <= k
    <3>1. T \subseteq Nat
      OBVIOUS
    <3>. HIDE DEF T
    <3>. QED BY <1>12, <3>1, Least
  <2>2. i \in 0 .. m /\ state[i] \notin States
    OBVIOUS
  <2>3. i # 0
    BY <1>3, <1>11, <2>2 DEF PassStep
  <2>4. i \in 1 .. m /\ i - 1 \in 0 .. m /\ i - 1 \notin T
    BY <2>1, <2>2, <2>3
  <2>5. PICK s \in States : s = state[i - 1]
    BY <2>4
  <2>6. state[i] = DecoderStep(s, log[i], base, n)
    BY <1>11, <2>2, <2>3, <2>5 DEF PassStep
  <2>7. log[i] \in Stored
    BY <1>1, <1>2, <2>4
  <2>. QED BY <1>0, <2>2, <2>6, <2>7, StepType
<1>13. \A i \in 0 .. m : state[i] \in States
  BY <1>12
<1>. QED BY <1>2, <1>10, <1>11, <1>13 DEF Passes

LEMMA DecoderAccepts ==
    ASSUME LogIInv, NEW base \in Nat, NEW n \in Nat, NEW log, SegmentOK(base, n, log),
           n <= MaxTicks, \A i \in DOMAIN log : WellFormed(log[i])
    PROVE  DecoderTakes(log, base, n)
<1>1. Len(log) \in Nat /\ DOMAIN log = 1 .. Len(log)
  BY LogFacts
<1>2. PICK m \in Nat : m = Len(log)
  BY <1>1
<1>3. PICK state : Passes(log, base, n, state)
  BY PassExists
<1>4. \A i \in 0 .. m : state[i] = PassStep(log, base, n, state, i)
  BY <1>2, <1>3 DEF Passes
<1>. DEFINE T == {i \in 0 .. m : ~Remembers(log, i, state[i])}
<1>5. ASSUME T # {} PROVE FALSE
  <2>1. PICK i \in T : \A k \in T : i <= k
    <3>1. T \subseteq Nat
      OBVIOUS
    <3>. HIDE DEF T
    <3>. QED BY <1>5, <3>1, Least
  <2>2. i \in 0 .. m /\ ~Remembers(log, i, state[i])
    OBVIOUS
  <2>3. i # 0
    <3>. SUFFICES ASSUME i = 0 PROVE FALSE
      OBVIOUS
    <3>1. state[i] = DecoderStart(log, n)
      BY <1>4, <2>2 DEF PassStep
    <3>. QED BY <2>2, <3>1, StartIs
  <2>4. i \in DOMAIN log /\ i - 1 \in 0 .. m /\ i - 1 \notin T
    BY <1>1, <1>2, <2>1, <2>2, <2>3
  <2>5. PICK s : s = state[i - 1]
    OBVIOUS
  <2>6. Remembers(log, i - 1, s)
    BY <2>4, <2>5
  <2>7. Remembers(log, i, DecoderStep(s, log[i], base, n))
    BY <2>4, <2>6, StepIs
  <2>8. state[i] = DecoderStep(s, log[i], base, n)
    BY <1>4, <2>2, <2>3, <2>5 DEF PassStep
  <2>. QED BY <2>2, <2>7, <2>8
<1>6. m \in 0 .. m
  OBVIOUS
<1>7. Remembers(log, m, state[m])
  BY <1>5, <1>6
<1>. QED BY <1>2, <1>3, <1>7 DEF Remembers, Passes

\* What it took to the end it took at each record.
LEMMA DecoderRequires ==
    ASSUME LogIInv, NEW base \in Nat, NEW n \in Nat, NEW log, SegmentOK(base, n, log),
           DecoderTakes(log, base, n)
    PROVE  n <= MaxTicks /\ \A i \in DOMAIN log : WellFormed(log[i])
<1>1. Len(log) \in Nat /\ DOMAIN log = 1 .. Len(log)
  BY LogFacts
<1>2. PICK m \in Nat : m = Len(log)
  BY <1>1
<1>3. PICK state : Passes(log, base, n, state)
  BY PassExists
<1>4. /\ state[m].ok
      /\ \A i \in 0 .. m : state[i] \in States /\ state[i] = PassStep(log, base, n, state, i)
  BY <1>2, <1>3 DEF Passes
<1>5. \A i \in 1 .. m : state[i].ok => state[i - 1].ok /\ WellFormed(log[i])
  <2>. SUFFICES ASSUME NEW i \in 1 .. m, state[i].ok
                PROVE  state[i - 1].ok /\ WellFormed(log[i])
    OBVIOUS
  <2>1. i \in 0 .. m /\ i - 1 \in 0 .. m /\ i # 0
    OBVIOUS
  <2>2. PICK s \in States : s = state[i - 1]
    BY <1>4, <2>1
  <2>3. state[i] = DecoderStep(s, log[i], base, n)
    BY <1>4, <2>1, <2>2 DEF PassStep
  <2>. QED BY <2>2, <2>3, StepTook
<1>. DEFINE T == {k \in 0 .. m : ~state[m - k].ok}
<1>6. ASSUME T # {} PROVE FALSE
  <2>1. PICK k \in T : \A j \in T : k <= j
    <3>1. T \subseteq Nat
      OBVIOUS
    <3>. HIDE DEF T
    <3>. QED BY <1>6, <3>1, Least
  <2>2. k \in 0 .. m /\ ~state[m - k].ok
    OBVIOUS
  <2>3. k # 0
    BY <1>4, <2>2
  <2>4. k - 1 \in 0 .. m /\ k - 1 \notin T
    BY <2>1, <2>2, <2>3
  <2>5. PICK i \in 1 .. m : i = m - (k - 1) /\ i - 1 = m - k
    BY <2>2, <2>3
  <2>6. state[i].ok
    BY <2>4, <2>5
  <2>. QED BY <1>5, <2>2, <2>5, <2>6
<1>7. \A i \in 0 .. m : state[i].ok
  <2>. SUFFICES ASSUME NEW i \in 0 .. m PROVE state[i].ok
    OBVIOUS
  <2>1. m - i \in 0 .. m /\ m - (m - i) = i
    OBVIOUS
  <2>. QED BY <1>6, <2>1
<1>8. n <= MaxTicks
  <2>1. 0 \in 0 .. m
    OBVIOUS
  <2>2. state[0] = DecoderStart(log, n)
    BY <1>4, <2>1 DEF PassStep
  <2>. QED BY <1>7, <2>1, <2>2, StartIs
<1>9. \A i \in 1 .. m : i \in 0 .. m
  OBVIOUS
<1>. QED BY <1>1, <1>2, <1>5, <1>7, <1>8, <1>9

LEMMA ArchiveIsFed == ASSUME LogIInv PROVE FeedsArchive
<1>. SUFFICES ASSUME NEW base \in LogTickRange, NEW n \in 0 .. MaxTicks + 1
              PROVE  Takes(SegmentLog(base, n), base, n)
  BY DEF FeedsArchive
<1>1. base \in Nat /\ n \in Nat /\ StoreTypes
  BY LogConstants DEF LogTickRange, LogIInv
<1>2. PICK log : log = SegmentLog(base, n)
  OBVIOUS
<1>3. SegmentOK(base, n, log)
  BY <1>1, <1>2, SegmentIs
<1>4. ToSet(log) = {r \in ToSet(records) : r.tick \in base .. base + n - 1}
  <2>1. ToSet(records) = Stored
    BY DEF ToSet, Stored
  <2>2. \A r \in Stored : Within(r.tick, base, n) <=> r.tick \in base .. base + n - 1
    <3>. SUFFICES ASSUME NEW r \in Stored
                  PROVE  Within(r.tick, base, n) <=> r.tick \in base .. base + n - 1
      OBVIOUS
    <3>1. r.tick \in Nat
      BY <1>1, StoredRecords DEF IsRecord
    <3>. QED BY <1>1, <3>1 DEF Within
  <2>3. \A r : r \in ToSet(log) <=> Taken(log, r)
    BY DEF ToSet, Taken
  <2>4. \A k \in DOMAIN log : log[k] \in Stored /\ Within(log[k].tick, base, n)
    BY <1>3 DEF SegmentOK
  <2>5. \A r \in Stored : Within(r.tick, base, n) => Taken(log, r)
    BY <1>3 DEF SegmentOK
  <2>6. \A r : Taken(log, r) <=> r \in Stored /\ Within(r.tick, base, n)
    BY <2>4, <2>5 DEF Taken
  <2>. QED BY <2>1, <2>2, <2>3, <2>6
<1>5. Archivable(log, n) <=> n <= MaxTicks /\ \A i \in DOMAIN log : WellFormed(log[i])
  BY DEF Archivable, ToSet
<1>6. EncoderTakes(log, base, n) => Archivable(log, n)
  BY <1>5 DEF EncoderTakes
<1>7. Archivable(log, n) => EncoderTakes(log, base, n)
  BY <1>1, <1>3, <1>5, EncoderAccepts
<1>8. DecoderTakes(log, base, n) => Archivable(log, n)
  BY <1>1, <1>3, <1>5, DecoderRequires
<1>9. Archivable(log, n) => DecoderTakes(log, base, n)
  BY <1>1, <1>3, <1>5, DecoderAccepts
<1>. QED BY <1>2, <1>4, <1>6, <1>7, <1>8, <1>9 DEF Takes

-----------------------------------------------------------------------------
(* The invariant.                                                          *)

CountIn(rs, t) == Cardinality({i \in DOMAIN rs : rs[i].tick = t})

LEMMA EmptyCount ==
    ASSUME NEW rs, rs = <<>>, NEW t
    PROVE  CountIn(rs, t) = 0
<1>1. {i \in DOMAIN rs : rs[i].tick = t} = {}
  OBVIOUS
<1>. QED BY <1>1, FS_EmptySet DEF CountIn

LEMMA AppendCount ==
    ASSUME NEW S, NEW rs \in Seq(S), NEW r \in S, NEW t
    PROVE  /\ CountIn(rs, t) \in Nat
           /\ r.tick = t => CountIn(Append(rs, r), t) = CountIn(rs, t) + 1
           /\ r.tick # t => CountIn(Append(rs, r), t) = CountIn(rs, t)
<1>1. PICK L \in Nat : L = Len(rs)
  OBVIOUS
<1>2. PICK q : q = Append(rs, r)
  OBVIOUS
<1>3. /\ DOMAIN rs = 1 .. L /\ DOMAIN q = 1 .. L + 1 /\ q[L + 1] = r
      /\ \A i \in 1 .. L : q[i] = rs[i]
  BY <1>1, <1>2
<1>. DEFINE A == {i \in DOMAIN rs : rs[i].tick = t}
            B == {i \in DOMAIN q : q[i].tick = t}
<1>4. IsFiniteSet(A)
  <2>1. IsFiniteSet(1 .. L) /\ A \in SUBSET (1 .. L)
    BY <1>3, FS_Interval
  <2>. QED BY <2>1, FS_Subset
<1>5. \A i : i \in 1 .. L + 1 <=> i \in 1 .. L \/ i = L + 1
  OBVIOUS
<1>6. L + 1 \notin A
  BY <1>3
<1>7. r.tick = t => B = A \cup {L + 1}
  BY <1>3, <1>5
<1>8. r.tick # t => B = A
  BY <1>3, <1>5
<1>9. CountIn(rs, t) = Cardinality(A) /\ CountIn(Append(rs, r), t) = Cardinality(B)
  BY <1>2 DEF CountIn
<1>. HIDE DEF A, B
<1>10. Cardinality(A) \in Nat /\ Cardinality(A \cup {L + 1}) = Cardinality(A) + 1
  BY <1>4, <1>6, FS_AddElement, FS_CardinalityType
<1>. QED BY <1>7, <1>8, <1>9, <1>10

LEMMA CountNow == \A t : CountAt(t) = CountIn(records, t)
BY DEF CountAt, CountIn

LEMMA InitLog == LInit => LogIInv
<1>. SUFFICES ASSUME LInit PROVE LogIInv
  OBVIOUS
<1>1. records = <<>> /\ offered = {} /\ refused = {}
  BY DEF LInit
<1>2. Fits /\ records \in Seq(AllRecords) /\ Len(records) = 0 /\ DOMAIN records = {}
  <2>1. \A t : CountAt(t) = 0
    BY <1>1, CountNow, EmptyCount
  <2>2. records \in Seq(AllRecords) /\ Len(records) = 0 /\ DOMAIN records = {}
    BY <1>1
  <2>. QED BY <2>1, <2>2, LogConstants DEF Fits
<1>3. StoreTypes
  BY <1>1, <1>2, LogConstants DEF LInit, StoreTypes
<1>4. StoredOnce
  BY <1>1, <1>2 DEF StoredOnce
<1>. QED BY <1>2, <1>3, <1>4 DEF LogIInv

LEMMA ClearLog == LogIInv /\ Clear => LogIInv'
<1>. SUFFICES ASSUME LogIInv, Clear PROVE LogIInv'
  OBVIOUS
<1>1. records' = <<>> /\ offered' = {} /\ refused' = {} /\ sequenced' = sequenced /\ rest' = rest
  BY DEF Clear
<1>2. Fits'
  <2>1. \A t : CountAt(t)' = 0
    <3>1. PICK rs : rs = records'
      OBVIOUS
    <3>2. \A t : CountAt(t)' = CountIn(rs, t)
      BY <3>1 DEF CountAt, CountIn
    <3>3. \A t : CountIn(rs, t) = 0
      BY <1>1, <3>1, EmptyCount
    <3>. QED BY <3>2, <3>3
  <2>. QED BY <2>1, LogConstants DEF Fits
<1>3. StoreTypes'
  BY <1>1, LogConstants DEF LogIInv, StoreTypes, AllRecords
<1>4. StoredOnce'
  BY <1>1 DEF StoredOnce
<1>. QED BY <1>2, <1>3, <1>4 DEF LogIInv

\* The record was stored at the end.
LEMMA AddStores ==
    ASSUME LogIInv, NEW id \in Ids, ~Has(id), Len(records) < Capacity,
           CountAt(sequenced[id]) < MaxRecords, sequenced' = sequenced, rest' = rest,
           records' = Append(records, Record(id)),
           offered' = offered \cup {id}, refused' = refused \ {id}
    PROVE  LogIInv'
<1>0. StoreTypes /\ Fits /\ StoredOnce
  BY DEF LogIInv
<1>1. PICK r \in AllRecords : r = Record(id)
  BY DEF AllRecords
<1>2. r.tick = sequenced[id] /\ Id(r) = id
  <2>1. PICK o \in Nat, s \in Nat : id = <<o, s>>
    BY LogConstants
  <2>. QED BY <1>1, <2>1 DEF Record, Id
<1>3. PICK rs : rs = records'
  OBVIOUS
<1>4. PICK L \in Nat : L = Len(records)
  BY <1>0 DEF StoreTypes
<1>5. /\ records \in Seq(AllRecords) /\ rs = Append(records, r)
      /\ rs \in Seq(AllRecords) /\ Len(rs) = L + 1 /\ DOMAIN rs = 1 .. L + 1
      /\ DOMAIN records = 1 .. L /\ rs[L + 1] = r /\ \A i \in 1 .. L : rs[i] = records[i]
  BY <1>0, <1>1, <1>3, <1>4 DEF StoreTypes
<1>6. StoreTypes'
  <2>1. records' \in Seq(AllRecords') /\ Len(records') <= Capacity
    <3>1. AllRecords' = AllRecords
      BY DEF AllRecords, Record
    <3>2. L + 1 <= Capacity
      BY <1>4, LogConstants
    <3>. QED BY <1>3, <1>5, <3>1, <3>2
  <2>. QED BY <1>0, <2>1 DEF StoreTypes
<1>7. \A t : /\ CountAt(t) \in Nat
             /\ r.tick = t => CountAt(t)' = CountAt(t) + 1
             /\ r.tick # t => CountAt(t)' = CountAt(t)
  <2>. SUFFICES ASSUME NEW t
                PROVE  /\ CountAt(t) \in Nat
                       /\ r.tick = t => CountAt(t)' = CountAt(t) + 1
                       /\ r.tick # t => CountAt(t)' = CountAt(t)
    OBVIOUS
  <2>1. CountAt(t)' = CountIn(rs, t)
    BY <1>3 DEF CountAt, CountIn
  <2>2. PICK old : old = records
    OBVIOUS
  <2>3. CountAt(t) = CountIn(old, t) /\ old \in Seq(AllRecords) /\ rs = Append(old, r)
    BY <1>5, <2>2, CountNow
  <2>4. PICK S : S = AllRecords
    OBVIOUS
  <2>5. /\ CountIn(old, t) \in Nat
        /\ r.tick = t => CountIn(Append(old, r), t) = CountIn(old, t) + 1
        /\ r.tick # t => CountIn(Append(old, r), t) = CountIn(old, t)
    BY <2>3, <2>4, AppendCount
  <2>. QED BY <2>1, <2>3, <2>5
<1>8. Fits'
  <2>. SUFFICES ASSUME NEW t \in LogTickRange PROVE CountAt(t)' <= MaxRecords
    BY DEF Fits
  <2>1. CASE r.tick = t
    BY <1>2, <1>7, <2>1, LogConstants
  <2>2. CASE r.tick # t
    BY <1>0, <1>7, <2>2 DEF Fits
  <2>. QED BY <2>1, <2>2
<1>9. \A i \in 1 .. L : Id(rs[i]) # id
  BY <1>5 DEF Has
<1>10. \A i \in 1 .. L + 1 : i \in 1 .. L \/ i = L + 1
  OBVIOUS
<1>11. \A i, j \in DOMAIN rs : Id(rs[i]) = Id(rs[j]) => i = j
  <2>. SUFFICES ASSUME NEW i \in 1 .. L + 1, NEW j \in 1 .. L + 1, Id(rs[i]) = Id(rs[j])
                PROVE  i = j
    BY <1>5
  <2>1. CASE i = L + 1 \/ j = L + 1
    BY <1>2, <1>5, <1>9, <1>10, <2>1
  <2>2. CASE i # L + 1 /\ j # L + 1
    <3>1. i \in 1 .. L /\ j \in 1 .. L
      BY <1>10, <2>2
    <3>2. Id(records[i]) = Id(records[j]) /\ i \in DOMAIN records /\ j \in DOMAIN records
      BY <1>5, <3>1
    <3>. QED BY <1>0, <3>2 DEF StoredOnce
  <2>. QED BY <2>1, <2>2
<1>12. {Id(rs[i]) : i \in DOMAIN rs} = (offered \cup {id}) \ (refused \ {id})
  <2>1. {Id(rs[i]) : i \in DOMAIN rs} = {Id(records[i]) : i \in DOMAIN records} \cup {id}
    <3>1. \A x : x \in {Id(rs[i]) : i \in DOMAIN rs} <=>
                 x \in {Id(records[i]) : i \in DOMAIN records} \/ x = id
      <4>1. \A i : i \in 1 .. L + 1 <=> i \in 1 .. L \/ i = L + 1
        OBVIOUS
      <4>. QED BY <1>2, <1>5, <4>1
    <3>. QED BY <3>1
  <2>2. {Id(records[i]) : i \in DOMAIN records} = offered \ refused
    BY <1>0 DEF StoredOnce
  <2>. QED BY <2>1, <2>2
<1>13. ASSUME NEW x \in refused \ {id}
       PROVE  Len(rs) = Capacity \/ CountAt(sequenced[x])' = MaxRecords
  <2>1. CountAt(sequenced[x]) = MaxRecords
    BY <1>0, LogConstants, <1>4 DEF StoredOnce
  <2>2. r.tick # sequenced[x]
    BY <1>2, <2>1, LogConstants
  <2>3. PICK t : t = sequenced[x]
    OBVIOUS
  <2>4. CountAt(t)' = CountAt(t)
    BY <1>7, <2>2, <2>3
  <2>5. CountAt(sequenced[x])' = CountAt(t)'
    BY <2>3 DEF CountAt
  <2>. QED BY <2>1, <2>3, <2>4, <2>5
<1>14. StoredOnce'
  <2>1. \A i, j \in DOMAIN records' : Id(records'[i]) = Id(records'[j]) => i = j
    BY <1>3, <1>11
  <2>2. {Id(records'[i]) : i \in DOMAIN records'} = offered' \ refused'
    BY <1>3, <1>12
  <2>3. \A x \in refused' : Len(records') = Capacity \/ CountAt(sequenced[x])' = MaxRecords
    BY <1>3, <1>13
  <2>. QED BY <2>1, <2>2, <2>3 DEF StoredOnce, Id
<1>. QED BY <1>6, <1>8, <1>14 DEF LogIInv

LEMMA CountStays ==
    ASSUME records' = records, sequenced' = sequenced, NEW x
    PROVE  CountAt(sequenced[x])' = CountAt(sequenced[x])
BY DEF CountAt

\* The record was there, or there was no room for it.
LEMMA AddRefuses ==
    ASSUME LogIInv, NEW id \in Ids,
           Has(id) \/ ~(Len(records) < Capacity) \/ ~(CountAt(sequenced[id]) < MaxRecords),
           sequenced' = sequenced, rest' = rest, records' = records, offered' = offered \cup {id},
           refused' = (IF Has(id) THEN refused ELSE refused \cup {id})
    PROVE  LogIInv'
<1>0. StoreTypes /\ Fits /\ StoredOnce
  BY DEF LogIInv
<1>1. \A t : CountAt(t)' = CountAt(t)
  BY DEF CountAt
<1>2. Fits'
  BY <1>0, <1>1 DEF Fits
<1>3. StoreTypes'
  BY <1>0 DEF StoreTypes, AllRecords, Record
<1>4. {Id(records[i]) : i \in DOMAIN records} = offered \ refused
  BY <1>0 DEF StoredOnce
<1>5. Has(id) <=> id \in offered \ refused
  BY <1>4 DEF Has
<1>6. offered' \ refused' = offered \ refused
  BY <1>5
<1>7. sequenced[id] \in LogTickRange
  BY <1>0 DEF StoreTypes
<1>8. ~Has(id) => Len(records) = Capacity \/ CountAt(sequenced[id]) = MaxRecords
  <2>. SUFFICES ASSUME ~Has(id), Len(records) # Capacity PROVE CountAt(sequenced[id]) = MaxRecords
    OBVIOUS
  <2>1. Len(records) <= Capacity /\ Len(records) \in Nat
    BY <1>0 DEF StoreTypes
  <2>2. ~(CountAt(sequenced[id]) < MaxRecords)
    BY <2>1, LogConstants
  <2>3. CountAt(sequenced[id]) <= MaxRecords /\ CountAt(sequenced[id]) \in Nat
    BY <1>0, <1>7, HereCount DEF Fits
  <2>. QED BY <2>2, <2>3, LogConstants
<1>9. \A x \in refused' : Len(records) = Capacity \/ CountAt(sequenced[x]) = MaxRecords
  BY <1>0, <1>8 DEF StoredOnce
<1>10. \A x \in refused' : Len(records') = Capacity \/ CountAt(sequenced[x])' = MaxRecords
  BY <1>9, CountStays
<1>11. StoredOnce'
  <2>1. \A i, j \in DOMAIN records' : Id(records'[i]) = Id(records'[j]) => i = j
    BY <1>0 DEF StoredOnce
  <2>2. {Id(records'[i]) : i \in DOMAIN records'} = offered' \ refused'
    BY <1>0, <1>4, <1>6 DEF StoredOnce
  <2>. QED BY <2>1, <2>2, <1>10 DEF StoredOnce, Id
<1>. QED BY <1>2, <1>3, <1>11 DEF LogIInv

LEMMA AddLog == ASSUME LogIInv, NEW id \in Ids, Add(id) PROVE LogIInv'
<1>1. CASE ~Has(id) /\ Len(records) < Capacity /\ CountAt(sequenced[id]) < MaxRecords
  <2>1. /\ sequenced' = sequenced /\ rest' = rest /\ records' = Append(records, Record(id))
        /\ offered' = offered \cup {id} /\ refused' = refused \ {id}
    BY <1>1 DEF Add
  <2>. QED BY <1>1, <2>1, AddStores
<1>2. CASE ~(~Has(id) /\ Len(records) < Capacity /\ CountAt(sequenced[id]) < MaxRecords)
  <2>1. /\ sequenced' = sequenced /\ rest' = rest /\ records' = records
        /\ offered' = offered \cup {id}
        /\ refused' = (IF Has(id) THEN refused ELSE refused \cup {id})
    BY <1>2 DEF Add
  <2>. QED BY <1>2, <2>1, AddRefuses
<1>. QED BY <1>1, <1>2

LEMMA StayLog == LogIInv /\ UNCHANGED log_vars => LogIInv'
<1>. SUFFICES ASSUME LogIInv, UNCHANGED log_vars PROVE LogIInv'
  OBVIOUS
<1>0. StoreTypes /\ Fits /\ StoredOnce
  BY DEF LogIInv
<1>1. /\ records' = records /\ sequenced' = sequenced /\ rest' = rest
      /\ offered' = offered /\ refused' = refused
  BY DEF log_vars
<1>2. \A t : CountAt(t)' = CountAt(t)
  BY <1>1 DEF CountAt
<1>3. Fits'
  BY <1>0, <1>2 DEF Fits
<1>4. StoreTypes'
  BY <1>0, <1>1 DEF StoreTypes, AllRecords, Record
<1>5. \A x \in refused' : Len(records') = Capacity \/ CountAt(sequenced[x])' = MaxRecords
  BY <1>0, <1>1, CountStays DEF StoredOnce
<1>6. StoredOnce'
  <2>1. \A i, j \in DOMAIN records' : Id(records'[i]) = Id(records'[j]) => i = j
    BY <1>0, <1>1 DEF StoredOnce
  <2>2. {Id(records'[i]) : i \in DOMAIN records'} = offered' \ refused'
    BY <1>0, <1>1 DEF StoredOnce
  <2>. QED BY <2>1, <2>2, <1>5 DEF StoredOnce, Id
<1>. QED BY <1>3, <1>4, <1>6 DEF LogIInv

LEMMA LogOfInvariant == LogIInv => LogInv
BY ReadsInOrder, ArchiveIsFed DEF LogInv, LogIInv

\* Whatever records came to the store, twice or out of order (log_store_add): it has one for each
\* id it did not refuse for want of room; a read of a tick gives its records by origin and
\* sequence number, as many as fit, and says when some were left out (log_store_at_tick); and the
\* segment of any run of ticks has all its records, and the encoder's checks hold of it exactly
\* when the run is no longer than CHECKPOINT_HOT_TICKS and its records are well-formed, which the
\* store does not see to: the order, the sequence numbers and the counts never stop it.  The
\* decoder takes just the same ones (archive_encode_segment, archive_decode_segment).
THEOREM StoreFeedsTheArchive == LSpec => []LogInv
<1>1. LogIInv /\ [LNext]_log_vars => LogIInv'
  <2>. SUFFICES ASSUME LogIInv, [LNext]_log_vars PROVE LogIInv'
    OBVIOUS
  <2>1. CASE LNext
    BY <2>1, AddLog, ClearLog DEF LNext
  <2>2. CASE UNCHANGED log_vars
    BY <2>2, StayLog
  <2>. QED BY <2>1, <2>2
<1>. QED BY InitLog, <1>1, LogOfInvariant, PTL DEF LSpec

-----------------------------------------------------------------------------
(* Saves and loads: the file is always that of the last save that was      *)
(* written, as the build that wrote it lays it out.                        *)

RowSet(b) == [entity : Entities \cup {0}, fields : [Fields(b) -> Values \cup {Default}]]
Tables(b) == [Arenas(b) -> Seq(RowSet(b))]
Adds(b) == [id : Arenas(b), row : RowSet(b)]
BlockOf(b, r, desc) ==
    [id |-> desc.id, kind |-> desc.kind, fields |-> b.fields, kinds |-> b.kinds,
     rows |-> [i \in DOMAIN r[desc.id] |->
                  [entity |-> r[desc.id][i].entity,
                   values |-> [n \in DOMAIN b.fields |-> r[desc.id][i].fields[b.fields[n]]]]]]
BlocksOf(b, r) == [i \in DOMAIN b.arenas |-> BlockOf(b, r, b.arenas[i])]
SavedAs(b, r, d) ==
    /\ saved = <<[build |-> b, rows |-> r]>>
    /\ disk = <<[damage |-> d, blocks |-> BlocksOf(b, r)]>>

SaveTypes == build \in Builds /\ rows \in Tables(build) /\ commands \in Seq(Adds(build))
DiskIsTheSave ==
    \/ disk = <<>> /\ saved = <<>>
    \/ \E b \in Builds : \E r \in Tables(b), d \in Damages : SavedAs(b, r, d)
SaveIInv == SaveTypes /\ DiskIsTheSave

LEMMA BuildFacts ==
    ASSUME NEW b \in Builds
    PROVE  /\ IsBuild(b)
           /\ DOMAIN b.arenas = 1 .. Len(b.arenas) /\ Len(b.arenas) \in Nat
           /\ \A i \in DOMAIN b.arenas :
                 b.arenas[i].id \in Arenas(b) /\ Desc(b, b.arenas[i].id) = b.arenas[i]
           /\ \A id \in Arenas(b) :
                 /\ Desc(b, id).kind \in Kinds
                 /\ \E i \in DOMAIN b.arenas : Desc(b, id) = b.arenas[i] /\ b.arenas[i].id = id
<1>1. IsBuild(b)
  BY BuildsAssumption
<1>2. DOMAIN b.arenas = 1 .. Len(b.arenas) /\ Len(b.arenas) \in Nat
  <2>1. b.arenas \in Seq(ToSet(b.arenas))
    BY <1>1 DEF IsBuild
  <2>. QED BY <2>1
<1>3. ASSUME NEW i \in DOMAIN b.arenas PROVE Desc(b, b.arenas[i].id) = b.arenas[i]
  <2>. DEFINE first(k) == k \in DOMAIN b.arenas /\ b.arenas[k].id = b.arenas[i].id
                          /\ \A j \in 1 .. k - 1 : b.arenas[j].id # b.arenas[i].id
  <2>1. \A k \in DOMAIN b.arenas : b.arenas[k].id = b.arenas[i].id => k = i
    BY <1>1 DEF IsBuild
  <2>2. \A j \in 1 .. i - 1 : j \in DOMAIN b.arenas /\ j # i
    BY <1>2
  <2>3. first(i)
    BY <2>1, <2>2
  <2>4. (CHOOSE k \in DOMAIN b.arenas : /\ b.arenas[k].id = b.arenas[i].id
                                        /\ \A j \in 1 .. k - 1 : b.arenas[j].id # b.arenas[i].id) = i
    BY <2>1, <2>3
  <2>. QED BY <2>4 DEF Desc
<1>4. \A i \in DOMAIN b.arenas : b.arenas[i].id \in Arenas(b)
  BY DEF Arenas
<1>5. \A id \in Arenas(b) : \E i \in DOMAIN b.arenas : Desc(b, id) = b.arenas[i] /\ b.arenas[i].id = id
  BY <1>3 DEF Arenas
<1>6. \A i \in DOMAIN b.arenas : b.arenas[i].kind \in Kinds
  BY <1>1 DEF IsBuild
<1>. QED BY <1>1, <1>2, <1>3, <1>4, <1>5, <1>6

LEMMA FreshType == ASSUME NEW b \in Builds PROVE Fresh(b) \in Tables(b)
<1>1. ASSUME NEW id \in Arenas(b)
      PROVE  (IF Desc(b, id).kind = "reflected"
              THEN <<[entity |-> 0, fields |-> [f \in Fields(b) |-> Default]]>> ELSE <<>>)
                \in Seq(RowSet(b))
  <2>. DEFINE row == [entity |-> 0, fields |-> [f \in Fields(b) |-> Default]]
  <2>1. row \in RowSet(b)
    BY DEF RowSet
  <2>. HIDE DEF row
  <2>2. <<row>> \in Seq(RowSet(b)) /\ <<>> \in Seq(RowSet(b))
    BY <2>1
  <2>. QED BY <2>2 DEF row
<1>. QED BY <1>1 DEF Fresh, Tables

LEMMA SaveStarts == SaveInit => SaveIInv
<1>. SUFFICES ASSUME SaveInit PROVE SaveIInv
  OBVIOUS
<1>1. build \in Builds /\ rows \in Tables(build)
  BY FreshType DEF SaveInit
<1>2. commands \in Seq(Adds(build))
  BY DEF SaveInit
<1>. QED BY <1>1, <1>2 DEF SaveInit, SaveIInv, SaveTypes, DiskIsTheSave

\* An edit of one arena's rows.
LEMMA Edited ==
    ASSUME NEW b, NEW r \in Tables(b), NEW id \in Arenas(b), NEW new \in Seq(RowSet(b))
    PROVE  [r EXCEPT ![id] = new] \in Tables(b)
BY DEF Tables

LEMMA FieldSet ==
    ASSUME NEW b, NEW s \in Seq(RowSet(b)), NEW i \in DOMAIN s, NEW f \in Fields(b), NEW v \in Values
    PROVE  [s EXCEPT ![i].fields[f] = v] \in Seq(RowSet(b))
<1>1. s[i] \in RowSet(b)
  OBVIOUS
<1>. DEFINE fs == [s[i].fields EXCEPT ![f] = v]
            row == [s[i] EXCEPT !.fields = fs]
<1>2. fs \in [Fields(b) -> Values \cup {Default}]
  BY <1>1 DEF RowSet
<1>. HIDE DEF fs
<1>3. row \in RowSet(b)
  BY <1>1, <1>2 DEF RowSet
<1>. HIDE DEF row
<1>4. [s EXCEPT ![i] = row] \in Seq(RowSet(b))
  BY <1>3, ExceptSeq
<1>. QED BY <1>4 DEF row, fs

LEMMA RemovedAt ==
    ASSUME NEW S, NEW s \in Seq(S), NEW i \in DOMAIN s PROVE RemoveAt(s, i) \in Seq(S)
<1>1. i \in 1 .. Len(s) /\ Len(s) \in Nat
  OBVIOUS
<1>2. SubSeq(s, 1, i - 1) \in Seq(S)
  <2>1. \A k \in 1 .. i - 1 : s[k] \in S
    BY <1>1
  <2>. QED BY <1>1, <2>1, SubSeqProperties
<1>3. SubSeq(s, i + 1, Len(s)) \in Seq(S)
  <2>1. \A k \in i + 1 .. Len(s) : s[k] \in S
    BY <1>1
  <2>. QED BY <1>1, <2>1, SubSeqProperties
<1>. QED BY <1>2, <1>3, ConcatProperties DEF RemoveAt

LEMMA EditKeeps == SaveIInv /\ Edit => SaveIInv'
<1>. SUFFICES ASSUME SaveIInv, Edit PROVE SaveIInv'
  OBVIOUS
<1>1. build \in Builds /\ rows \in Tables(build) /\ commands \in Seq(Adds(build)) /\ DiskIsTheSave
  BY DEF SaveIInv, SaveTypes
<1>2. UNCHANGED <<build, commands, disk, saved>>
  BY DEF Edit
<1>3. PICK id \in Arenas(build) : \E v \in Values :
           \/ \E i \in DOMAIN rows[id], f \in Fields(build) :
                  rows' = [rows EXCEPT ![id][i].fields[f] = v]
           \/ /\ Desc(build, id).kind = "ecs_column"
              /\ Len(rows[id]) < Desc(build, id).max_rows
              /\ \E e \in Entities :
                     /\ \A i \in DOMAIN rows[id] : rows[id][i].entity # e
                     /\ rows' = [rows EXCEPT ![id] =
                                    Append(@, [entity |-> e,
                                               fields |-> [f \in Fields(build) |-> v]])]
           \/ /\ Desc(build, id).kind = "ecs_column"
              /\ \E i \in DOMAIN rows[id] : rows' = [rows EXCEPT ![id] = RemoveAt(@, i)]
  BY DEF Edit
<1>4. PICK v \in Values :
           \/ \E i \in DOMAIN rows[id], f \in Fields(build) :
                  rows' = [rows EXCEPT ![id][i].fields[f] = v]
           \/ \E e \in Entities :
                  rows' = [rows EXCEPT ![id] = Append(@, [entity |-> e, fields |-> [f \in Fields(build) |-> v]])]
           \/ \E i \in DOMAIN rows[id] : rows' = [rows EXCEPT ![id] = RemoveAt(@, i)]
  BY <1>3
<1>5. rows[id] \in Seq(RowSet(build))
  BY <1>1 DEF Tables
<1>6. \E new \in Seq(RowSet(build)) : rows' = [rows EXCEPT ![id] = new]
  <2>1. ASSUME NEW i \in DOMAIN rows[id], NEW f \in Fields(build),
               rows' = [rows EXCEPT ![id][i].fields[f] = v]
        PROVE  \E new \in Seq(RowSet(build)) : rows' = [rows EXCEPT ![id] = new]
    <3>. DEFINE new == [rows[id] EXCEPT ![i].fields[f] = v]
    <3>1. new \in Seq(RowSet(build))
      BY <1>5, FieldSet
    <3>2. rows' = [rows EXCEPT ![id] = new]
      BY <2>1
    <3>. HIDE DEF new
    <3>. QED BY <3>1, <3>2
  <2>2. ASSUME NEW e \in Entities,
               rows' = [rows EXCEPT ![id] = Append(@, [entity |-> e, fields |-> [f \in Fields(build) |-> v]])]
        PROVE  \E new \in Seq(RowSet(build)) : rows' = [rows EXCEPT ![id] = new]
    <3>. DEFINE row == [entity |-> e, fields |-> [f \in Fields(build) |-> v]]
                new == Append(rows[id], row)
    <3>1. row \in RowSet(build)
      BY DEF RowSet
    <3>2. rows' = [rows EXCEPT ![id] = new]
      BY <2>2
    <3>. HIDE DEF row
    <3>3. new \in Seq(RowSet(build))
      BY <1>5, <3>1
    <3>. HIDE DEF new
    <3>. QED BY <3>2, <3>3
  <2>3. ASSUME NEW i \in DOMAIN rows[id], rows' = [rows EXCEPT ![id] = RemoveAt(@, i)]
        PROVE  \E new \in Seq(RowSet(build)) : rows' = [rows EXCEPT ![id] = new]
    <3>1. rows' = [rows EXCEPT ![id] = RemoveAt(rows[id], i)]
      BY <2>3
    <3>. QED BY <1>5, <3>1, RemovedAt
  <2>. QED BY <1>4, <2>1, <2>2, <2>3
<1>7. rows' \in Tables(build)
  <2>1. PICK new \in Seq(RowSet(build)) : rows' = [rows EXCEPT ![id] = new]
    BY <1>6
  <2>2. [rows EXCEPT ![id] = new] \in Tables(build)
    BY <1>1, Edited
  <2>. QED BY <2>1, <2>2
<1>. QED BY <1>1, <1>2, <1>7 DEF SaveIInv, SaveTypes, DiskIsTheSave, SavedAs

LEMMA SaveKeeps == SaveIInv /\ Save => SaveIInv'
<1>. SUFFICES ASSUME SaveIInv, Save PROVE SaveIInv'
  OBVIOUS
<1>1. UNCHANGED <<build, rows, commands>>
  BY DEF Save
<1>2. SaveTypes'
  BY <1>1 DEF SaveIInv, SaveTypes
<1>3. CASE SaveWritten
  <2>. DEFINE b == build
              r == rows
  <2>1. b \in Builds /\ r \in Tables(b) /\ "none" \in Damages
    BY DEF SaveIInv, SaveTypes, Damages
  <2>2. saved' = <<[build |-> b, rows |-> r]>>
    BY <1>3 DEF SaveWritten
  <2>3. disk' = <<[damage |-> "none", blocks |-> BlocksOf(b, r)]>>
    BY <1>3 DEF SaveWritten, Block, BlocksOf, BlockOf
  <2>4. SavedAs(b, r, "none")'
    BY <1>1, <2>2, <2>3 DEF SavedAs
  <2>. QED BY <1>1, <1>2, <2>1, <2>4 DEF SaveIInv, DiskIsTheSave
<1>4. CASE UNCHANGED <<disk, saved>>
  BY <1>2, <1>4 DEF SaveIInv, DiskIsTheSave, SavedAs
<1>. QED BY <1>3, <1>4 DEF Save, SaveRefused, SaveNotWritten

LEMMA DamageKeeps == SaveIInv /\ Damage => SaveIInv'
<1>. SUFFICES ASSUME SaveIInv, Damage PROVE SaveIInv'
  OBVIOUS
<1>1. UNCHANGED <<build, rows, commands, saved>> /\ disk # <<>>
  BY DEF Damage
<1>2. PICK d \in Damages : disk' = <<[disk[1] EXCEPT !.damage = d]>>
  BY DEF Damage
<1>3. PICK b \in Builds : \E r \in Tables(b), c \in Damages : SavedAs(b, r, c)
  BY <1>1 DEF SaveIInv, DiskIsTheSave
<1>4. PICK r \in Tables(b), c \in Damages : SavedAs(b, r, c)
  BY <1>3
<1>5. SavedAs(b, r, d)'
  BY <1>1, <1>2, <1>4 DEF SavedAs
<1>6. DiskIsTheSave'
  BY <1>5 DEF DiskIsTheSave
<1>. QED BY <1>1, <1>6 DEF SaveIInv, SaveTypes

LEMMA RestartKeeps == SaveIInv /\ Restart => SaveIInv'
<1>. SUFFICES ASSUME SaveIInv, Restart PROVE SaveIInv'
  OBVIOUS
<1>1. build' \in Builds /\ rows' = Fresh(build') /\ commands' = <<>> /\ UNCHANGED <<disk, saved>>
  BY DEF Restart
<1>2. rows' \in Tables(build')
  BY <1>1, FreshType
<1>3. commands' \in Seq(Adds(build'))
  BY <1>1
<1>. QED BY <1>1, <1>2, <1>3 DEF SaveIInv, SaveTypes, DiskIsTheSave, SavedAs

-----------------------------------------------------------------------------
(* A flush applies the adds one by one.                                    *)

Worlds(b) == [rows : Tables(b), stopped : BOOLEAN]
AddStep(s, c) ==
    IF s.stopped \/ (\E i \in DOMAIN s.rows[c.id] : s.rows[c.id][i].entity = c.row.entity)
    THEN [s EXCEPT !.stopped = TRUE] ELSE [s EXCEPT !.rows[c.id] = Append(@, c.row)]
IsFlush(f) ==
    f = [n \in 0 .. Len(commands) |->
            IF n = 0 THEN [rows |-> rows, stopped |-> FALSE] ELSE AddStep(f[n - 1], commands[n])]

LEMMA FlushedIs == Flushed = (CHOOSE f : IsFlush(f))[Len(commands)]
BY DEF Flushed, IsFlush, AddStep

LEMMA AddStepType ==
    ASSUME NEW b, NEW s \in Worlds(b), NEW c \in Adds(b) PROVE AddStep(s, c) \in Worlds(b)
<1>. DEFINE new == Append(s.rows[c.id], c.row)
            tables == [s.rows EXCEPT ![c.id] = new]
<1>1. s.rows \in Tables(b) /\ c.id \in Arenas(b) /\ c.row \in RowSet(b) /\ s.stopped \in BOOLEAN
      /\ s = [rows |-> s.rows, stopped |-> s.stopped]
  BY DEF Worlds, Adds
<1>2. s.rows[c.id] \in Seq(RowSet(b))
  BY <1>1 DEF Tables
<1>3. new \in Seq(RowSet(b))
  BY <1>1, <1>2
<1>. HIDE DEF new
<1>4. tables \in Tables(b)
  BY <1>1, <1>3, Edited
<1>5. [s EXCEPT !.rows[c.id] = Append(@, c.row)] = [s EXCEPT !.rows = tables]
  BY DEF new
<1>. HIDE DEF tables
<1>6. [s EXCEPT !.rows = tables] \in Worlds(b)
  BY <1>1, <1>4 DEF Worlds
<1>7. [s EXCEPT !.stopped = TRUE] \in Worlds(b)
  BY <1>1 DEF Worlds
<1>. QED BY <1>5, <1>6, <1>7 DEF AddStep

LEMMA FlushedType == ASSUME SaveTypes PROVE Flushed \in Worlds(build)
<1>. DEFINE n == Len(commands)
            S == Worlds(build)
            start == [rows |-> rows, stopped |-> FALSE]
            G == [p \in S \X (1 .. n) |-> AddStep(p[1], commands[p[2]])]
<1>1. n \in Nat /\ \A i \in 1 .. n : commands[i] \in Adds(build)
  BY DEF SaveTypes
<1>2. start \in S
  BY DEF SaveTypes, Worlds
<1>3. \A s \in S, i \in 1 .. n : G[<<s, i>>] = AddStep(s, commands[i]) /\ AddStep(s, commands[i]) \in S
  BY <1>1, AddStepType
<1>4. G \in [S \X (1 .. n) -> S]
  BY <1>1, AddStepType
<1>. HIDE DEF n, S, start, G
<1>5. PICK h \in [0 .. n -> S] : Iterates(G, start, n, h)
  BY <1>1, <1>2, <1>4, IterationExists
<1>6. IsFlush(h)
  <2>1. h = [i \in 0 .. n |-> h[i]]
    BY <1>5
  <2>2. \A i \in 0 .. n : h[i] = IF i = 0 THEN start ELSE AddStep(h[i - 1], commands[i])
    <3>. SUFFICES ASSUME NEW i \in 0 .. n
                  PROVE  h[i] = IF i = 0 THEN start ELSE AddStep(h[i - 1], commands[i])
      OBVIOUS
    <3>1. CASE i = 0
      BY <1>5, <3>1 DEF Iterates
    <3>2. CASE i # 0
      <4>1. i \in 1 .. n /\ i - 1 \in 0 .. n
        BY <1>1, <3>2
      <4>2. h[i] = G[<<h[i - 1], i>>] /\ h[i - 1] \in S
        BY <1>5, <4>1 DEF Iterates
      <4>. QED BY <1>3, <3>2, <4>1, <4>2
    <3>. QED BY <3>1, <3>2
  <2>3. h = [i \in 0 .. n |-> IF i = 0 THEN start ELSE AddStep(h[i - 1], commands[i])]
    BY <2>1, <2>2
  <2>. QED BY <2>3 DEF IsFlush, n, start
<1>. DEFINE f == CHOOSE f : IsFlush(f)
<1>7. IsFlush(f)
  BY <1>6
<1>. HIDE DEF f
<1>8. f[0] = start /\ \A i \in 1 .. n : f[i] = AddStep(f[i - 1], commands[i])
  <2>1. \A i \in 0 .. n : f[i] = IF i = 0 THEN start ELSE AddStep(f[i - 1], commands[i])
    BY <1>7 DEF IsFlush, n, start
  <2>. QED BY <1>1, <2>1
<1>. DEFINE T == {i \in 0 .. n : f[i] \notin S}
<1>9. T = {}
  <2>. SUFFICES ASSUME T # {} PROVE FALSE
    OBVIOUS
  <2>1. PICK m \in T : \A k \in T : m <= k
    <3>1. T \subseteq Nat
      OBVIOUS
    <3>. HIDE DEF T
    <3>. QED BY <3>1, Least
  <2>2. m \in 1 .. n /\ m - 1 \in 0 .. n /\ m - 1 \notin T
    BY <1>1, <1>2, <1>8, <2>1
  <2>3. f[m] = AddStep(f[m - 1], commands[m]) /\ f[m - 1] \in S
    BY <1>8, <2>2
  <2>. QED BY <1>3, <2>1, <2>2, <2>3
<1>10. f[n] \in S
  BY <1>1, <1>9
<1>. QED BY <1>10, FlushedIs DEF f, n, S

LEMMA FlushKeeps == SaveIInv /\ Flush => SaveIInv'
<1>. SUFFICES ASSUME SaveIInv, Flush PROVE SaveIInv'
  OBVIOUS
<1>1. UNCHANGED <<build, disk, saved>> /\ rows' = Flushed.rows /\ commands' = <<>>
  BY DEF Flush
<1>2. Flushed.rows \in Tables(build)
  BY FlushedType DEF SaveIInv, Worlds
<1>3. commands' \in Seq(Adds(build))
  BY <1>1
<1>. QED BY <1>1, <1>2, <1>3 DEF SaveIInv, SaveTypes, DiskIsTheSave, SavedAs

-----------------------------------------------------------------------------
(* What a block decodes to.                                                *)

LEMMA GoodFile ==
    ASSUME SaveIInv, FileError = "ok"
    PROVE  \E b \in Builds : \E r \in Tables(b) :
              /\ SavedAs(b, r, "none")
              /\ \A i \in DOMAIN b.arenas : BlockError(BlockOf(b, r, b.arenas[i])) = "ok"
<1>1. disk # <<>>
  BY DEF FileError
<1>2. PICK b \in Builds : \E r \in Tables(b), d \in Damages : SavedAs(b, r, d)
  BY <1>1 DEF SaveIInv, DiskIsTheSave
<1>3. PICK r \in Tables(b), d \in Damages : SavedAs(b, r, d)
  BY <1>2
<1>4. disk[1].damage = d /\ disk[1].blocks = BlocksOf(b, r)
  BY <1>3 DEF SavedAs
<1>. DEFINE blocks == BlocksOf(b, r)
            bad == {i \in DOMAIN blocks : BlockError(blocks[i]) # "ok"}
<1>5. d = "none" /\ (IF bad = {} THEN "ok" ELSE BlockError(blocks[Min(bad)])) = "ok"
  BY <1>1, <1>4 DEF FileError, Damages
<1>6. DOMAIN blocks = DOMAIN b.arenas /\ \A i \in DOMAIN b.arenas : blocks[i] = BlockOf(b, r, b.arenas[i])
  BY DEF BlocksOf
<1>7. DOMAIN b.arenas = 1 .. Len(b.arenas) /\ Len(b.arenas) \in Nat
  BY BuildFacts
<1>8. bad = {}
  <2>. SUFFICES ASSUME bad # {} PROVE FALSE
    OBVIOUS
  <2>1. bad \subseteq Nat
    BY <1>6, <1>7
  <2>2. Min(bad) \in bad
    <3>. HIDE DEF bad
    <3>. QED BY <2>1, MinOf
  <2>. QED BY <1>5, <2>2
<1>9. \A i \in DOMAIN b.arenas : BlockError(BlockOf(b, r, b.arenas[i])) = "ok"
  BY <1>6, <1>8
<1>. QED BY <1>3, <1>5, <1>9

\* The block of an arena read back: its rows, with the fields that both builds know.
DecodesBack(old, id, kind, decoded) ==
    /\ id \in Arenas(build)
    /\ kind \in Kinds /\ kind = Desc(build, id).kind
    /\ decoded \in Seq(RowSet(build)) /\ DOMAIN decoded = DOMAIN old /\ Len(decoded) = Len(old)
    /\ \A k \in DOMAIN decoded : CameBack(decoded[k], old[k])

\* The stored fields that are read into a field.
From(fields, f) == {n \in DOMAIN fields : Resolve(fields[n]) = f}

LEMMA BlockDecodes ==
    ASSUME build \in Builds, NEW b \in Builds, NEW r \in Tables(b), SavedAs(b, r, "none"),
           NEW i \in DOMAIN b.arenas, BlockError(BlockOf(b, r, b.arenas[i])) = "ok"
    PROVE  DecodesBack(r[b.arenas[i].id], b.arenas[i].id, b.arenas[i].kind,
                       DecodedRows(BlockOf(b, r, b.arenas[i])))
<1>0. saved[1].build = b
  BY DEF SavedAs
<1>. DEFINE id == b.arenas[i].id
            block == BlockOf(b, r, b.arenas[i])
            decoded == DecodedRows(block)
            old == r[id]
<1>1. IsBuild(b) /\ IsBuild(build) /\ id \in Arenas(b)
  BY BuildFacts
<1>2. old \in Seq(RowSet(b)) /\ DOMAIN old = 1 .. Len(old) /\ Len(old) \in Nat
  <2>1. old \in Seq(RowSet(b))
    BY <1>1 DEF Tables
  <2>. HIDE DEF old
  <2>. QED BY <2>1
<1>3. b.fields \in Seq(Fields(b)) /\ Fields(b) = ToSet(b.fields) /\ "" \notin Fields(build)
  BY <1>1 DEF IsBuild
<1>4. /\ block.id = id /\ block.kind = b.arenas[i].kind /\ block.fields = b.fields
      /\ block.kinds = b.kinds /\ DOMAIN block.rows = DOMAIN old
      /\ \A k \in DOMAIN old :
            /\ block.rows[k].entity = old[k].entity
            /\ \A n \in DOMAIN b.fields : block.rows[k].values[n] = old[k].fields[b.fields[n]]
  BY DEF BlockOf
<1>5. /\ id \in Arenas(build) /\ b.arenas[i].kind = Desc(build, id).kind
      /\ RowsError(block, Desc(build, id).max_rows) = "ok"
  BY <1>4 DEF BlockError
<1>6. ASSUME NEW n \in DOMAIN b.fields, Resolve(b.fields[n]) # ""
      PROVE  build.kinds[Resolve(b.fields[n])] = b.kinds[b.fields[n]]
  BY <1>4, <1>5, <1>6 DEF RowsError
<1>. DEFINE from(f) == From(b.fields, f)
<1>7. /\ DOMAIN decoded = DOMAIN old
      /\ \A k \in DOMAIN old :
            decoded[k] = [entity |-> old[k].entity,
                          fields |-> [f \in Fields(build) |->
                              IF from(f) = {} THEN Default ELSE block.rows[k].values[Max(from(f))]]]
  <2>1. decoded = [k \in DOMAIN block.rows |->
                      [entity |-> block.rows[k].entity,
                       fields |-> [f \in Fields(build) |->
                          IF From(block.fields, f) = {} THEN Default
                          ELSE block.rows[k].values[Max(From(block.fields, f))]]]]
    BY DEF DecodedRows, From
  <2>. HIDE DEF decoded, block, old
  <2>2. decoded = [k \in DOMAIN old |->
                      [entity |-> old[k].entity,
                       fields |-> [f \in Fields(build) |->
                          IF From(b.fields, f) = {} THEN Default
                          ELSE block.rows[k].values[Max(From(b.fields, f))]]]]
    BY <1>4, <2>1
  <2>. QED BY <2>2
<1>. HIDE DEF decoded
<1>8. ASSUME NEW f \in Fields(build), from(f) # {}
      PROVE  /\ Max(from(f)) \in DOMAIN b.fields
             /\ b.fields[Max(from(f))] \in Fields(b)
             /\ Resolve(b.fields[Max(from(f))]) = f
  <2>1. DOMAIN b.fields = 1 .. Len(b.fields) /\ Len(b.fields) \in Nat
    BY <1>3, LenProperties
  <2>2. from(f) \subseteq 1 .. Len(b.fields)
    BY <2>1 DEF From
  <2>3. Max(from(f)) \in from(f)
    <3>. DEFINE F == from(f)
    <3>1. F \subseteq 1 .. Len(b.fields) /\ F # {}
      BY <1>8, <2>2
    <3>. HIDE DEF F
    <3>2. Max(F) \in F
      BY <2>1, <3>1, GreatestFound
    <3>. QED BY <3>2 DEF F
  <2>4. Max(from(f)) \in DOMAIN b.fields /\ Resolve(b.fields[Max(from(f))]) = f
    BY <2>3 DEF From
  <2>5. b.fields[Max(from(f))] \in ToSet(b.fields)
    BY <2>4 DEF ToSet
  <2>. QED BY <1>3, <2>4, <2>5
<1>9. ASSUME NEW f \in Fields(build), NEW g \in Fields(b)
      PROVE  g \in Sources(f) <=> Resolve(g) = f
  <2>. QED BY <1>0, <1>3 DEF Sources, Resolve
<1>10. ASSUME NEW k \in DOMAIN old
       PROVE  CameBack(decoded[k], old[k]) /\ decoded[k] \in RowSet(build)
  <2>1. decoded[k].entity = old[k].entity /\ old[k] \in RowSet(b)
    <3>. DEFINE fs == [f \in Fields(build) |->
                        IF from(f) = {} THEN Default ELSE block.rows[k].values[Max(from(f))]]
    <3>0. decoded[k] = [entity |-> old[k].entity, fields |-> fs]
      BY <1>7
    <3>. HIDE DEF fs
    <3>1. decoded[k].entity = old[k].entity
      BY <3>0
    <3>2. old[k] \in RowSet(b)
      <4>. HIDE DEF old
      <4>. QED BY <1>2
    <3>. QED BY <3>1, <3>2
  <2>0. \A f \in Fields(build) :
            decoded[k].fields[f] = IF From(b.fields, f) = {} THEN Default
                                   ELSE block.rows[k].values[Max(From(b.fields, f))]
    <3>. DEFINE fs == [f \in Fields(build) |->
                        IF From(b.fields, f) = {} THEN Default
                        ELSE block.rows[k].values[Max(From(b.fields, f))]]
    <3>1. decoded[k] = [entity |-> old[k].entity, fields |-> fs]
      BY <1>7
    <3>. HIDE DEF fs
    <3>2. decoded[k].fields = fs
      BY <3>1
    <3>. QED BY <3>2 DEF fs
  <2>3. ASSUME NEW f \in Fields(build), Sources(f) = {}
        PROVE  decoded[k].fields[f] = Default
    <3>1. from(f) = {}
      <4>1. \A n \in DOMAIN b.fields : b.fields[n] \in Fields(b)
        BY <1>3 DEF ToSet
      <4>. QED BY <1>9, <2>3, <4>1 DEF From
    <3>. QED BY <2>0, <3>1
  <2>4. ASSUME NEW f \in Fields(build), Sources(f) # {}
        PROVE  \E g \in Sources(f) : /\ decoded[k].fields[f] = old[k].fields[g]
                                     /\ build.kinds[f] = b.kinds[g]
    <3>1. from(f) # {}
      <4>1. PICK g \in Sources(f) : TRUE
        BY <2>4
      <4>2. g \in Fields(b) /\ Resolve(g) = f
        BY <1>0, <1>9, <4>1 DEF Sources
      <4>3. \E n \in DOMAIN b.fields : b.fields[n] = g
        BY <1>3, <4>2 DEF ToSet
      <4>. QED BY <4>2, <4>3 DEF From
    <3>. DEFINE m == Max(from(f))
    <3>2. m \in DOMAIN b.fields /\ b.fields[m] \in Fields(b) /\ Resolve(b.fields[m]) = f
      BY <1>8, <3>1
    <3>3. decoded[k].fields[f] = block.rows[k].values[m]
      BY <2>0, <3>1
    <3>. HIDE DEF m
    <3>4. decoded[k].fields[f] = old[k].fields[b.fields[m]]
      BY <1>4, <3>2, <3>3
    <3>5. build.kinds[f] = b.kinds[b.fields[m]]
      BY <1>3, <1>6, <3>2
    <3>6. b.fields[m] \in Sources(f)
      BY <1>9, <3>2
    <3>. QED BY <3>4, <3>5, <3>6
  <2>5. CameBack(decoded[k], old[k])
    BY <1>0, <2>1, <2>3, <2>4 DEF CameBack
  <2>6. \A f \in Fields(build) : decoded[k].fields[f] \in Values \cup {Default}
    <3>1. \A g \in Fields(b) : old[k].fields[g] \in Values \cup {Default}
      BY <2>1 DEF RowSet
    <3>2. \A f \in Fields(build) : \A g \in Sources(f) : g \in Fields(b)
      BY <1>0 DEF Sources
    <3>. QED BY <2>3, <2>4, <3>1, <3>2
  <2>7. old[k].entity \in Entities \cup {0}
    BY <2>1 DEF RowSet
  <2>. DEFINE fs == [f \in Fields(build) |->
                        IF from(f) = {} THEN Default ELSE block.rows[k].values[Max(from(f))]]
  <2>8. decoded[k] = [entity |-> old[k].entity, fields |-> fs] /\ DOMAIN fs = Fields(build)
        /\ fs = [f \in Fields(build) |-> fs[f]]
    BY <1>7
  <2>. HIDE DEF fs, decoded, old
  <2>9. fs \in [Fields(build) -> Values \cup {Default}]
    BY <2>6, <2>8
  <2>10. decoded[k] \in RowSet(build)
    BY <2>7, <2>8, <2>9 DEF RowSet
  <2>. QED BY <2>5, <2>10
<1>11. decoded \in Seq(RowSet(build)) /\ Len(decoded) = Len(old)
  <2>1. decoded = [k \in 1 .. Len(old) |-> decoded[k]]
    BY <1>2, <1>4, <1>7 DEF DecodedRows, decoded
  <2>. HIDE DEF decoded, old
  <2>. QED BY <1>2, <1>7, <1>10, <2>1
<1>12. b.arenas[i].kind \in Kinds
  BY <1>1 DEF IsBuild
<1>. HIDE DEF decoded, old, id, block
<1>13. DecodesBack(old, id, b.arenas[i].kind, decoded)
  BY <1>5, <1>7, <1>10, <1>11, <1>12 DEF DecodesBack
<1>. QED BY <1>13 DEF decoded, old, id, block
-----------------------------------------------------------------------------
(* The blocks applied one after the other, none of them twice.             *)

Loads(b) == [rows : Tables(b), commands : Seq(Adds(b))]
IsApplied(blocks, f) ==
    f = [n \in 0 .. Len(blocks) |->
            IF n = 0 THEN [rows |-> rows, commands |-> commands] ELSE ApplyBlock(f[n - 1], blocks[n])]

LEMMA AppliedIs ==
    ASSUME NEW blocks
    PROVE  Applied(blocks) = (CHOOSE f : IsApplied(blocks, f))[Len(blocks)]
BY DEF Applied, IsApplied

New(s) == Len(commands) + 1 .. Len(s.commands)
NewOf(id, s) == {k \in New(s) : s.commands[k].id = id}
Extended(s) == Len(commands) <= Len(s.commands) /\ \A k \in 1 .. Len(commands) : s.commands[k] = commands[k]
Untouched(id, s) == s.rows[id] = rows[id] /\ NewOf(id, s) = {}
AddedFrom(id, decoded, s, from) ==
    /\ NewOf(id, s) = from + 1 .. from + Len(decoded)
    /\ \A k \in DOMAIN decoded : s.commands[from + k].row = decoded[k]
Came(id, decoded, s) ==
    IF Desc(build, id).kind = "reflected"
    THEN s.rows[id] = decoded /\ NewOf(id, s) = {}
    ELSE /\ s.rows[id] = rows[id]
         /\ \E from \in Len(commands) .. Len(s.commands) : AddedFrom(id, decoded, s, from)

AddsOf(id, decoded) == [i \in DOMAIN decoded |-> [id |-> id, row |-> decoded[i]]]
WithRows(s, id, decoded) == [rows |-> [s.rows EXCEPT ![id] = decoded], commands |-> s.commands]
WithAdds(s, id, decoded) == [rows |-> s.rows, commands |-> s.commands \o AddsOf(id, decoded)]

LEMMA ApplyIs ==
    ASSUME NEW b, NEW s \in Loads(b), NEW block
    PROVE  ApplyBlock(s, block) = IF block.kind = "reflected"
                                  THEN WithRows(s, block.id, DecodedRows(block))
                                  ELSE WithAdds(s, block.id, DecodedRows(block))
<1>. DEFINE decoded == DecodedRows(block)
            tables == [s.rows EXCEPT ![block.id] = decoded]
            longer == s.commands \o AddsOf(block.id, decoded)
<1>1. s = [rows |-> s.rows, commands |-> s.commands]
  BY DEF Loads
<1>2. ApplyBlock(s, block) = IF block.kind = "reflected"
                             THEN [s EXCEPT !.rows = tables] ELSE [s EXCEPT !.commands = longer]
  BY DEF ApplyBlock, AddsOf
<1>. HIDE DEF tables, longer
<1>3. [s EXCEPT !.rows = tables] = [rows |-> tables, commands |-> s.commands]
  BY <1>1
<1>4. [s EXCEPT !.commands = longer] = [rows |-> s.rows, commands |-> longer]
  BY <1>1
<1>. QED BY <1>2, <1>3, <1>4 DEF WithRows, WithAdds, tables, longer

LEMMA AddsAre ==
    ASSUME NEW b, NEW id \in Arenas(b), NEW decoded \in Seq(RowSet(b))
    PROVE  AddsOf(id, decoded) \in Seq(Adds(b)) /\ Len(AddsOf(id, decoded)) = Len(decoded)
           /\ \A i \in 1 .. Len(decoded) :
                 AddsOf(id, decoded)[i].id = id /\ AddsOf(id, decoded)[i].row = decoded[i]
<1>1. DOMAIN decoded = 1 .. Len(decoded) /\ Len(decoded) \in Nat
      /\ \A i \in 1 .. Len(decoded) : decoded[i] \in RowSet(b)
  OBVIOUS
<1>2. AddsOf(id, decoded) = [i \in 1 .. Len(decoded) |-> [id |-> id, row |-> decoded[i]]]
  BY <1>1 DEF AddsOf
<1>3. \A i \in 1 .. Len(decoded) : [id |-> id, row |-> decoded[i]] \in Adds(b)
  BY <1>1 DEF Adds
<1>. QED BY <1>1, <1>2, <1>3

LEMMA ApplyType ==
    ASSUME NEW b, NEW s \in Loads(b), NEW block, block.id \in Arenas(b),
           DecodedRows(block) \in Seq(RowSet(b))
    PROVE  ApplyBlock(s, block) \in Loads(b)
<1>. DEFINE decoded == DecodedRows(block)
<1>. HIDE DEF decoded
<1>1. s.rows \in Tables(b) /\ s.commands \in Seq(Adds(b)) /\ decoded \in Seq(RowSet(b))
  BY DEF Loads, decoded
<1>2. WithRows(s, block.id, decoded) \in Loads(b)
  BY <1>1, Edited DEF WithRows, Loads
<1>3. AddsOf(block.id, decoded) \in Seq(Adds(b))
  BY <1>1, AddsAre
<1>4. s.commands \o AddsOf(block.id, decoded) \in Seq(Adds(b))
  BY <1>1, <1>3, ConcatProperties
<1>5. WithAdds(s, block.id, decoded) \in Loads(b)
  BY <1>1, <1>4 DEF WithAdds, Loads
<1>. QED BY <1>2, <1>5, ApplyIs DEF decoded

\* What applying one block leaves of the others.
LeavesOthers(id, s, t) ==
    \A o \in Arenas(build) \ {id} :
        /\ Untouched(o, s) => Untouched(o, t)
        /\ \A d \in Seq(RowSet(build)) : Came(o, d, s) => Came(o, d, t)

LEMMA RowsApplied ==
    ASSUME SaveTypes, NEW s \in Loads(build), Extended(s), NEW id \in Arenas(build),
           NEW decoded \in Seq(RowSet(build)), Untouched(id, s), Desc(build, id).kind = "reflected"
    PROVE  /\ Extended(WithRows(s, id, decoded)) /\ Came(id, decoded, WithRows(s, id, decoded))
           /\ LeavesOthers(id, s, WithRows(s, id, decoded))
<1>. DEFINE t == WithRows(s, id, decoded)
<1>1. s.rows \in Tables(build)
  BY DEF Loads
<1>2. t.commands = s.commands /\ t.rows[id] = decoded /\ \A o \in Arenas(build) \ {id} : t.rows[o] = s.rows[o]
  BY <1>1 DEF WithRows, Tables
<1>. HIDE DEF t
<1>3. Extended(t) /\ New(t) = New(s) /\ \A o : NewOf(o, t) = NewOf(o, s)
  BY <1>2 DEF Extended, New, NewOf
<1>4. Came(id, decoded, t)
  BY <1>2, <1>3 DEF Came, Untouched
<1>5. ASSUME NEW o \in Arenas(build) \ {id} PROVE Untouched(o, s) => Untouched(o, t)
  BY <1>2, <1>3 DEF Untouched
<1>6. ASSUME NEW o \in Arenas(build) \ {id}, NEW d \in Seq(RowSet(build)), Came(o, d, s) PROVE Came(o, d, t)
  <2>1. \A from : AddedFrom(o, d, s, from) => AddedFrom(o, d, t, from)
    BY <1>2, <1>3 DEF AddedFrom
  <2>. QED BY <1>2, <1>3, <1>6, <2>1 DEF Came
<1>7. LeavesOthers(id, s, t)
  BY <1>5, <1>6 DEF LeavesOthers
<1>. QED BY <1>3, <1>4, <1>7 DEF t

LEMMA AddsApplied ==
    ASSUME SaveTypes, NEW s \in Loads(build), Extended(s), NEW id \in Arenas(build),
           NEW decoded \in Seq(RowSet(build)), Untouched(id, s), Desc(build, id).kind # "reflected"
    PROVE  /\ Extended(WithAdds(s, id, decoded)) /\ Came(id, decoded, WithAdds(s, id, decoded))
           /\ LeavesOthers(id, s, WithAdds(s, id, decoded))
<1>. DEFINE t == WithAdds(s, id, decoded)
            adds == AddsOf(id, decoded)
<1>1. s.commands \in Seq(Adds(build)) /\ adds \in Seq(Adds(build)) /\ Len(adds) = Len(decoded)
      /\ \A i \in 1 .. Len(decoded) : adds[i].id = id /\ adds[i].row = decoded[i]
  BY AddsAre DEF Loads
<1>. HIDE DEF adds
<1>2. PICK base \in Nat, m \in Nat, len \in Nat :
         base = Len(commands) /\ m = Len(s.commands) /\ len = Len(decoded)
  BY <1>1 DEF SaveTypes
<1>3. /\ Len(s.commands \o adds) = m + len
      /\ \A k \in 1 .. m : (s.commands \o adds)[k] = s.commands[k]
      /\ \A i \in 1 .. len : (s.commands \o adds)[m + i] = adds[i]
  <2>. DEFINE x == s.commands
  <2>1. x \in Seq(Adds(build)) /\ adds \in Seq(Adds(build)) /\ Len(x) = m /\ Len(adds) = len
    BY <1>1, <1>2
  <2>. HIDE DEF x
  <2>2. Len(x \o adds) = Len(x) + Len(adds)
        /\ \A i \in 1 .. Len(x) + Len(adds) :
              (x \o adds)[i] = IF i <= Len(x) THEN x[i] ELSE adds[i - Len(x)]
    BY <2>1, ConcatProperties
  <2>3. \A i \in 1 .. len : m + i \in 1 .. m + len /\ ~(m + i <= m) /\ (m + i) - m = i
    OBVIOUS
  <2>4. \A i \in 1 .. m : i \in 1 .. m + len /\ i <= m
    OBVIOUS
  <2>5. \A k \in 1 .. m : (x \o adds)[k] = x[k]
    BY <2>1, <2>2, <2>4
  <2>6. ASSUME NEW i \in 1 .. len PROVE (x \o adds)[m + i] = adds[i]
    <3>1. (x \o adds)[m + i] = adds[(m + i) - m]
      BY <2>1, <2>2, <2>3
    <3>. QED BY <2>3, <3>1
  <2>7. Len(x \o adds) = m + len
    BY <2>1, <2>2
  <2>. QED BY <2>5, <2>6, <2>7 DEF x
<1>4. t.rows = s.rows /\ t.commands = s.commands \o adds
  BY DEF WithAdds, adds
<1>. HIDE DEF t
<1>5. /\ t.rows = s.rows /\ Len(t.commands) = m + len
      /\ \A k \in 1 .. m : t.commands[k] = s.commands[k]
      /\ \A i \in 1 .. len : t.commands[m + i].id = id /\ t.commands[m + i].row = decoded[i]
  BY <1>1, <1>2, <1>3, <1>4
<1>6. base <= m /\ \A k \in 1 .. base : s.commands[k] = commands[k]
  BY <1>2 DEF Extended
<1>7. New(s) = base + 1 .. m /\ New(t) = base + 1 .. m + len
  BY <1>2, <1>5 DEF New
<1>8. Extended(t)
  BY <1>2, <1>5, <1>6 DEF Extended
<1>9. ASSUME NEW k \in m + 1 .. m + len
      PROVE  k - m \in 1 .. len /\ k = m + (k - m) /\ t.commands[k].id = id
  <2>1. k - m \in 1 .. len /\ k = m + (k - m)
    BY <1>2
  <2>. QED BY <1>5, <2>1
<1>10. NewOf(id, t) = m + 1 .. m + len
  <2>1. ASSUME NEW k \in New(t), t.commands[k].id = id PROVE k \in m + 1 .. m + len
    <3>. SUFFICES ASSUME k <= m PROVE FALSE
      BY <1>2, <1>7
    <3>1. k \in New(s) /\ t.commands[k] = s.commands[k]
      BY <1>2, <1>5, <1>7
    <3>. QED BY <2>1, <3>1 DEF Untouched, NewOf
  <2>2. ASSUME NEW k \in m + 1 .. m + len PROVE k \in New(t) /\ t.commands[k].id = id
    <3>1. k \in New(t)
      BY <1>2, <1>6, <1>7
    <3>. QED BY <1>9, <3>1
  <2>. QED BY <2>1, <2>2 DEF NewOf
<1>11. Came(id, decoded, t)
  <2>1. DOMAIN decoded = 1 .. len
    BY <1>2
  <2>2. AddedFrom(id, decoded, t, m)
    BY <1>2, <1>5, <1>10, <2>1 DEF AddedFrom
  <2>3. m \in Len(commands) .. Len(t.commands)
    BY <1>2, <1>5, <1>6
  <2>. QED BY <1>5, <2>2, <2>3 DEF Came, Untouched
<1>12. ASSUME NEW o \in Arenas(build) \ {id} PROVE NewOf(o, t) = NewOf(o, s)
  <2>1. ASSUME NEW k \in New(t), t.commands[k].id = o PROVE k \in New(s) /\ s.commands[k].id = o
    <3>1. k \notin m + 1 .. m + len
      BY <1>9, <2>1
    <3>2. k \in New(s) /\ t.commands[k] = s.commands[k]
      BY <1>2, <1>5, <1>7, <3>1
    <3>. QED BY <2>1, <3>2
  <2>2. ASSUME NEW k \in New(s), s.commands[k].id = o PROVE k \in New(t) /\ t.commands[k].id = o
    <3>1. k \in New(t) /\ t.commands[k] = s.commands[k]
      BY <1>2, <1>5, <1>7
    <3>. QED BY <2>2, <3>1
  <2>. QED BY <2>1, <2>2 DEF NewOf
<1>13. ASSUME NEW o \in Arenas(build) \ {id} PROVE Untouched(o, s) => Untouched(o, t)
  BY <1>5, <1>12 DEF Untouched
<1>14. ASSUME NEW o \in Arenas(build) \ {id}, NEW d \in Seq(RowSet(build)), Came(o, d, s) PROVE Came(o, d, t)
  <2>1. CASE Desc(build, o).kind = "reflected"
    BY <1>5, <1>12, <1>14, <2>1 DEF Came
  <2>2. CASE Desc(build, o).kind # "reflected"
    <3>1. PICK from \in Len(commands) .. Len(s.commands) : AddedFrom(o, d, s, from)
      BY <1>14, <2>2 DEF Came
    <3>2. from \in Len(commands) .. Len(t.commands)
      BY <1>2, <1>5
    <3>3. AddedFrom(o, d, t, from)
      <4>1. NewOf(o, t) = from + 1 .. from + Len(d)
        BY <1>12, <3>1 DEF AddedFrom
      <4>. SUFFICES ASSUME NEW k \in DOMAIN d PROVE t.commands[from + k].row = d[k]
        BY <4>1 DEF AddedFrom
      <4>2. k \in 1 .. Len(d) /\ Len(d) \in Nat /\ from \in Nat
        BY <1>2
      <4>3. from + k \in from + 1 .. from + Len(d)
        BY <4>2
      <4>4. from + k \in New(s)
        BY <3>1, <4>3 DEF AddedFrom, NewOf
      <4>5. t.commands[from + k] = s.commands[from + k]
        BY <1>2, <1>5, <1>7, <4>4
      <4>. QED BY <3>1, <4>5 DEF AddedFrom
    <3>. QED BY <1>5, <1>14, <2>2, <3>2, <3>3 DEF Came
  <2>. QED BY <2>1, <2>2
<1>15. LeavesOthers(id, s, t)
  BY <1>13, <1>14 DEF LeavesOthers
<1>. QED BY <1>8, <1>11, <1>15 DEF t
\* What has come back when the first n blocks have been applied.
Stage(b, r, n, s) ==
    /\ s \in Loads(build) /\ Extended(s)
    /\ \A i \in 1 .. n : Came(b.arenas[i].id, DecodedRows(BlockOf(b, r, b.arenas[i])), s)
    /\ \A id \in Arenas(build) : (\A i \in 1 .. n : b.arenas[i].id # id) => Untouched(id, s)
AllDecode(b, r) ==
    \A i \in DOMAIN b.arenas :
        DecodesBack(r[b.arenas[i].id], b.arenas[i].id, b.arenas[i].kind,
                    DecodedRows(BlockOf(b, r, b.arenas[i])))

LEMMA StageStarts ==
    ASSUME SaveTypes, NEW b, NEW r PROVE Stage(b, r, 0, [rows |-> rows, commands |-> commands])
<1>. DEFINE s == [rows |-> rows, commands |-> commands]
<1>1. s.rows = rows /\ s.commands = commands /\ s \in Loads(build) /\ Len(commands) \in Nat
  BY DEF SaveTypes, Loads
<1>. HIDE DEF s
<1>2. New(s) = {}
  BY <1>1 DEF New
<1>3. Extended(s) /\ \A id : Untouched(id, s)
  BY <1>1, <1>2 DEF Extended, Untouched, NewOf
<1>. QED BY <1>1, <1>3 DEF Stage, s

LEMMA StageGoes ==
    ASSUME SaveTypes, NEW b \in Builds, NEW r, AllDecode(b, r), NEW n \in DOMAIN b.arenas,
           NEW s, Stage(b, r, n - 1, s)
    PROVE  Stage(b, r, n, ApplyBlock(s, BlockOf(b, r, b.arenas[n])))
<1>. DEFINE block(i) == BlockOf(b, r, b.arenas[i])
            decoded(i) == DecodedRows(block(i))
            id(i) == b.arenas[i].id
            t == ApplyBlock(s, block(n))
<1>1. n \in 1 .. Len(b.arenas) /\ Len(b.arenas) \in Nat /\ DOMAIN b.arenas = 1 .. Len(b.arenas)
      /\ \A i, j \in DOMAIN b.arenas : id(i) = id(j) => i = j
  BY BuildFacts DEF IsBuild
<1>2. ASSUME NEW i \in DOMAIN b.arenas
      PROVE  /\ id(i) \in Arenas(build) /\ decoded(i) \in Seq(RowSet(build))
             /\ b.arenas[i].kind = Desc(build, id(i)).kind
             /\ block(i).id = id(i) /\ block(i).kind = b.arenas[i].kind
  <2>1. DecodesBack(r[id(i)], id(i), b.arenas[i].kind, decoded(i))
    BY DEF AllDecode
  <2>2. block(i).id = id(i) /\ block(i).kind = b.arenas[i].kind
    BY DEF BlockOf
  <2>. HIDE DEF block, decoded, id
  <2>. QED BY <2>1, <2>2 DEF DecodesBack
<1>. HIDE DEF decoded, id
<1>3. /\ s \in Loads(build) /\ Extended(s)
      /\ \A i \in 1 .. n - 1 : Came(id(i), decoded(i), s)
      /\ \A o \in Arenas(build) : (\A i \in 1 .. n - 1 : id(i) # o) => Untouched(o, s)
  BY DEF Stage, decoded, id
<1>4. Untouched(id(n), s)
  <2>1. \A i \in 1 .. n - 1 : i \in DOMAIN b.arenas /\ i # n
    BY <1>1
  <2>. QED BY <1>1, <1>2, <1>3, <2>1
<1>5. t = IF block(n).kind = "reflected" THEN WithRows(s, id(n), decoded(n)) ELSE WithAdds(s, id(n), decoded(n))
  <2>1. t = IF block(n).kind = "reflected" THEN WithRows(s, block(n).id, decoded(n))
            ELSE WithAdds(s, block(n).id, decoded(n))
    BY <1>3, ApplyIs DEF decoded
  <2>. HIDE DEF block, t
  <2>. QED BY <1>2, <2>1
<1>6. block(n).kind = Desc(build, id(n)).kind
  BY <1>2
<1>7. t \in Loads(build)
  <2>1. block(n).id \in Arenas(build)
    BY <1>2
  <2>2. DecodedRows(block(n)) \in Seq(RowSet(build))
    BY <1>2 DEF decoded
  <2>. QED BY <1>3, <2>1, <2>2, ApplyType
<1>. HIDE DEF t, block
<1>8. Extended(t) /\ Came(id(n), decoded(n), t) /\ LeavesOthers(id(n), s, t)
  <2>1. id(n) \in Arenas(build) /\ decoded(n) \in Seq(RowSet(build))
    BY <1>2
  <2>2. CASE block(n).kind = "reflected"
    BY <1>3, <1>4, <1>5, <1>6, <2>1, <2>2, RowsApplied
  <2>3. CASE block(n).kind # "reflected"
    BY <1>3, <1>4, <1>5, <1>6, <2>1, <2>3, AddsApplied
  <2>. QED BY <2>2, <2>3
<1>9. ASSUME NEW i \in 1 .. n PROVE Came(id(i), decoded(i), t)
  <2>1. CASE i = n
    BY <1>8, <2>1
  <2>2. CASE i # n
    <3>1. i \in 1 .. n - 1 /\ i \in DOMAIN b.arenas
      BY <1>1, <2>2
    <3>2. id(i) \in Arenas(build) \ {id(n)} /\ decoded(i) \in Seq(RowSet(build))
      BY <1>1, <1>2, <2>2, <3>1
    <3>. QED BY <1>3, <1>8, <3>1, <3>2 DEF LeavesOthers
  <2>. QED BY <2>1, <2>2
<1>10. ASSUME NEW o \in Arenas(build), \A i \in 1 .. n : id(i) # o PROVE Untouched(o, t)
  <2>1. n \in 1 .. n /\ \A i \in 1 .. n - 1 : i \in 1 .. n
    BY <1>1
  <2>2. o \in Arenas(build) \ {id(n)} /\ Untouched(o, s)
    BY <1>3, <1>10, <2>1
  <2>. QED BY <1>8, <2>2 DEF LeavesOthers
<1>11. Stage(b, r, n, t)
  BY <1>7, <1>8, <1>9, <1>10 DEF Stage, id, decoded, block
<1>. QED BY <1>11 DEF t, block

LEMMA AllApplied ==
    ASSUME SaveTypes, NEW b \in Builds, NEW r, AllDecode(b, r)
    PROVE  Stage(b, r, Len(b.arenas), Applied(BlocksOf(b, r)))
<1>. DEFINE n == Len(b.arenas)
            S == Loads(build)
            blocks == BlocksOf(b, r)
            start == [rows |-> rows, commands |-> commands]
            G == [p \in S \X (1 .. n) |-> ApplyBlock(p[1], blocks[p[2]])]
<1>1. n \in Nat /\ DOMAIN b.arenas = 1 .. n
  BY BuildFacts
<1>2. Len(blocks) = n /\ \A i \in 1 .. n : blocks[i] = BlockOf(b, r, b.arenas[i])
  BY <1>1 DEF BlocksOf
<1>3. start \in S
  BY DEF SaveTypes, Loads
<1>4. ASSUME NEW s \in S, NEW i \in 1 .. n PROVE ApplyBlock(s, blocks[i]) \in S
  <2>1. DecodesBack(r[b.arenas[i].id], b.arenas[i].id, b.arenas[i].kind,
                    DecodedRows(BlockOf(b, r, b.arenas[i])))
    BY <1>1 DEF AllDecode
  <2>2. BlockOf(b, r, b.arenas[i]).id = b.arenas[i].id
    BY DEF BlockOf
  <2>. DEFINE block == BlockOf(b, r, b.arenas[i])
  <2>3. blocks[i] = block
    BY <1>2
  <2>4. block.id \in Arenas(build) /\ DecodedRows(block) \in Seq(RowSet(build))
    BY <2>1, <2>2 DEF DecodesBack
  <2>. HIDE DEF block, blocks
  <2>5. ApplyBlock(s, block) \in S
    BY <2>4, ApplyType
  <2>. QED BY <2>3, <2>5
<1>. HIDE DEF blocks
<1>5. \A s \in S, i \in 1 .. n : G[<<s, i>>] = ApplyBlock(s, blocks[i])
  OBVIOUS
<1>6. G \in [S \X (1 .. n) -> S]
  BY <1>4
<1>. HIDE DEF n, S, start, G
<1>7. PICK h \in [0 .. n -> S] : Iterates(G, start, n, h)
  BY <1>1, <1>3, <1>6, IterationExists
<1>8. IsApplied(blocks, h)
  <2>1. h = [i \in 0 .. n |-> h[i]]
    BY <1>7
  <2>2. \A i \in 0 .. n : h[i] = IF i = 0 THEN start ELSE ApplyBlock(h[i - 1], blocks[i])
    <3>. SUFFICES ASSUME NEW i \in 0 .. n
                  PROVE  h[i] = IF i = 0 THEN start ELSE ApplyBlock(h[i - 1], blocks[i])
      OBVIOUS
    <3>1. CASE i = 0
      BY <1>7, <3>1 DEF Iterates
    <3>2. CASE i # 0
      <4>1. i \in 1 .. n /\ i - 1 \in 0 .. n
        BY <1>1, <3>2
      <4>2. h[i] = G[<<h[i - 1], i>>] /\ h[i - 1] \in S
        BY <1>7, <4>1 DEF Iterates
      <4>. QED BY <1>5, <3>2, <4>1, <4>2
    <3>. QED BY <3>1, <3>2
  <2>3. h = [i \in 0 .. n |-> IF i = 0 THEN start ELSE ApplyBlock(h[i - 1], blocks[i])]
    BY <2>1, <2>2
  <2>. QED BY <1>2, <2>3 DEF IsApplied, start
<1>. DEFINE f == CHOOSE f : IsApplied(blocks, f)
<1>9. IsApplied(blocks, f)
  BY <1>8
<1>. HIDE DEF f
<1>10. f[0] = start /\ \A i \in 1 .. n : f[i] = ApplyBlock(f[i - 1], blocks[i])
  <2>1. \A i \in 0 .. n : f[i] = IF i = 0 THEN start ELSE ApplyBlock(f[i - 1], blocks[i])
    BY <1>2, <1>9 DEF IsApplied, start
  <2>. QED BY <1>1, <2>1
<1>. DEFINE T == {i \in 0 .. n : ~Stage(b, r, i, f[i])}
<1>11. T = {}
  <2>. SUFFICES ASSUME T # {} PROVE FALSE
    OBVIOUS
  <2>1. PICK m \in T : \A k \in T : m <= k
    <3>1. T \subseteq Nat
      OBVIOUS
    <3>. HIDE DEF T
    <3>. QED BY <3>1, Least
  <2>2. 0 \notin T
    BY <1>10, StageStarts DEF start
  <2>3. m \in 1 .. n /\ m - 1 \in 0 .. n /\ m - 1 \notin T
    BY <1>1, <2>1, <2>2
  <2>4. f[m] = ApplyBlock(f[m - 1], blocks[m]) /\ Stage(b, r, m - 1, f[m - 1])
    BY <1>10, <2>3
  <2>5. m \in DOMAIN b.arenas /\ blocks[m] = BlockOf(b, r, b.arenas[m])
    BY <1>1, <1>2, <2>3
  <2>6. Stage(b, r, m, ApplyBlock(f[m - 1], BlockOf(b, r, b.arenas[m])))
    BY <2>4, <2>5, StageGoes
  <2>. QED BY <2>1, <2>4, <2>5, <2>6
<1>12. Stage(b, r, n, f[n])
  BY <1>1, <1>11
<1>13. Applied(blocks) = f[n]
  BY <1>2, AppliedIs DEF f
<1>. QED BY <1>12, <1>13 DEF n, blocks

\* The step of a load that is not refused.
LEMMA LoadedWhole ==
    ASSUME SaveIInv, LoadSave, err' = "ok"
    PROVE  Whole /\ rows' \in Tables(build) /\ commands' \in Seq(Adds(build))
<1>1. FileError = "ok" /\ UNCHANGED <<build, disk, saved>>
      /\ rows' = Applied(disk[1].blocks).rows /\ commands' = Applied(disk[1].blocks).commands
  BY DEF LoadSave
<1>2. PICK b \in Builds : \E r \in Tables(b) :
              /\ SavedAs(b, r, "none")
              /\ \A i \in DOMAIN b.arenas : BlockError(BlockOf(b, r, b.arenas[i])) = "ok"
  BY <1>1, GoodFile
<1>3. PICK r \in Tables(b) :
              /\ SavedAs(b, r, "none")
              /\ \A i \in DOMAIN b.arenas : BlockError(BlockOf(b, r, b.arenas[i])) = "ok"
  BY <1>2
<1>4. build \in Builds /\ SaveTypes
  BY DEF SaveIInv, SaveTypes
<1>. DEFINE id(i) == b.arenas[i].id
            decoded(i) == DecodedRows(BlockOf(b, r, b.arenas[i]))
            end == Applied(disk[1].blocks)
<1>5. ASSUME NEW i \in DOMAIN b.arenas
      PROVE  DecodesBack(r[id(i)], id(i), b.arenas[i].kind, decoded(i))
  <2>1. BlockError(BlockOf(b, r, b.arenas[i])) = "ok" /\ SavedAs(b, r, "none")
    BY <1>3
  <2>. QED BY <1>4, <2>1, BlockDecodes
<1>6. AllDecode(b, r)
  BY <1>5 DEF AllDecode
<1>7. disk[1].blocks = BlocksOf(b, r) /\ disk[1].damage = "none" /\ saved # <<>>
      /\ saved[1].build = b /\ saved[1].rows = r
  BY <1>3 DEF SavedAs
<1>8. Stage(b, r, Len(b.arenas), end)
  BY <1>4, <1>6, <1>7, AllApplied
<1>9. DOMAIN b.arenas = 1 .. Len(b.arenas) /\ Arenas(b) = {id(i) : i \in DOMAIN b.arenas}
  BY BuildFacts DEF Arenas
<1>. HIDE DEF id, decoded
<1>10. /\ end \in Loads(build) /\ Extended(end)
       /\ \A i \in DOMAIN b.arenas : Came(id(i), decoded(i), end)
       /\ \A o \in Arenas(build) : (\A i \in DOMAIN b.arenas : id(i) # o) => Untouched(o, end)
  BY <1>8, <1>9 DEF Stage, id, decoded
<1>. HIDE DEF end
<1>11. rows' = end.rows /\ commands' = end.commands
  BY <1>1 DEF end
<1>12. end.rows \in Tables(build) /\ end.commands \in Seq(Adds(build)) /\ commands \in Seq(Adds(build))
  BY <1>4, <1>10 DEF Loads, SaveTypes
<1>13. Arenas(b) \subseteq Arenas(build)
  BY <1>5, <1>9 DEF DecodesBack
<1>14. IsPrefix(commands, commands')
  <2>. DEFINE c == commands
              d == end.commands
  <2>1. c \in Seq(Adds(build)) /\ d \in Seq(Adds(build)) /\ Len(c) <= Len(d)
        /\ \A k \in 1 .. Len(c) : d[k] = c[k]
    BY <1>10, <1>12 DEF Extended
  <2>. HIDE DEF c, d
  <2>2. Len(c) \in Nat /\ Len(d) \in Nat
    BY <2>1
  <2>3. SubSeq(c, 1, Len(c)) = SubSeq(d, 1, Len(c))
    <3>1. SubSeq(c, 1, Len(c)) = [k \in 1 .. Len(c) |-> c[k]]
      BY <2>1, <2>2
    <3>2. SubSeq(d, 1, Len(c)) = [k \in 1 .. Len(c) |-> d[k]]
      BY <2>1, <2>2
    <3>. QED BY <2>1, <3>1, <3>2
  <2>4. IsPrefix(c, d)
    BY <2>1, <2>3 DEF IsPrefix
  <2>. QED BY <1>11, <2>4 DEF c, d
<1>15. New(end) = Len(commands) + 1 .. Len(commands')
       /\ \A o : NewOf(o, end) = {k \in Len(commands) + 1 .. Len(commands') : commands'[k].id = o}
  BY <1>11 DEF New, NewOf
<1>16. \A o : NewOf(o, end) = {} => NothingAdded(o)
  BY <1>15 DEF NothingAdded
<1>17. ASSUME NEW o \in Arenas(build), o \in Arenas(b), Desc(build, o).kind = "reflected"
       PROVE  Restored(rows'[o], o) /\ NothingAdded(o)
  <2>1. PICK i \in DOMAIN b.arenas : o = id(i)
    BY <1>9, <1>17
  <2>2. rows'[o] = decoded(i) /\ NothingAdded(o)
    BY <1>10, <1>11, <1>16, <1>17, <2>1 DEF Came
  <2>3. DecodesBack(r[o], o, b.arenas[i].kind, decoded(i))
    BY <1>5, <2>1
  <2>. QED BY <1>7, <2>2, <2>3 DEF DecodesBack, Restored
<1>18. ASSUME NEW o \in Arenas(build), o \in Arenas(b), Desc(build, o).kind # "reflected"
       PROVE  rows'[o] = rows[o] /\ AddedBack(o)
  <2>1. PICK i \in DOMAIN b.arenas : o = id(i)
    BY <1>9, <1>18
  <2>2. rows'[o] = rows[o]
        /\ \E from \in Len(commands) .. Len(commands') : AddedFrom(o, decoded(i), end, from)
    BY <1>10, <1>11, <1>18, <2>1 DEF Came
  <2>3. PICK from \in Len(commands) .. Len(commands') : AddedFrom(o, decoded(i), end, from)
    BY <2>2
  <2>4. DecodesBack(r[o], o, b.arenas[i].kind, decoded(i))
    BY <1>5, <2>1
  <2>5. DOMAIN decoded(i) = DOMAIN r[o] /\ Len(decoded(i)) = Len(r[o])
        /\ \A k \in DOMAIN r[o] : CameBack(decoded(i)[k], r[o][k])
    BY <2>4 DEF DecodesBack
  <2>6. NewOf(o, end) = from + 1 .. from + Len(r[o])
        /\ \A k \in DOMAIN r[o] : commands'[from + k].row = decoded(i)[k]
    BY <1>11, <2>3, <2>5 DEF AddedFrom
  <2>7. AddedBack(o)
    BY <1>7, <1>15, <2>5, <2>6 DEF AddedBack
  <2>. QED BY <2>2, <2>7
<1>19. ASSUME NEW o \in Arenas(build), o \notin Arenas(b) PROVE rows'[o] = rows[o] /\ NothingAdded(o)
  BY <1>9, <1>10, <1>11, <1>16, <1>19 DEF Untouched
<1>20. Whole
  BY <1>7, <1>13, <1>14, <1>17, <1>18, <1>19 DEF Whole
<1>. QED BY <1>11, <1>12, <1>20

LEMMA LoadKeeps == SaveIInv /\ LoadSave => SaveIInv' /\ Whole
<1>. SUFFICES ASSUME SaveIInv, LoadSave PROVE SaveIInv' /\ Whole
  OBVIOUS
<1>1. UNCHANGED <<build, disk, saved>>
  BY DEF LoadSave
<1>2. DiskIsTheSave'
  BY <1>1 DEF SaveIInv, DiskIsTheSave, SavedAs
<1>3. CASE err' # "ok"
  <2>1. UNCHANGED <<rows, commands>>
    BY <1>3 DEF LoadSave
  <2>. QED BY <1>1, <1>2, <1>3, <2>1 DEF SaveIInv, SaveTypes, Whole
<1>4. CASE err' = "ok"
  BY <1>1, <1>2, <1>4, LoadedWhole DEF SaveIInv, SaveTypes
<1>. QED BY <1>3, <1>4

LEMMA SaveNextKeeps == SaveIInv /\ [SaveNext]_save_vars => SaveIInv'
<1>. SUFFICES ASSUME SaveIInv, [SaveNext]_save_vars PROVE SaveIInv'
  OBVIOUS
<1>1. CASE UNCHANGED save_vars
  BY <1>1 DEF save_vars, SaveIInv, SaveTypes, DiskIsTheSave, SavedAs
<1>. QED BY <1>1, EditKeeps, SaveKeeps, DamageKeeps, RestartKeeps, LoadKeeps, FlushKeeps DEF SaveNext

\* Whatever the builds, whatever is edited, saved, damaged and loaded: a load is whole or
\* nothing (save.cpp, save_read).
THEOREM LoadIsWholeAlways == SaveSpec => LoadIsWhole
<1>1. SaveInit => SaveIInv
  BY SaveStarts
<1>2. SaveIInv /\ [SaveNext]_save_vars => SaveIInv'
  BY SaveNextKeeps
<1>3. SaveIInv => [LoadSave => Whole]_save_vars
  BY LoadKeeps
<1>. QED BY <1>1, <1>2, <1>3, PTL DEF SaveSpec, LoadIsWhole
=============================================================================

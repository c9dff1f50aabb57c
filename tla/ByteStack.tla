----------------------------- MODULE ByteStack -----------------------------
(***************************************************************************)
(* What the registered arenas promise (docs/MEMORY.md sections 1.1, 1.2):  *)
(* the bytes a hash covers are a function of what was pushed, written and  *)
(* cut off, never of what the memory was used for before.                  *)
(***************************************************************************)
EXTENDS Naturals, Sequences

CONSTANTS Ids,      \* the arenas
          Room,     \* of an arena: how many bytes its owner asked for, rounded to granules
          Grows     \* the (bytes, alignment) pairs that are pushed

VARIABLES contents, \* of an arena: the bytes below its mark
          saved,    \* what the snapshot holds, if it holds anything
          stopped   \* a budget was blown

NoImage == <<>>
Zeros(n) == [i \in 1 .. n |-> 0]
AlignUp(v, align) == ((v + align - 1) \div align) * align
Grown(s, bytes, align) == s \o Zeros(AlignUp(Len(s), align) + bytes - Len(s))

Init == contents = [a \in Ids |-> <<>>] /\ saved = NoImage /\ stopped = FALSE

Push(a, bytes, align) ==
    LET grown == Grown(contents[a], bytes, align)
    IN  /\ stopped' = (Len(grown) > Room[a])
        /\ contents' = IF stopped' THEN contents ELSE [contents EXCEPT ![a] = grown]
        /\ UNCHANGED saved

Write(a, i) == contents' = [contents EXCEPT ![a][i] = 1] /\ UNCHANGED <<saved, stopped>>

Cut(a, mark) ==
    contents' = [contents EXCEPT ![a] = SubSeq(@, 1, mark)] /\ UNCHANGED <<saved, stopped>>

\* A snapshot that does not fit leaves none.
Save(ids) ==
    /\ saved' \in {NoImage, [a \in ids |-> contents[a]]}
    /\ UNCHANGED <<contents, stopped>>

Restore ==
    /\ saved # NoImage
    /\ contents' = [a \in Ids |-> IF a \in DOMAIN saved THEN saved[a] ELSE contents[a]]
    /\ UNCHANGED <<saved, stopped>>

\* Another process, which has the snapshot and nothing else, or one it cannot use.
Fresh ==
    /\ contents' = [a \in Ids |-> <<>>] /\ saved' \in {saved, NoImage}
    /\ UNCHANGED stopped

Next ==
    /\ ~stopped
    /\ \/ \E a \in Ids : \/ \E g \in Grows : Push(a, g[1], g[2])
                         \/ \E i \in DOMAIN contents[a] : Write(a, i)
                         \/ \E mark \in 0 .. Len(contents[a]) : Cut(a, mark)
       \/ \E ids \in SUBSET Ids : Save(ids)
       \/ Restore
       \/ Fresh

Spec == Init /\ [][Next]_<<contents, saved, stopped>>
=============================================================================

---------------------------- MODULE MC_JobsPool -----------------------------
EXTENDS JobsVisibility

\* Chunk counts 0, 1 and 2: with two workers a participant can find nothing.
FewChunks == {[count |-> 0, grain |-> 2], [count |-> 2, grain |-> 2],
              [count |-> 3, grain |-> 2]}
\* Chunk counts 1 and 3.
MoreChunks == {[count |-> 2, grain |-> 2], [count |-> 3, grain |-> 1]}

\* A shuffle: the tickets in reverse.
MCPermute(t, chunks, key) == chunks - 1 - t
=============================================================================

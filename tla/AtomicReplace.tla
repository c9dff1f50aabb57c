--------------------------- MODULE AtomicReplace ---------------------------
(***************************************************************************)
(* What os_write_atomic promises (platform/os_file_atomic.h): a reader of  *)
(* the path sees the whole of some version, never a part of one; a call    *)
(* that fails has changed nothing; a call that succeeds has put its        *)
(* version there.  `history` holds the versions the path went through      *)
(* since the last one known to be on the disk: a power loss leaves one of  *)
(* them.                                                                   *)
(***************************************************************************)
EXTENDS Integers, Sequences, SequencesExt

CONSTANTS
    Versions,   \* the contents callers ask for, one for each call
    Old         \* the content before the first call, not one of Versions

VARIABLES history, calls

vars == <<history, calls>>

Pending == {"asked", "done"}

Init == history = <<Old>> /\ calls = [v \in Versions |-> "none"]

Move(v, from, to) == calls[v] \in from /\ calls' = [calls EXCEPT ![v] = to]

Ask(v) == Move(v, {"none"}, "asked") /\ UNCHANGED history
Replace(v) == Move(v, {"asked"}, "done") /\ history' = Append(history, v)
Fail(v) == Move(v, {"none", "asked"}, "failed") /\ UNCHANGED history
Answer(v) == Move(v, {"done"}, "ok") /\ history' \in {history, <<Last(history)>>}
Kill(v) == Move(v, Pending, "dead") /\ UNCHANGED history

PowerLoss ==
    /\ \E i \in DOMAIN history : history' = <<history[i]>>
    /\ calls' = [v \in Versions |-> IF calls[v] \in Pending THEN "dead" ELSE calls[v]]

Next ==
    \/ \E v \in Versions : Ask(v) \/ Replace(v) \/ Fail(v) \/ Answer(v) \/ Kill(v)
    \/ PowerLoss

Spec == Init /\ [][Next]_vars
=============================================================================

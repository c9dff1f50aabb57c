----------------------------- MODULE MC_Engine ------------------------------
(***************************************************************************)
(* What drives engine_tick_once, in one state space: the frame loop, the   *)
(* rollbacks of a driver, or a developer's tools.  `focus` says which one  *)
(* is at work, and the others stay as they began.                          *)
(***************************************************************************)
EXTENDS EngineFrame, Rollback, Console

VARIABLE focus

\* A ring has a slot, and the bounds are numbers: what Rollback's theorems assume.
ASSUME RewindAssumption == Bounded

\* A cvar of each kind, one SIM, one that is read-only beside, and one that
\* registration refuses; keys are not in the order of the names.
MCProgram ==
    <<[key |-> 5, kind |-> "i32", flags |-> {}, def |-> 1, frac |-> 0],
      [key |-> 3, kind |-> "u32", flags |-> {"sim"}, def |-> 1, frac |-> 0],
      [key |-> 1, kind |-> "bool", flags |-> {"readonly", "sim"}, def |-> 0, frac |-> 0],
      [key |-> 4, kind |-> "f32", flags |-> {"archive"}, def |-> 0, frac |-> 0],
      [key |-> 2, kind |-> "fx", flags |-> {"sim"}, def |-> 0, frac |-> 2]>>
MCDescs == Range(MCProgram) \cup {[key |-> 6, kind |-> "f32", flags |-> {"sim"}, def |-> 0, frac |-> 0]}
MCNames == UNION {[1 .. n -> {1, 2}] : n \in 1 .. 2}
Typing(neg, int, frac) == [form |-> "plain", neg |-> neg, int |-> int, frac |-> frac]
MCTyped == {Typing(FALSE, <<1>>, <<>>), Typing(FALSE, <<3>>, <<5>>), Typing(TRUE, <<0>>, <<5>>)}
MCComps ==
    [c \in {"Health", "PeerSlots"} |->
        IF c = "Health" THEN [singleton |-> FALSE, fields |-> [f \in {"hp", "bits"} |-> IF f = "hp" THEN 1 ELSE 2]]
        ELSE [singleton |-> TRUE, fields |-> [f \in {"slot"} |-> 1]]]

-----------------------------------------------------------------------------
MCInit ==
    /\ focus \in {"frame", "rollback", "tools"}
    /\ Init /\ RewindInit
    /\ IF focus = "tools" THEN ConsoleInit ELSE InitOf("reading", FALSE, <<>>)

MCNext ==
    /\ UNCHANGED focus
    /\ \/ focus = "frame" /\ Next /\ UNCHANGED <<rewind_vars, desk_vars>>
       \/ focus = "rollback" /\ RewindNext /\ UNCHANGED <<vars, desk_vars>>
       \/ focus = "tools" /\ ConsoleNext /\ UNCHANGED <<vars, rewind_vars>>

MCSpec == MCInit /\ [][MCNext]_<<focus, vars, rewind_vars, desk_vars>>

\* "Formats `key`'s current value per its kind" (cvar.h:203): a `set` of an ordinary
\* cvar that is accepted answers with the number that was typed.
SetAnswersWhatWasTyped == focus = "tools" => AnswersWhatWasTyped
=============================================================================

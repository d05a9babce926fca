------------------------------- MODULE OneSource -------------------------------
(***************************************************************************)
(* What the caller of a provider may rely on when there are several of them   *)
(* to fall back on: the pieces it is given, words of an answer, audio of a    *)
(* line or utterances of a caller, come from one provider only; the request  *)
(* is answered, with something, or fails, once; and nothing comes after that. *)
(* (packages/ports, and the comments of the three fallback providers.)       *)
(***************************************************************************)
EXTENDS Integers

CONSTANT Sources, MaxPieces

VARIABLES
    outcome,  \* "open", "answered" or "failed"
    source,   \* whose pieces they are, 0 when there are none
    pieces    \* how many

vars == <<outcome, source, pieces>>

Init == outcome = "open" /\ source = 0 /\ pieces = 0

\* One piece, or all those of an answer that was held back.
Give ==
    /\ outcome = "open"
    /\ source' \in IF pieces = 0 THEN Sources ELSE {source}
    /\ pieces' \in pieces + 1 .. MaxPieces
    /\ outcome' \in {"open", "answered", "failed"}

Answer ==
    /\ outcome = "open"
    /\ pieces > 0
    /\ outcome' = "answered"
    /\ UNCHANGED <<source, pieces>>

Fail ==
    /\ outcome = "open"
    /\ outcome' = "failed"
    /\ UNCHANGED <<source, pieces>>

Next == Give \/ Answer \/ Fail

Spec == Init /\ [][Next]_vars
===============================================================================

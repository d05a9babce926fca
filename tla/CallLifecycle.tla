----------------------------- MODULE CallLifecycle -----------------------------
(***************************************************************************)
(* What the row of one call promises, whoever moves it: it moves along the   *)
(* table of transitions, and a terminal state is final.                     *)
(***************************************************************************)
EXTENDS CallStates

VARIABLE state  \* of the row, or "absent"

\* An inbound call is first seen ringing, an outbound one when a campaign dials it.
Init == state \in {"absent", "queued"}

Answered == state = "absent" /\ state' = "ringing"

Move == state \in CallState /\ state' \in Transitions[state]

Spec == Init /\ [][Answered \/ Move]_state
===============================================================================

----------------------------- MODULE MediaSession -----------------------------
(***************************************************************************)
(* What the gateway may rely on of a voice session, whichever engine runs   *)
(* it: the interface VoiceMediaSession (packages/voice/media-session.ts) and *)
(* the guarantees its two implementations announce.  A session is live from *)
(* start() to end(); turns of the agent runtime are numbered and serialized; *)
(* a handoff to a human owns the session while it lasts; and a session is    *)
(* over exactly once, when no turn is in flight any more.                    *)
(***************************************************************************)
EXTENDS Integers

CONSTANT Exclusive  \* a Boolean: whether a handoff waits for the turn in flight

VARIABLES
    phase,  \* "idle", "live", "handoff", "closing" or "over"
    turn,   \* the number of turns begun
    busy    \* whether the last one is in flight

vars == <<phase, turn, busy>>

Init == phase = "idle" /\ turn = 0 /\ busy = FALSE

Start == phase = "idle" /\ phase' = "live" /\ UNCHANGED <<turn, busy>>

BeginTurn ==
    /\ phase = "live"
    /\ ~busy
    /\ turn' = turn + 1
    /\ busy' = TRUE
    /\ UNCHANGED phase

\* A failed turn may be one too many, and end the session.
SettleTurn ==
    /\ busy
    /\ busy' = FALSE
    /\ phase' \in {phase} \cup (IF phase \in {"live", "handoff"} THEN {"closing"} ELSE {})
    /\ UNCHANGED turn

\* What the caller said meanwhile is committed at once.
SettleAndBegin ==
    /\ phase = "live"
    /\ busy
    /\ turn' = turn + 1
    /\ UNCHANGED <<phase, busy>>

HandOff ==
    /\ phase = "live"
    /\ Exclusive => ~busy
    /\ phase' = "handoff"
    /\ UNCHANGED <<turn, busy>>

HandOffFails ==
    /\ phase = "handoff"
    /\ phase' = "live"
    /\ UNCHANGED <<turn, busy>>

End ==
    /\ phase \in {"idle", "live", "handoff"}
    /\ phase' = "closing"
    /\ UNCHANGED <<turn, busy>>

\* onEnded.
Ended ==
    /\ phase = "closing"
    /\ ~busy
    /\ phase' = "over"
    /\ UNCHANGED <<turn, busy>>

Next ==
    \/ Start \/ BeginTurn \/ SettleTurn \/ SettleAndBegin
    \/ HandOff \/ HandOffFails \/ End \/ Ended

Spec == Init /\ [][Next]_vars
===============================================================================

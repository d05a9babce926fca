------------------------------ MODULE CallStates ------------------------------
(***************************************************************************)
(* The technical states of a call and the paths among them                  *)
(* (packages/voice/call-state.ts).  The trigger of migration 0020 holds the  *)
(* same table, and a test compares the two.                                 *)
(***************************************************************************)
EXTENDS Integers

CallState == {"created", "queued", "dialing", "ringing", "connected", "in_conversation",
              "interrupted", "completing", "completed", "transferred", "no_answer",
              "busy", "failed", "cancelled"}

Terminal == {"completed", "transferred", "no_answer", "busy", "failed", "cancelled"}

Transitions ==
    [s \in CallState |->
        CASE s = "created" -> {"queued", "dialing", "cancelled", "failed"}
          [] s = "queued" -> {"dialing", "cancelled", "failed"}
          [] s = "dialing" -> {"ringing", "connected", "no_answer", "busy", "failed",
                               "cancelled"}
          [] s = "ringing" -> {"connected", "no_answer", "busy", "failed", "cancelled"}
          [] s = "connected" -> {"in_conversation", "completing", "transferred", "failed"}
          [] s = "in_conversation" -> {"interrupted", "completing", "transferred", "failed"}
          [] s = "interrupted" -> {"in_conversation", "completing", "failed"}
          [] s = "completing" -> {"completed", "failed"}
          [] OTHER -> {}]

\* reach[n]: the states that n transitions lead to; no shortest path is longer than 6.
Reach ==
    [from \in CallState |->
        LET reach[n \in 0 .. 6] ==
                IF n = 0 THEN {from} ELSE UNION {Transitions[s] : s \in reach[n - 1]}
        IN  reach]

\* The number of transitions on the shortest path, 7 if there is none.
Distance ==
    [from, to \in CallState |->
        LET at == {n \in 0 .. 6 : to \in Reach[from][n]} IN
        IF at = {} THEN 7 ELSE CHOOSE n \in at : \A m \in at : n <= m]

Reachable(from, to) == Distance[from, to] < 7

\* Of two shortest paths the breadth-first search takes the one through the state that
\* the table lists first.
OrderOf(s) == CASE s = "dialing" -> 1 [] s = "ringing" -> 2 [] s = "connected" -> 3
                [] s = "in_conversation" -> 4 [] s = "interrupted" -> 5
                [] s = "completing" -> 6 [] OTHER -> 7

\* pathToCallState: the next state on the way.
NextOnPath ==
    [from, to \in CallState |->
        LET nearer == {s \in Transitions[from] : Distance[s, to] = Distance[from, to] - 1}
        IN  CHOOSE s \in nearer : \A r \in nearer : OrderOf(s) <= OrderOf(r)]
===============================================================================

------------------------------ MODULE AgentTurns ------------------------------
(***************************************************************************)
(* The turns of one phone conversation: the pipeline of the agent runtime    *)
(* (packages/runtime/agent-runtime.ts), the phone channel adapter around it  *)
(* (packages/voice/phone-channel-adapter.ts), and what the media session     *)
(* does to a turn: it commits an utterance, aborts the turn when the caller  *)
(* barges in, gives it up when it does not react, and reports what was heard.*)
(*                                                                         *)
(* A step of a turn is one await: what the awaited call did and everything   *)
(* up to the next one.  The promise chain of DeferredAssistantStore writes   *)
(* in the order of the calls, so a row is appended where the call is made.   *)
(***************************************************************************)
EXTENDS Integers, Sequences

CONSTANTS
    MaxTurns,       \* how many utterances the caller completes
    MaxToolRounds,  \* policy.maxToolRounds
    MaxErrors       \* how many reads and writes of the database fail

ASSUME TurnsAssumption == {MaxTurns, MaxToolRounds, MaxErrors} \subseteq Nat

VARIABLES
    turn,        \* the calls of handleTurn, by number
    session,     \* the media session, as far as it concerns turns
    pending,     \* DeferredAssistantStore: the reply that waits for its delivery
    transcript,  \* the rows of the conversation, in order
    saved,       \* conversation_state: the turns whose patches the row holds
    acted,       \* history: <<n, m>> when turn m did something for utterance n
    abandoned,   \* history: the turns that were given up while they ran
    errors

vars == <<turn, session, pending, transcript, saved, acted, abandoned, errors>>

Turns == 1 .. MaxTurns

\* Where handleTurn is; "actions", "model" and "tool" are calls in flight.
Step == {"none", "called", "context", "actions", "model", "tool", "persistence", "save",
         "returned", "cancelled", "failed"}

Running == {"called", "context", "actions", "model", "tool", "persistence", "save"}

\* words are the utterances it answers, state the turns in the loaded conversation state.
Turn == [step : Step, words : SUBSET Turns, aborted : BOOLEAN, timedOut : BOOLEAN,
         committed : BOOLEAN, round : 0 .. MaxToolRounds, state : SUBSET Turns]

\* The next utterance, the turn in flight, the reply being played (0: none), and the
\* words of a cancelled turn.
Session == [next : 1 .. MaxTurns + 1, inFlight : Turns \cup {0}, playing : Turns \cup {0},
            superseded : SUBSET Turns, phase : {"open", "ending", "closed"}]

Delivery == {"complete", "interrupted", "not_delivered"}

Row == [turn : Turns, speaker : {"caller"}] \cup
       [turn : Turns, speaker : {"agent"}, delivery : Delivery]

NoReply == [turn |-> 0, boundTo |-> 0]

TypeOK ==
    /\ turn \in [Turns -> Turn]
    /\ session \in Session
    /\ pending \in [turn : Turns, boundTo : Turns \cup {0}] \cup {NoReply}
    /\ transcript \in Seq(Row)
    /\ saved \subseteq Turns
    /\ acted \subseteq Turns \X Turns
    /\ abandoned \subseteq Turns
    /\ errors \in 0 .. MaxErrors

Init ==
    /\ turn = [n \in Turns |-> [step |-> "none", words |-> {}, aborted |-> FALSE,
                                timedOut |-> FALSE, committed |-> FALSE, round |-> 0,
                                state |-> {}]]
    /\ session = [next |-> 1, inFlight |-> 0, playing |-> 0, superseded |-> {},
                  phase |-> "open"]
    /\ pending = NoReply
    /\ transcript = <<>>
    /\ saved = {}
    /\ acted = {}
    /\ abandoned = {}
    /\ errors = 0

-------------------------------------------------------------------------------
(* DeferredAssistantStore.                                                  *)

CallerRow(n) == [turn |-> n, speaker |-> "caller"]

AgentRow(n, delivery) == [turn |-> n, speaker |-> "agent", delivery |-> delivery]

\* A failing insert leaves no row.
Error == errors < MaxErrors /\ errors' = errors + 1

Write(row) ==
    \/ transcript' = Append(transcript, row) /\ UNCHANGED errors
    \/ Error /\ UNCHANGED transcript

NoWrite == UNCHANGED <<transcript, errors>>

\* resolve(turnId): the report on another turn than the held one is ignored, and where
\* nothing plays (0) there is none.
Resolve(n, delivery) ==
    IF pending # NoReply /\ n # 0 /\ pending.boundTo = n
    THEN pending' = NoReply /\ Write(AgentRow(pending.turn, delivery))
    ELSE UNCHANGED pending /\ NoWrite

\* resolve(null): whatever is held was not heard.
ResolveAny ==
    IF pending # NoReply
    THEN pending' = NoReply /\ Write(AgentRow(pending.turn, "not_delivered"))
    ELSE UNCHANGED pending /\ NoWrite

-------------------------------------------------------------------------------
(* handleTurn and AgentRuntime.run.                                         *)

\* Mutant: the abort is honoured although an action has succeeded.
CancelledAnyway(t) == t.aborted

\* checkpoint: an abort counts while nothing has been committed.
Cancelled(t) == t.aborted /\ ~t.committed

\* Everything up to the next await, which is skipped by a cancelled turn.
Proceed(n, t, step) ==
    turn' = [turn EXCEPT ![n] = [t EXCEPT !.step = IF Cancelled(t) THEN "cancelled" ELSE step]]

Fails(n) == turn' = [turn EXCEPT ![n].step = "failed"]

\* Mutant: what is still held is left to the reply that replaces it.
BeginBlindly(n) ==
    /\ turn[n].step = "called"
    /\ Proceed(n, turn[n], "context")
    /\ UNCHANGED <<session, pending, transcript, saved, acted, abandoned, errors>>

\* A reply that the session never reported on is written before history is read.
Begin(n) ==
    /\ turn[n].step = "called"
    /\ ResolveAny
    /\ IF errors' > errors THEN Fails(n) ELSE Proceed(n, turn[n], "context")
    /\ UNCHANGED <<session, saved, acted, abandoned>>

\* Conversation state, history, knowledge.  A failed load of the state is survived with
\* an empty one, a failed load of the history is not.
LoadContext(n) ==
    /\ turn[n].step = "context"
    /\ \/ Proceed(n, [turn[n] EXCEPT !.state = saved], "actions") /\ UNCHANGED errors
       \/ Error /\ Proceed(n, turn[n], "actions")
       \/ Error /\ Fails(n)
    /\ UNCHANGED <<session, pending, transcript, saved, acted, abandoned>>

\* What an action did for the words of the turn.
Acts(n) == acted' = acted \cup (turn[n].words \X {n})

\* An action does something and says so, which commits the turn, or does it and says
\* nothing: contact_suppression returns null, and one whose answer is lost has failed.
Performs(n, t) ==
    \/ /\ Acts(n)
       /\ \E reported \in BOOLEAN :
              Proceed(n, [t EXCEPT !.committed = @ \/ reported], "model")
    \/ UNCHANGED acted /\ Proceed(n, t, "model")

\* SystemActionProvider.prepare, whose failure is survived.
SystemActions(n) ==
    /\ turn[n].step = "actions"
    /\ Performs(n, turn[n])
    /\ UNCHANGED <<session, pending, transcript, saved, abandoned, errors>>

\* invokeModel, and the repair of its reply.  A provider that fails is survived with the
\* fallback line; the call of an uncommitted turn is aborted with it.  The last round
\* offers no tools.
Model(n) ==
    /\ turn[n].step = "model"
    /\ \/ Proceed(n, turn[n], "persistence")
       \/ turn[n].round < MaxToolRounds /\ Proceed(n, turn[n], "tool")
    /\ UNCHANGED <<session, pending, transcript, saved, acted, abandoned, errors>>

\* The intents of a round are authorized and executed, or rejected.
ToolRound(n) ==
    /\ turn[n].step = "tool"
    /\ Performs(n, [turn[n] EXCEPT !.round = @ + 1])
    /\ UNCHANGED <<session, pending, transcript, saved, abandoned, errors>>

\* The last checkpoint, then appendMessages: the caller's row is written, the reply held.
\* An error ends the turn, but the reply stays held.
Persist(n) ==
    /\ turn[n].step = "persistence"
    /\ UNCHANGED <<session, saved, acted, abandoned>>
    /\ IF Cancelled(turn[n]) THEN Proceed(n, turn[n], "cancelled") /\ UNCHANGED pending /\ NoWrite
       ELSE /\ pending' = [turn |-> n, boundTo |-> 0]
            /\ Write(CallerRow(n))
            /\ IF errors' > errors THEN Fails(n)
               ELSE turn' = [turn EXCEPT ![n].step = "save"]

\* stateStore.save upserts the whole row, and an error is survived; handleTurn binds the
\* held reply to the turn and returns.
Save(n) ==
    /\ turn[n].step = "save"
    /\ \/ saved' = turn[n].state \cup {n} /\ UNCHANGED errors
       \/ Error /\ UNCHANGED saved
    /\ pending' = IF pending # NoReply /\ pending.boundTo = 0
                  THEN [pending EXCEPT !.boundTo = n] ELSE pending
    /\ turn' = [turn EXCEPT ![n].step = "returned"]
    /\ UNCHANGED <<session, transcript, acted, abandoned>>

-------------------------------------------------------------------------------
(* The media session: commitUtterance and runTurn, afterTurn, playback, end.  *)

\* The words of a cancelled turn come first.  A late transcript may be committed while a
\* reply is still playing.
Commit ==
    LET n == session.next IN
    /\ session.phase = "open"
    /\ session.inFlight = 0
    /\ n <= MaxTurns
    /\ session' = [session EXCEPT !.next = n + 1, !.inFlight = n, !.superseded = {}]
    /\ turn' = [turn EXCEPT ![n].step = "called", ![n].words = session.superseded \cup {n}]
    /\ UNCHANGED <<pending, transcript, saved, acted, abandoned, errors>>

\* Barge-in, or the time for the turn is up.
Abort ==
    LET n == session.inFlight IN
    /\ session.phase = "open"
    /\ n # 0
    /\ ~turn[n].aborted
    /\ \E timedOut \in BOOLEAN :
           turn' = [turn EXCEPT ![n].aborted = TRUE, ![n].timedOut = timedOut]
    /\ UNCHANGED <<session, pending, transcript, saved, acted, abandoned, errors>>

\* Of a turn without a result: the caller's next words extend its own.
Settled(n) ==
    [session EXCEPT !.inFlight = 0,
                    !.superseded = IF turn[n].timedOut \/ session.phase # "open"
                                   THEN @ ELSE turn[n].words]

\* A handler that ignores its abort must not wedge the session: TurnAbandonedError.
Abandon ==
    LET n == session.inFlight IN
    /\ n # 0
    /\ turn[n].aborted
    /\ turn[n].step \in Running
    /\ session' = Settled(n)
    /\ abandoned' = abandoned \cup {n}
    /\ UNCHANGED <<turn, pending, transcript, saved, acted, errors>>

TurnCancelled ==
    LET n == session.inFlight IN
    /\ n # 0
    /\ turn[n].step = "cancelled"
    /\ session' = Settled(n)
    /\ UNCHANGED <<turn, pending, transcript, saved, acted, abandoned, errors>>

TurnFails ==
    LET n == session.inFlight IN
    /\ n # 0
    /\ turn[n].step = "failed"
    /\ session' = [session EXCEPT !.inFlight = 0]
    /\ UNCHANGED <<turn, pending, transcript, saved, acted, abandoned, errors>>

\* A reply cuts the one that still plays.
Play ==
    LET n == session.inFlight IN
    /\ n # 0
    /\ turn[n].step = "returned"
    /\ ~turn[n].aborted
    /\ session.phase = "open"
    /\ Resolve(session.playing, "interrupted")
    /\ session' = [session EXCEPT !.inFlight = 0, !.playing = n]
    /\ UNCHANGED <<turn, saved, acted, abandoned>>

\* The result is not current: aborted, or the session has moved on.
NotSpoken ==
    LET n == session.inFlight IN
    /\ n # 0
    /\ turn[n].step = "returned"
    /\ Resolve(n, "not_delivered")
    /\ session' = [session EXCEPT !.inFlight = 0]
    /\ UNCHANGED <<turn, saved, acted, abandoned>>

\* settlePlayback, recordDelivery.
PlaybackSettles ==
    /\ session.playing # 0
    /\ \E delivery \in Delivery : Resolve(session.playing, delivery)
    /\ session' = [session EXCEPT !.playing = 0]
    /\ UNCHANGED <<turn, saved, acted, abandoned>>

\* The turn in flight is aborted and waited for, until it is given up.
End ==
    LET n == session.inFlight IN
    /\ session.phase = "open"
    /\ Resolve(session.playing, "interrupted")
    /\ session' = [session EXCEPT !.phase = "ending", !.playing = 0]
    /\ turn' = IF n = 0 THEN turn ELSE [turn EXCEPT ![n].aborted = TRUE]
    /\ UNCHANGED <<saved, acted, abandoned>>

\* turns.close(): what is still held was not heard.
Close ==
    /\ session.phase = "ending"
    /\ session.inFlight = 0
    /\ ResolveAny
    /\ session' = [session EXCEPT !.phase = "closed"]
    /\ UNCHANGED <<turn, saved, acted, abandoned>>

-------------------------------------------------------------------------------
Next ==
    \/ \E n \in Turns :
          \/ Begin(n) \/ LoadContext(n) \/ SystemActions(n) \/ Model(n)
          \/ ToolRound(n) \/ Persist(n) \/ Save(n)
    \/ Commit \/ Abort \/ Abandon \/ TurnCancelled \/ TurnFails \/ Play \/ NotSpoken
    \/ PlaybackSettles \/ End \/ Close

Spec == Init /\ [][Next]_vars

-------------------------------------------------------------------------------
(* Properties.                                                              *)

\* "A cancelled turn persists nothing: no transcript rows, no state" (cancellation.ts),
\* wherever the barge-in strikes, and its reply is not held.  No action had reported that it
\* was done: what was done without a report may be done again, with the words.
CancelledPersistsNothing ==
    \A n \in Turns : turn[n].step = "cancelled" =>
        /\ ~turn[n].committed
        /\ n \notin saved
        /\ pending.turn # n
        /\ \A i \in DOMAIN transcript : transcript[i].turn # n

\* Where the rows of turn n are.
RowsOf(n) == {i \in DOMAIN transcript : transcript[i].turn = n}

\* The caller's words and one delivery of the reply to them, in this order.
OnRecord(n) ==
    \E i, j \in DOMAIN transcript :
        /\ i < j
        /\ RowsOf(n) = {i, j}
        /\ transcript[i] = CallerRow(n)
        /\ transcript[j].speaker = "agent"

\* Deliveries are reported late, twice or never, and utterances are committed while a
\* reply plays: once the session is closed, what was said is on record with exactly one
\* delivery of its reply, the saved state has seen every turn, and the turns follow
\* each other, provided no turn was given up and no statement failed.
ConversationIsOnRecord ==
    session.phase = "closed" /\ abandoned = {} /\ errors = 0 =>
        LET answered == {n \in Turns : turn[n].step = "returned"} IN
        /\ saved = answered
        /\ \A n \in answered : OnRecord(n)
        /\ \A i, j \in DOMAIN transcript : i <= j => transcript[i].turn <= transcript[j].turn

\* "Once an action has succeeded the turn runs to completion ... and it is never re-run"
\* (docs/PIPECAT_INTEGRATION.md:208); "Nothing committed: the caller's next words extend
\* this utterance" (voice-session.ts:655).  A turn that is given up has no result, but an
\* action of it may have succeeded, and its words are answered again.
ActionsRunOnce ==
    \A n, m1, m2 \in Turns :
        <<n, m1>> \in acted /\ <<n, m2>> \in acted /\ m1 < m2 => ~turn[m1].committed
===============================================================================

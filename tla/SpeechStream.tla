----------------------------- MODULE SpeechStream -----------------------------
(***************************************************************************)
(* Safe streaming of one turn's reply (packages/runtime/speech-stream.ts and *)
(* the model loop of agent-runtime.ts): sentences reach the channel while    *)
(* the model still writes, held as long as a tool call may follow them.  The *)
(* repository binds no sink on the phone yet; tests do.                     *)
(*                                                                         *)
(* A sentence is a number.  The handlers of a round's end run without an    *)
(* await down to the next call.                                             *)
(***************************************************************************)
EXTENDS Integers, Sequences

CONSTANTS
    ToolRounds,    \* policy.maxToolRounds, 0 when no tool is offered
    MaxSentences,  \* of one model call
    MaxCalls       \* model calls of the turn

VARIABLES
    step,      \* "model", "tools", "repair", "done" or "cancelled"
    run,       \* the locals of AgentRuntime.run
    stream,    \* the SafeSpeechStream
    channel    \* what the channel was told

vars == <<step, run, stream, channel>>

\* live says whether the call in flight is streamed, draft is its text, preambles (history)
\* the sentences of calls that ended in tool calls.
Run == [round : 0 .. ToolRounds, calls : 0 .. MaxCalls, acted : BOOLEAN, aborted : BOOLEAN,
        retried : BOOLEAN, live : BOOLEAN, draft : Seq(Nat), reply : Seq(Nat), preambles : SUBSET Nat]

Stream == [held : Seq(Nat), released : Seq(Nat), revoked : BOOLEAN, capped : BOOLEAN]

\* The sentences the caller hears, and those that may be synthesized but not heard.
Channel == [heard : Seq(Nat), held : Seq(Nat)]

Sentence(call, i) == call * MaxSentences + i

\* The canned line that replaces a reply.
Fallback == <<0>>

Init ==
    /\ step = "model"
    /\ run = [round |-> 0, calls |-> 1, acted |-> FALSE, aborted |-> FALSE,
              retried |-> FALSE, live |-> TRUE, draft |-> <<>>, reply |-> <<>>, preambles |-> {}]
    /\ stream = [held |-> <<>>, released |-> <<>>, revoked |-> FALSE, capped |-> FALSE]
    /\ channel = [heard |-> <<>>, held |-> <<>>]

-------------------------------------------------------------------------------
(* SafeSpeechStream.                                                        *)

HasReleased == stream.released # <<>>

HasHeld == stream.held # <<>>

\* Mutant: only the first round is held.
RoundHeldFirst == run.round = 0 /\ ToolRounds > 0

\* beginRound: the round offers tools.
RoundHeld == run.round < ToolRounds

\* retract, and revoke: what is held will not be heard.
Retracted(s) == [s EXCEPT !.held = <<>>]

Revoked(s) == [Retracted(s) EXCEPT !.revoked = TRUE]

RetractFrom(c) == [c EXCEPT !.held = <<>>]

\* commit: the whole reply is valid.
Committed(s) == [s EXCEPT !.released = @ \o s.held, !.held = <<>>]

CommitTo(c) == [heard |-> c.heard \o c.held, held |-> <<>>]

-------------------------------------------------------------------------------
(* The model loop.                                                          *)

Finish(reply) == step' = "done" /\ run' = [run EXCEPT !.reply = reply]

\* The next call of the model.
Call(r) == [r EXCEPT !.calls = @ + 1, !.draft = <<>>, !.live = ~stream'.revoked]

Accepting == run.live /\ ~stream.revoked /\ ~stream.capped

\* onDelta, accept: the assembler has a sentence, which is valid, too long or invalid.
Delta(verdict) ==
    LET sentence == Sentence(run.calls, Len(run.draft) + 1) IN
    /\ step = "model"
    /\ Len(run.draft) < MaxSentences
    /\ run' = [run EXCEPT !.draft = Append(@, sentence)]
    /\ \/ /\ Accepting /\ verdict = "valid" /\ RoundHeld
          /\ stream' = [stream EXCEPT !.held = Append(@, sentence)]
          /\ channel' = [channel EXCEPT !.held = Append(@, sentence)]
       \/ /\ Accepting /\ verdict = "valid" /\ ~RoundHeld
          /\ stream' = [stream EXCEPT !.released = Append(@, sentence)]
          /\ channel' = [channel EXCEPT !.heard = Append(@, sentence)]
       \/ /\ Accepting /\ verdict = "too_long"
          /\ stream' = [stream EXCEPT !.capped = TRUE]
          /\ UNCHANGED channel
       \/ /\ Accepting /\ verdict = "invalid"
          /\ stream' = Revoked(stream)
          /\ channel' = RetractFrom(channel)
       \/ ~Accepting /\ UNCHANGED <<stream, channel>>
    /\ UNCHANGED step

\* The signal is passed to the calls of a turn that has not acted.
Listening == run.aborted /\ ~run.acted

\* The draft, which nobody has heard, is validated as a whole.
Judge(draft) ==
    \/ Finish(draft)
    \/ run.calls < MaxCalls /\ step' = "repair" /\ UNCHANGED run

\* The model has answered without a tool call.
RoundEnds ==
    /\ step = "model"
    /\ ~Listening
    /\ \/ /\ HasReleased
          /\ Finish(stream.released)
          /\ UNCHANGED <<stream, channel>>
       \/ /\ HasHeld
          /\ Finish(stream.held)
          /\ stream' = Committed(stream)
          /\ channel' = CommitTo(channel)
       \/ /\ HasHeld
          /\ run.calls < MaxCalls /\ step' = "repair" /\ UNCHANGED run
          /\ stream' = Revoked(stream)
          /\ channel' = RetractFrom(channel)
       \/ /\ ~HasReleased /\ ~HasHeld
          /\ Judge(run.draft)
          /\ stream' = Revoked(stream)
          /\ UNCHANGED channel

\* The model has called tools: what it said before was a preamble.
ToolCalls ==
    /\ step = "model"
    /\ ~Listening
    /\ run.round < ToolRounds
    /\ step' = "tools"
    /\ run' = [run EXCEPT !.preambles = @ \cup {run.draft[i] : i \in DOMAIN run.draft}]
    /\ IF RoundHeld THEN stream' = Retracted(stream) /\ channel' = RetractFrom(channel)
       ELSE UNCHANGED <<stream, channel>>

\* checkpoint before the next round.
ToolsRun ==
    /\ step = "tools"
    /\ UNCHANGED <<stream, channel>>
    /\ \E acted \in {run.acted, TRUE} :
           IF run.aborted /\ ~acted /\ ~HasReleased
           THEN step' = "cancelled" /\ UNCHANGED run
           ELSE /\ step' = "model"
                /\ run' = Call([run EXCEPT !.round = @ + 1, !.acted = acted])

\* Mutant: a barge-in cancels the turn whatever was heard of it.
CallCancelledAlways ==
    /\ step \in {"model", "repair"}
    /\ Listening
    /\ step' = "cancelled"
    /\ stream' = Revoked(stream)
    /\ channel' = RetractFrom(channel)
    /\ UNCHANGED run

\* The barge-in rejects the call: what was heard stands as the reply.
CallCancelled ==
    /\ step \in {"model", "repair"}
    /\ Listening
    /\ IF HasReleased THEN Finish(stream.released) ELSE step' = "cancelled" /\ UNCHANGED run
    /\ stream' = Revoked(stream)
    /\ channel' = RetractFrom(channel)

\* The stream dies: what was heard stands, else one call without streaming makes up for a
\* stream that had begun, and any other is an outage.
CallFails ==
    /\ step = "model"
    /\ ~Listening
    /\ stream' = IF run.live THEN Revoked(stream) ELSE stream
    /\ channel' = IF run.live THEN RetractFrom(channel) ELSE channel
    /\ \/ HasReleased /\ Finish(stream.released)
       \/ /\ ~HasReleased /\ run.live /\ ~run.retried
          /\ step' = "model"
          /\ run' = Call([run EXCEPT !.retried = TRUE])
       \/ /\ ~HasReleased /\ (run.live /\ run.draft # <<>> => run.retried)
          /\ Finish(Fallback)

\* The repaired reply is not streamed.
RepairEnds ==
    /\ step = "repair"
    /\ ~Listening
    /\ Finish(<<Sentence(run.calls + 1, 1)>>) \/ Finish(Fallback)
    /\ UNCHANGED <<stream, channel>>

Abort ==
    /\ step \in {"model", "tools", "repair"}
    /\ ~run.aborted
    /\ run' = [run EXCEPT !.aborted = TRUE]
    /\ UNCHANGED <<step, stream, channel>>

Next ==
    \/ \E verdict \in {"valid", "too_long", "invalid"} : Delta(verdict)
    \/ RoundEnds \/ ToolCalls \/ ToolsRun \/ CallCancelled \/ CallFails \/ RepairEnds
    \/ Abort

Spec == Init /\ [][Next]_vars

-------------------------------------------------------------------------------
\* "Once anything has been heard it is never retracted and never repeated": whatever
\* round fails, calls a tool or is barged into, a turn that ends has as its reply exactly
\* what was heard if anything was, a cancelled turn was not heard at all, no sentence
\* stays held at the channel, and the words before a tool call were never heard
\* (speech-stream.ts against the model loop).
HeardIsTheReply ==
    /\ step = "done" /\ channel.heard # <<>> => run.reply = channel.heard
    /\ step = "cancelled" => channel.heard = <<>>
    /\ step \in {"done", "cancelled"} => channel.held = <<>>
    /\ \A i \in DOMAIN channel.heard : channel.heard[i] \notin run.preambles
===============================================================================

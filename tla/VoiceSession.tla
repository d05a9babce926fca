----------------------------- MODULE VoiceSession -----------------------------
(***************************************************************************)
(* The in-process media engine (packages/voice/voice-session.ts): the turn   *)
(* taking, playback, barge-in, handoff and teardown of one phone call.       *)
(*                                                                         *)
(* Everything happens on one thread: a handler runs to its end, and others   *)
(* may run only where it awaits (a turn, a playback, the bridge, the         *)
(* teardown).  So a handler is an operator from session to session, which    *)
(* applies the operators of the methods it calls, and an action applies the  *)
(* handler of one event.  What the caller says arrives as finals of the      *)
(* recognizer, members of Utterances; of the audio there is only whether the *)
(* endpointer hears speech.  Timers fire in any order.                       *)
(***************************************************************************)
EXTENDS Integers, FiniteSets

CONSTANTS
    Utterances,        \* what the caller may say, numbered in the order of its arrival
    MaxReprompts,      \* silence.maxReprompts
    MaxFailures,       \* maxConsecutiveTurnFailures
    MaxSttReconnects

ASSUME VoiceAssumption ==
    /\ Utterances \subseteq Nat /\ IsFiniteSet(Utterances)
    /\ MaxReprompts \in Nat
    /\ MaxFailures \in Nat \ {0}
    /\ MaxSttReconnects \in Nat

VARIABLES
    session,   \* the fields of the VoiceSession, a record
    answered,  \* history: the utterances that a turn has answered
    refused,   \* history: those whose turn failed, which the caller was told
    dropped    \* history: those cut at the limit, or lost with a turn nobody spoke of

vars == <<session, answered, refused, dropped>>

\* A turn begins only with a final that no turn began with before.
Turns == 1 .. Cardinality(Utterances)

State == {"idle", "listening", "user_speaking", "thinking", "speaking",
          "transferring", "ending", "ended"}

Timer == {"silence", "finalWait", "finalGrace", "maxDuration"}

Directive == {"continue", "transfer", "end_call"}

NoTurn == [number |-> 0]

Turn == [number : Turns, words : SUBSET Utterances, aborted : BOOLEAN, timedOut : BOOLEAN]

Silence == [kind |-> "none"]

\* directive is obeyed when the line was heard, next says what awaits its end, however
\* it ends; turn is 0 for the deterministic policy lines.
Playback == [kind : {"reply", "policy"}, turn : Turns \cup {0}, directive : Directive,
             next : {"nothing", "bridge", "end"}, acked : BOOLEAN, synthesized : BOOLEAN]

\* "playing" is not a delivery yet.
Delivery == {"none", "playing", "complete", "interrupted", "not_delivered"}

Session == [state : State, inSpeech : BOOLEAN, seen : SUBSET Utterances,
            finals : SUBSET Utterances, superseded : SUBSET Utterances,
            turn : Turn \cup {NoTurn}, turnIndex : Turns \cup {0},
            playback : Playback \cup {Silence}, transcript : [Turns -> Delivery],
            timers : SUBSET Timer, reprompts : 0 .. MaxReprompts + 1,
            failures : 0 .. MaxFailures, reconnects : 0 .. MaxSttReconnects,
            bridging : BOOLEAN, tearingDown : BOOLEAN]

TypeOK ==
    /\ session \in Session
    /\ answered \subseteq Utterances
    /\ refused \subseteq Utterances
    /\ dropped \subseteq Utterances

Init ==
    /\ session = [state |-> "idle", inSpeech |-> FALSE, seen |-> {}, finals |-> {},
                  superseded |-> {}, turn |-> NoTurn, turnIndex |-> 0,
                  playback |-> Silence, transcript |-> [n \in Turns |-> "none"],
                  timers |-> {}, reprompts |-> 0, failures |-> 0, reconnects |-> 0,
                  bridging |-> FALSE, tearingDown |-> FALSE]
    /\ answered = {}
    /\ refused = {}
    /\ dropped = {}

-------------------------------------------------------------------------------
(* The methods the handlers call.                                           *)

Closing(s) == s.state \in {"ending", "ended"}

Open(s) == s.state # "idle" /\ ~Closing(s)

Playing(s) == s.playback # Silence

InFlight(s) == s.turn # NoTurn

Arm(s, timer) == [s EXCEPT !.timers = @ \cup {timer}]

Clear(s, timers) == [s EXCEPT !.timers = @ \ timers]

Abort(s) == IF InFlight(s) THEN [s EXCEPT !.turn.aborted = TRUE] ELSE s

\* The transcript row, and recordDelivery, of a reply.
Record(s, number, status) ==
    IF number = 0 THEN s ELSE [s EXCEPT !.transcript[number] = status]

\* Mutant: a playback can be settled a second time.
SettlePlaybackAgain(s, status) ==
    IF ~Playing(s) THEN s
    ELSE Record(s, s.playback.turn,
                IF status = "complete" THEN "complete"
                ELSE IF s.playback.acked THEN "interrupted" ELSE "not_delivered")

\* settlePlayback: what was not heard to the end was heard as far as it was acknowledged.
SettlePlayback(s, status) ==
    IF ~Playing(s) THEN s
    ELSE Record([s EXCEPT !.playback = Silence], s.playback.turn,
                IF status = "complete" THEN "complete"
                ELSE IF s.playback.acked THEN "interrupted" ELSE "not_delivered")

PolicyLine == [kind |-> "policy", turn |-> 0, directive |-> "continue",
               next |-> "nothing", acked |-> FALSE, synthesized |-> FALSE]

Reply(number, directive) ==
    [PolicyLine EXCEPT !.kind = "reply", !.turn = number, !.directive = directive]

\* Mutant: a policy line takes the session away from the handoff.
PlayAnyway(s, line) ==
    IF s.state = "ended" THEN s
    ELSE Record([SettlePlayback(s, "interrupted") EXCEPT
                    !.playback = line, !.timers = @ \ {"silence"},
                    !.state = IF @ = "ending" THEN @ ELSE "speaking"],
                line.turn, "playing")

\* A line that is still playing is cut by the next.
Play(s, line) ==
    IF s.state = "ended" THEN s
    ELSE Record([SettlePlayback(s, "interrupted") EXCEPT
                    !.playback = line, !.timers = @ \ {"silence"},
                    !.state = IF @ \in {"ending", "transferring"} THEN @ ELSE "speaking"],
                line.turn, "playing")

RunTurn(s, words) ==
    [s EXCEPT !.state = "thinking", !.turnIndex = @ + 1,
              !.turn = [number |-> s.turnIndex + 1, words |-> words,
                        aborted |-> FALSE, timedOut |-> FALSE]]

\* The finals are kept while a turn or a handoff owns the session.
CommitUtterance(s) ==
    IF Closing(s) \/ s.state = "transferring" \/ InFlight(s) THEN s
    ELSE RunTurn([Clear(s, {"finalWait", "finalGrace"}) EXCEPT
                      !.finals = {}, !.superseded = {}, !.reprompts = 0],
                 s.finals \cup s.superseded)

ResumeListening(s) ==
    IF s.state \notin {"listening", "user_speaking"} THEN s
    ELSE IF s.finals # {} /\ ~s.inSpeech THEN CommitUtterance(s)
    ELSE IF s.state = "listening" THEN Arm(s, "silence")
    ELSE s

\* end(), up to its first await.
End(s) ==
    IF s.tearingDown THEN s
    ELSE [SettlePlayback(Abort(s), "interrupted") EXCEPT
             !.state = "ending", !.timers = {}, !.tearingDown = TRUE]

\* speakPolicyThenEnd, without a line and with the goodbye.
JustEnd(s) == IF Closing(s) THEN s ELSE End(s)

\* Mutant: nobody ends the session after the goodbye.
GoodbyeOpen(s) ==
    IF Closing(s) THEN s
    ELSE Play([SettlePlayback(Abort(s), "interrupted") EXCEPT !.state = "ending"], PolicyLine)

Goodbye(s) ==
    IF Closing(s) THEN s
    ELSE Play([SettlePlayback(Abort(s), "interrupted") EXCEPT !.state = "ending"],
              [PolicyLine EXCEPT !.next = "end"])

Floor(s) == [s EXCEPT !.state = IF s.inSpeech THEN "user_speaking" ELSE "listening"]

\* Mutant: words held during the playback wait for more words.
AfterPlaybackDeaf(s, directive) ==
    IF Closing(s) \/ s.state = "transferring" THEN s
    ELSE IF directive = "end_call" THEN End(s)
    ELSE IF directive = "transfer"
    THEN Play([s EXCEPT !.state = "transferring"], [PolicyLine EXCEPT !.next = "bridge"])
    ELSE Floor(s)

\* After a line was heard.  A handoff claims the session and announces itself.
AfterPlayback(s, directive) ==
    IF Closing(s) \/ s.state = "transferring" THEN s
    ELSE IF directive = "end_call" THEN End(s)
    ELSE IF directive = "transfer"
    THEN Play([s EXCEPT !.state = "transferring"], [PolicyLine EXCEPT !.next = "bridge"])
    ELSE IF s.finals # {} /\ ~s.inSpeech /\ ~InFlight(s) THEN CommitUtterance(Floor(s))
    ELSE IF s.inSpeech THEN Floor(s)
    ELSE Arm(Floor(s), "silence")

\* The code that awaited the end of a playback.
Await(s, next) ==
    IF next = "bridge" /\ ~Closing(s) THEN [s EXCEPT !.bridging = TRUE]
    ELSE IF next = "end" THEN End(s)
    ELSE s

-------------------------------------------------------------------------------
(* Events.                                                                  *)

Step(t) == session' = t /\ UNCHANGED <<answered, refused, dropped>>

Start ==
    /\ session.state = "idle"
    /\ Step(Play(Arm(session, "maxDuration"), PolicyLine))

\* end() called by the gateway: a hangup, a lost socket, a shutdown.
EndSession ==
    /\ ~session.tearingDown
    /\ Step(End(session))

\* The endpointer hears speech.
SpeechStarts ==
    /\ Open(session)
    /\ ~session.inSpeech
    /\ Step([Clear(session, {"silence", "finalGrace"}) EXCEPT
                !.inSpeech = TRUE,
                !.state = IF @ = "listening" THEN "user_speaking" ELSE @])

\* Sustained speech, or a partial transcript, cuts a playback or aborts the turn.
BargeIn ==
    /\ session.inSpeech
    /\ \/ /\ session.state = "speaking"
          /\ Playing(session)
          /\ Step([SettlePlayback(session, "interrupted") EXCEPT
                      !.reprompts = 0, !.state = "user_speaking"])
       \/ /\ session.state = "thinking"
          /\ InFlight(session)
          /\ ~session.turn.aborted
          /\ Step([Abort(session) EXCEPT !.state = "user_speaking"])

OnSpeechEnd(s) ==
    IF s.state \notin {"user_speaking", "listening"} THEN s
    ELSE IF s.finals # {} THEN CommitUtterance(s)
    ELSE Arm(s, "finalWait")

\* The endpointer hears silence, or the recognizer says that the utterance is over.
SpeechEnds ==
    /\ Open(session)
    /\ session.inSpeech
    /\ Step(OnSpeechEnd([session EXCEPT !.inSpeech = FALSE]))

SttEndpoint ==
    /\ Open(session)
    /\ Step(OnSpeechEnd(session))

OnFinal(s) ==
    IF s.state \in {"thinking", "speaking", "transferring"} THEN s
    ELSE IF "finalWait" \in s.timers THEN CommitUtterance(Clear(s, {"finalWait"}))
    ELSE IF ~s.inSpeech THEN Arm(s, "finalGrace")
    ELSE s

\* A final transcript; duplicates are dropped.
Final(u) ==
    /\ Open(session)
    /\ \A v \in session.seen : v < u
    /\ Step(OnFinal([session EXCEPT !.seen = @ \cup {u}, !.finals = @ \cup {u}]))

\* The recognizer's stream fails or closes; it is opened again MaxSttReconnects times.
SttFails ==
    /\ Open(session)
    /\ \/ /\ session.reconnects < MaxSttReconnects
          /\ Step([session EXCEPT !.reconnects = @ + 1])
       \/ Step(Goodbye(session))

Fires(timer, t) ==
    /\ timer \in session.timers
    /\ Step(t)

FinalWaitFires ==
    LET s == Clear(session, {"finalWait"}) IN
    Fires("finalWait", IF s.finals # {} THEN CommitUtterance(s)
                       ELSE IF s.state = "user_speaking"
                       THEN Arm([s EXCEPT !.state = "listening"], "silence")
                       ELSE s)

FinalGraceFires ==
    LET s == Clear(session, {"finalGrace"}) IN
    Fires("finalGrace", IF ~s.inSpeech /\ s.finals # {} THEN CommitUtterance(s) ELSE s)

SilenceFires ==
    LET s == Clear(session, {"silence"})
        t == [s EXCEPT !.reprompts = @ + 1] IN
    Fires("silence", IF s.state # "listening" THEN s
                     ELSE IF t.reprompts > MaxReprompts THEN Goodbye(t)
                     ELSE Play(t, PolicyLine))

MaxDurationFires == Fires("maxDuration", Goodbye(Clear(session, {"maxDuration"})))

\* onTransferRequested resolves; it says whether the carrier accepted the bridge.
BridgeAnswers(ok) ==
    LET s == [session EXCEPT !.bridging = FALSE] IN
    /\ session.bridging
    /\ Step(IF ok THEN End(s)
            ELSE IF Closing(s) THEN s
            ELSE Play([s EXCEPT !.state = "listening"], PolicyLine))

\* The rest of end(), once the turn in flight settled: onEnded.
Ended ==
    /\ session.state = "ending"
    /\ session.tearingDown
    /\ ~InFlight(session)
    /\ Step([session EXCEPT !.state = "ended"])

-------------------------------------------------------------------------------
(* The turn.                                                                *)

TurnTimesOut ==
    /\ InFlight(session)
    /\ ~session.turn.timedOut
    /\ Step([session EXCEPT !.turn.timedOut = TRUE, !.turn.aborted = TRUE])

SettleTurn(s) == [s EXCEPT !.turn = NoTurn]

\* The end of afterTurn for a turn that failed or timed out.
AfterFailure(s) ==
    LET t == [s EXCEPT !.failures = @ + 1] IN
    IF Closing(t) THEN t
    ELSE IF t.failures >= MaxFailures THEN Goodbye(t)
    ELSE IF t.state = "thinking" THEN Play(t, PolicyLine)
    ELSE ResumeListening(t)

\* A line follows: the apology, or the goodbye after too many failures.
Apologises(s) == ~Closing(s) /\ (s.failures + 1 >= MaxFailures \/ s.state = "thinking")

\* What the handler was given of the words of its turn: commitUtterance cuts their end at
\* maxUtteranceChars.  How much fits is left open, as the lengths of the words are.
Texts(words) == {{w \in words : w <= last} : last \in words}

\* The handler returns a reply: its actions are committed.  The reply is played if
\* nobody interrupted the turn.
TurnAnswers(directive) ==
    LET turn == session.turn
        s == SettleTurn(session)
        unheard == Record(s, turn.number, "not_delivered") IN
    /\ InFlight(session)
    /\ session' = IF ~turn.aborted /\ s.state = "thinking"
                  THEN Play([s EXCEPT !.failures = 0], Reply(turn.number, directive))
                  ELSE IF turn.aborted /\ ~turn.timedOut THEN ResumeListening(unheard)
                  ELSE AfterFailure(unheard)
    /\ \E text \in Texts(turn.words) :
          /\ answered' = answered \cup text
          /\ dropped' = dropped \cup (turn.words \ text)
    /\ UNCHANGED refused

\* The handler fails.
TurnFails ==
    LET s == SettleTurn(session)
        words == session.turn.words IN
    /\ InFlight(session)
    /\ session' = AfterFailure(s)
    /\ \E text \in Texts(words) :
          LET told == IF Apologises(s) THEN text ELSE {} IN
          /\ refused' = refused \cup told
          /\ dropped' = dropped \cup (words \ told)
    /\ UNCHANGED answered

\* Mutant: the words of an aborted turn are not kept for the next one.
CancelForgetting ==
    LET s == SettleTurn(session) IN
    /\ InFlight(session)
    /\ session.turn.aborted
    /\ IF session.turn.timedOut THEN TurnFails
       ELSE session' = ResumeListening(s) /\ UNCHANGED <<answered, refused, dropped>>

\* The handler gives up its aborted turn before anything is committed, or does not
\* settle within ABANDON_GRACE_MS.  Unless the turn timed out, or the session is closing,
\* its words begin the next.
TurnIsCancelled ==
    LET s == SettleTurn(session)
        words == session.turn.words IN
    /\ InFlight(session)
    /\ session.turn.aborted
    /\ \/ session.turn.timedOut /\ TurnFails
       \/ /\ ~session.turn.timedOut
          /\ \E text \in Texts(words) :
                LET kept == IF Closing(s) THEN {} ELSE text IN
                /\ session' = IF Closing(s) THEN s
                              ELSE ResumeListening([s EXCEPT !.superseded = kept])
                /\ dropped' = dropped \cup (words \ kept)
          /\ UNCHANGED <<answered, refused>>

-------------------------------------------------------------------------------
(* The playback.                                                            *)

\* The first chunk was heard: a mark, or the clock.
ChunkPlays ==
    /\ Playing(session)
    /\ ~session.playback.acked
    /\ Step([session EXCEPT !.playback.acked = TRUE])

SynthesisEnds ==
    /\ Playing(session)
    /\ ~session.playback.synthesized
    /\ Step([session EXCEPT !.playback.synthesized = TRUE])

\* The last mark, or the playback watchdog.
PlaybackFinishes ==
    LET line == session.playback IN
    /\ Playing(session)
    /\ line.synthesized
    /\ Step(Await(AfterPlayback(SettlePlayback(session, "complete"), line.directive),
                  line.next))

SynthesisFails ==
    LET line == session.playback IN
    /\ Playing(session)
    /\ ~line.synthesized
    /\ Step(Await(JustEnd(SettlePlayback(session, "not_delivered")), line.next))

-------------------------------------------------------------------------------
Timers == FinalWaitFires \/ FinalGraceFires \/ SilenceFires \/ MaxDurationFires

Caller ==
    \/ SpeechStarts \/ SpeechEnds \/ BargeIn \/ SttEndpoint
    \/ \E u \in Utterances : Final(u)

Turning ==
    \/ TurnTimesOut \/ TurnIsCancelled \/ TurnFails
    \/ \E directive \in Directive : TurnAnswers(directive)

Speaking == ChunkPlays \/ SynthesisEnds \/ PlaybackFinishes \/ SynthesisFails

Next ==
    \/ Start \/ Timers \/ Caller \/ Turning \/ Speaking
    \/ SttFails \/ EndSession \/ Ended
    \/ \E ok \in BOOLEAN : BridgeAnswers(ok)

Spec == Init /\ [][Next]_vars

\* Timers fire, the watchdog of a line that was synthesized among them, an aborted turn
\* settles within ABANDON_GRACE_MS, and closing the providers is awaited inside a try.
\* The caller, the runtime, the carrier and the synthesizer owe nothing.
Fairness ==
    /\ WF_vars(MaxDurationFires)
    /\ WF_vars(PlaybackFinishes)
    /\ WF_vars(TurnIsCancelled)
    /\ WF_vars(Ended)

FairSpec == Spec /\ Fairness

-------------------------------------------------------------------------------
(* Properties.                                                              *)

\* Whatever the caller said is in exactly one place: held for the next turn, carried
\* over from a cancelled one, with the turn in flight, answered (though the answer may go
\* unheard), refused by a line that followed the failed turn, or dropped: cut at the limit
\* of an utterance, or lost with a failed turn of which nothing was said, because the
\* caller had spoken on or the call was closing.  The races are those of commitUtterance,
\* afterTurn and afterPlayback with the timers and with barge-in.
EveryWordAccounted ==
    LET asked == IF InFlight(session) THEN session.turn.words ELSE {}
        places == <<session.finals, session.superseded, asked, answered, refused, dropped>> IN
    /\ session.seen = UNION {places[i] : i \in 1 .. 6}
    /\ \A i, j \in 1 .. 6 : i # j => places[i] \cap places[j] = {}

\* While the call is open something is always under way that will have the caller
\* heard or spoken to: the caller speaks, a line plays, a turn or a bridge is awaited,
\* or a timer short of the call's ceiling is running.
NeverDeadAir ==
    Open(session) =>
        \/ session.inSpeech
        \/ Playing(session)
        \/ InFlight(session)
        \/ session.bridging
        \/ session.timers \ {"maxDuration"} # {}

\* Exactly once per completed turn (recordDelivery, settlePlayback): a delivery stands,
\* and an ended session leaves no reply of a turn without one.
DeliveryIsFinal ==
    [][/\ \A n \in Turns :
              session.transcript[n] \in {"complete", "interrupted", "not_delivered"}
              => session'.transcript[n] = session.transcript[n]
       /\ session'.state = "ended"
              => \A n \in Turns : session'.transcript[n] # "playing"]_vars

\* A session that was started, or told to end, closes, whatever the synthesizer does
\* (maxCallDurationMs, end()).  It ends too, unless the synthesizer leaves a line open for
\* ever: after the first audio nothing bounds the wait for the rest
\* (sarvam-tts-provider.ts:203), and the end waits for the goodbye.
SessionEnds ==
    /\ session.state # "idle" ~> Closing(session)
    /\ []<>(Playing(session) => session.playback.synthesized)
       => (session.state # "idle" ~> session.state = "ended")

\* What the gateway sees of a session's state.
Phase(s) ==
    CASE s.state = "idle" -> "idle"
      [] s.state = "ending" -> "closing"
      [] s.state = "ended" -> "over"
      [] Open(s) /\ (s.state = "transferring" \/ s.bridging) -> "handoff"
      [] Open(s) /\ s.state # "transferring" /\ ~s.bridging -> "live"

\* The interface of the gateway, VoiceMediaSession.
Interface == INSTANCE MediaSession WITH
    Exclusive <- TRUE,
    phase <- Phase(session),
    turn <- session.turnIndex,
    busy <- InFlight(session)

\* Turns are serialized, none begins or is in flight during a handoff or begins while
\* the session closes, and the session ends once, with no turn in flight.
ImplementsInterface == Interface!Spec
===============================================================================

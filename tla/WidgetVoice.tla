------------------------------ MODULE WidgetVoice ------------------------------
(***************************************************************************)
(* The voice of the website's widget (widget/src/): the mic button, the      *)
(* turn-by-turn loop of VoiceSession over a SpeechProvider, the messages it   *)
(* shares with the keyboard, and the live call that is preferred to it where *)
(* one is deployed.                                                         *)
(*                                                                         *)
(* Everything runs on the page's event loop: an action is a callback, a      *)
(* settled promise or a tap, with all it calls before the next await.        *)
(***************************************************************************)
EXTENDS Integers

CONSTANTS
    Providers,    \* of "halo", the one the widget binds, and "browser", the Web Speech one
    MaxSilent,    \* maxSilentAttempts
    MaxRetries,   \* maxErrorRetries
    MaxMessages   \* messages the visitor sends, by voice or keyboard

VARIABLES
    voice,    \* the VoiceSession with its provider
    widget,   \* the panel, the conversation and what was learned of live voice
    sends,    \* the messages in flight
    call      \* the LiveCall, whose audio is left to the worker's module

vars == <<voice, widget, sends, call>>

\* engine is the recognition of the current listen: "on" while it captures, "thinking"
\* while its audio is transcribed, "done" when it gave its result.  stale and tail are the
\* callbacks of a stopped recognition and of a cancelled utterance that are still to come.
\* asking is the permission prompt.  over (history) says that the reply being played found
\* the session listening again.
Voice ==
    [provider : Providers, state : {"idle", "listening", "processing", "speaking"},
     gotFinal : BOOLEAN, silent : 0 .. MaxSilent, errors : 0 .. MaxRetries + 1,
     watchdog : BOOLEAN, retry : BOOLEAN, asking : BOOLEAN,
     engine : {"off", "on", "thinking", "done"}, stale : BOOLEAN,
     playback : {"off", "fetching", "playing"}, tail : BOOLEAN, over : BOOLEAN]

\* late (history) says that the panel was closed while an offer of live voice was awaited.
Widget ==
    [open : BOOLEAN, sending : BOOLEAN, token : BOOLEAN, liveUnavailable : BOOLEAN,
     messages : 0 .. MaxMessages, late : BOOLEAN]

Send == [id : 1 .. MaxMessages, channel : {"chat", "voice"}, phase : {"start", "ask"},
         retried : BOOLEAN]

\* phase is the await start() is at, or the socket's state; stream says whether the
\* microphone's tracks run.
Call == [phase : {"none", "offer", "mic", "resume", "socket", "live"}, ended : BOOLEAN,
         stream : BOOLEAN]

NoCall == [phase |-> "none", ended |-> FALSE, stream |-> FALSE]

Init ==
    /\ voice \in [provider : Providers, state : {"idle"}, gotFinal : {FALSE}, silent : {0},
                  errors : {0}, watchdog : {FALSE}, retry : {FALSE}, asking : {FALSE},
                  engine : {"off"}, stale : {FALSE}, playback : {"off"}, tail : {FALSE},
                  over : {FALSE}]
    \* A token may be left of an earlier page, and live voice be unsupported.
    /\ widget \in [open : {FALSE}, sending : {FALSE}, token : BOOLEAN,
                   liveUnavailable : BOOLEAN, messages : {0}, late : {FALSE}]
    /\ sends = {}
    /\ call = NoCall

-------------------------------------------------------------------------------
(* VoiceSession, as functions of its record.                                *)

LateCallbacks(v) == v.provider = "browser"

Teardown(v) ==
    [v EXCEPT !.watchdog = FALSE, !.retry = FALSE, !.asking = FALSE, !.engine = "off",
              !.stale = @ \/ (LateCallbacks(v) /\ v.engine # "off")]

CancelSpeech(v) ==
    [v EXCEPT !.playback = "off", !.tail = @ \/ (LateCallbacks(v) /\ v.playback # "off")]

Listen(v) ==
    [Teardown(v) EXCEPT !.state = "listening", !.gotFinal = FALSE, !.watchdog = TRUE,
                        !.engine = "on"]

Stop(v) == [CancelSpeech(Teardown(v)) EXCEPT !.state = "idle"]

\* Only the browser's provider asks for the permission first.
Start(v) ==
    LET fresh == [v EXCEPT !.silent = 0, !.errors = 0] IN
    IF v.provider = "browser"
    THEN [fresh EXCEPT !.state = "listening", !.asking = TRUE]
    ELSE Listen(fresh)

Interrupt(v) == Listen([CancelSpeech(v) EXCEPT !.silent = 0])

HandleTap(v) ==
    CASE v.state = "idle" -> Start(v)
      [] v.state = "speaking" -> Interrupt(v)
      [] v.state \in {"listening", "processing"} -> Stop(v)

HandleSilence(v) ==
    LET again == [v EXCEPT !.silent = @ + 1] IN
    CASE v.gotFinal -> v
      [] ~v.gotFinal /\ again.silent < MaxSilent -> Listen(again)
      [] ~v.gotFinal /\ again.silent >= MaxSilent -> [Teardown(again) EXCEPT !.state = "idle"]

\* setTimeout(listen, errorRetryDelayMs).
RetryLater(v) == [Teardown(v) EXCEPT !.retry = TRUE]

HandleError(v, error) ==
    LET again == [v EXCEPT !.errors = @ + 1] IN
    CASE error = "fatal" -> Stop(v)
      [] error = "no_speech" -> HandleSilence(v)
      [] error = "transient" /\ again.errors > MaxRetries -> Stop(again)
      [] error = "transient" /\ again.errors <= MaxRetries ->
            IF v.state = "listening" THEN RetryLater(again) ELSE again

\* The provider of the widget fetches the reply's audio first.
SpeakReply(v) ==
    IF v.state = "idle" THEN v
    ELSE [CancelSpeech(v) EXCEPT
            !.state = "speaking",
            !.playback = IF v.provider = "halo" THEN "fetching" ELSE "playing",
            !.over = v.state = "listening" \/ (v.state = "speaking" /\ v.over)]

\* Mutant: the end of a cancelled utterance resumes the loop.
ResumeAnyway(v, newest) == v.state = "speaking"

\* The end of an utterance resumes the loop if nothing happened meanwhile.
Resumes(v, newest) == newest /\ v.state = "speaking"

SpeechEnded(v, newest) == IF Resumes(v, newest) THEN Listen([v EXCEPT !.silent = 0]) ELSE v

\* generation === this.listenGeneration.
Drives(current) == current

OnEnd(v, current) ==
    LET quiet == [v EXCEPT !.watchdog = FALSE] IN
    CASE ~Drives(current) -> v
      [] Drives(current) /\ v.state = "listening" -> HandleSilence(quiet)
      [] Drives(current) /\ v.state # "listening" -> quiet

OnError(v, current, error) ==
    IF Drives(current) THEN HandleError([v EXCEPT !.watchdog = FALSE], error) ELSE v

-------------------------------------------------------------------------------
(* The callbacks of recognition, playback and timers.                       *)

Browser == voice.provider = "browser"

\* send(): its first await is that of the conversation or of the reply.
BeginSend(channel) ==
    /\ widget.messages < MaxMessages
    /\ widget' = [widget EXCEPT !.sending = TRUE, !.messages = @ + 1]
    /\ sends' = sends \cup {[id |-> widget.messages + 1, channel |-> channel, retried |-> FALSE,
                             phase |-> IF widget.token THEN "ask" ELSE "start"]}

\* The provider of the widget transcribes what it captured.
Transcribes ==
    /\ ~Browser
    /\ voice.engine = "on"
    /\ voice' = [voice EXCEPT !.engine = "thinking"]
    /\ UNCHANGED <<widget, sends, call>>

\* A final transcript, of an engine that stops capturing; the browser's ends later.
Hears ==
    /\ voice.engine = IF Browser THEN "on" ELSE "thinking"
    /\ LET heard == [voice EXCEPT !.engine = IF Browser THEN "done" ELSE "off"] IN
       \/ /\ voice.state = "listening"
          /\ voice' = [heard EXCEPT !.gotFinal = TRUE, !.silent = 0, !.errors = 0,
                                    !.watchdog = FALSE, !.state = "processing"]
          /\ BeginSend("voice")
       \/ /\ voice.state # "listening"
          /\ voice' = heard
          /\ UNCHANGED <<widget, sends>>
    /\ UNCHANGED call

\* It ends on silence, on an empty transcript, or after its result.
EngineEnds ==
    /\ voice.engine # "off"
    /\ voice' = OnEnd([voice EXCEPT !.engine = "off"], TRUE)
    /\ UNCHANGED <<widget, sends, call>>

\* Every failure of the widget's own provider is fatal; the browser's may follow a result.
EngineFails ==
    /\ voice.engine # "off"
    /\ \E error \in IF Browser THEN {"fatal", "no_speech", "transient"} ELSE {"fatal"} :
          voice' = OnError([voice EXCEPT !.engine = IF Browser THEN "done" ELSE "off"],
                           TRUE, error)
    /\ UNCHANGED <<widget, sends, call>>

\* "A torn-down recognition's onEnd/onError can arrive after a new listen started."
StaleCallback ==
    /\ voice.stale
    /\ LET v == [voice EXCEPT !.stale = FALSE] IN
       voice' \in {OnEnd(v, FALSE), OnError(v, FALSE, "transient")}
    /\ UNCHANGED <<widget, sends, call>>

WatchdogFires ==
    /\ voice.watchdog
    /\ voice' = HandleSilence(Teardown(voice))
    /\ UNCHANGED <<widget, sends, call>>

RetryFires ==
    /\ voice.retry
    /\ LET due == [voice EXCEPT !.retry = FALSE] IN
       voice' = IF voice.state = "listening" THEN Listen(due) ELSE due
    /\ UNCHANGED <<widget, sends, call>>

\* requestMicAccess answers.
PromptAnswered ==
    /\ voice.asking
    /\ LET answered == [voice EXCEPT !.asking = FALSE] IN
       \/ voice.state = "listening" /\ voice' \in {Listen(answered), Stop(answered)}
       \/ voice.state # "listening" /\ voice' = answered
    /\ UNCHANGED <<widget, sends, call>>

\* The audio of the reply arrives, and plays, or cannot be played.
Synthesized ==
    /\ voice.playback = "fetching"
    /\ voice' \in {[voice EXCEPT !.playback = "playing"], Stop(voice)}
    /\ UNCHANGED <<widget, sends, call>>

PlaybackEnds ==
    /\ voice.playback = "playing"
    /\ voice' = SpeechEnded([voice EXCEPT !.playback = "off"], TRUE)
    /\ UNCHANGED <<widget, sends, call>>

\* "A cancelled utterance still ends asynchronously."
CancelledSpeechEnds ==
    /\ voice.tail
    /\ voice' = SpeechEnded([voice EXCEPT !.tail = FALSE], FALSE)
    /\ UNCHANGED <<widget, sends, call>>

-------------------------------------------------------------------------------
(* The messages.                                                            *)

\* startConversation answers.
ConversationStarts(s) ==
    /\ s.phase = "start"
    /\ widget' = [widget EXCEPT !.token = TRUE]
    /\ sends' = (sends \ {s}) \cup {[s EXCEPT !.phase = "ask"]}
    /\ UNCHANGED <<voice, call>>

\* The reply is spoken whenever the session is active.
ReplyArrives(s) ==
    /\ s.phase = "ask"
    /\ sends' = sends \ {s}
    /\ widget' = [widget EXCEPT !.sending = FALSE]
    /\ voice' = SpeakReply(voice)
    /\ UNCHANGED call

\* "A stored token can go stale: start fresh once."
StartsFresh(s) ==
    /\ ~s.retried
    /\ widget' = [widget EXCEPT !.token = FALSE]
    /\ sends' = (sends \ {s}) \cup {[s EXCEPT !.phase = "start", !.retried = TRUE]}
    /\ UNCHANGED <<voice, call>>

\* Mutant: the session is left waiting for the reply.
FailsSilently(v) == v

\* "Only persisted HALO replies are eligible for synthesis."
StopsOnFailure(v) == Stop(v)

SendFails(s) ==
    /\ sends' = sends \ {s}
    /\ widget' = [widget EXCEPT !.sending = FALSE]
    /\ voice' = StopsOnFailure(voice)
    /\ UNCHANGED call

-------------------------------------------------------------------------------
(* LiveCall.                                                                *)

CallStarting == call.phase = "offer" \/ (call.phase \in {"mic", "resume"})

CallUp == call.phase \in {"mic", "resume", "socket", "live"} /\ ~call.ended

\* stop(), and finish(): what start() still awaits is given up when it settles.
HangUp(c) ==
    CASE c.phase \in {"none", "offer"} -> c
      [] c.phase \in {"mic", "resume"} -> [c EXCEPT !.ended = TRUE, !.stream = FALSE]
      [] c.phase \in {"socket", "live"} -> NoCall

\* The offer arrives, in a format the widget can play or not.
OfferArrives ==
    /\ call.phase = "offer"
    /\ call' \in {[call EXCEPT !.phase = "mic"], NoCall}
    /\ UNCHANGED <<voice, widget, sends>>

\* "Where the deployment offers none, the turn-by-turn path runs."
OfferFails ==
    /\ call.phase = "offer"
    /\ call' = NoCall
    /\ widget' = [widget EXCEPT !.liveUnavailable = TRUE]
    /\ voice' = HandleTap(voice)
    /\ UNCHANGED sends

\* Mutant: start() does not look whether the call was hung up meanwhile.
GoesOn(c) == TRUE

\* if (this.ended) return this.release().
StillWanted(c) == ~c.ended

Granted ==
    /\ call.phase = "mic"
    /\ call' = IF StillWanted(call) THEN [call EXCEPT !.phase = "resume", !.stream = TRUE]
               ELSE NoCall
    /\ UNCHANGED <<voice, widget, sends>>

Resumed ==
    /\ call.phase = "resume"
    /\ call' = IF StillWanted(call) THEN [call EXCEPT !.phase = "socket"] ELSE NoCall
    /\ UNCHANGED <<voice, widget, sends>>

SocketOpens ==
    /\ call.phase = "socket"
    /\ call' = [call EXCEPT !.phase = "live"]
    /\ UNCHANGED <<voice, widget, sends>>

\* fail() of any stage, and the socket's close.
CallFails ==
    /\ call.phase \in {"mic", "resume", "socket", "live"}
    /\ call' = NoCall
    /\ UNCHANGED <<voice, widget, sends>>

-------------------------------------------------------------------------------
(* The visitor.                                                             *)

\* handleMicTap: a live call is preferred to the session, which is not interrupted by one.
MicTap ==
    /\ widget.open
    /\ \/ /\ CallUp
          /\ call' = HangUp(call)
          /\ UNCHANGED voice
       \/ /\ ~CallStarting /\ ~CallUp
          /\ voice.state # "idle" \/ widget.liveUnavailable
          /\ voice' = HandleTap(voice)
          /\ UNCHANGED call
       \/ /\ ~CallStarting /\ ~CallUp
          /\ voice.state = "idle" /\ ~widget.liveUnavailable
          /\ call' = [NoCall EXCEPT !.phase = "offer"]
          /\ UNCHANGED voice
    /\ UNCHANGED <<widget, sends>>

\* sendTyped: "reaching for the keyboard is an implicit switch back to chat".
Type ==
    /\ widget.open
    /\ ~widget.sending
    /\ voice' = Stop(voice)
    /\ call' = HangUp(call)
    /\ BeginSend("chat")

\* togglePanel.
OpenPanel ==
    /\ ~widget.open
    /\ widget' = [widget EXCEPT !.open = TRUE]
    /\ UNCHANGED <<voice, sends, call>>

ClosePanel ==
    /\ widget.open
    /\ widget' = [widget EXCEPT !.open = FALSE, !.late = call.phase = "offer"]
    /\ voice' = Stop(voice)
    /\ call' = HangUp(call)
    /\ UNCHANGED sends

Next ==
    \/ Transcribes \/ Hears \/ EngineEnds \/ EngineFails \/ StaleCallback
    \/ WatchdogFires \/ RetryFires \/ PromptAnswered
    \/ Synthesized \/ PlaybackEnds \/ CancelledSpeechEnds
    \/ \E s \in sends : ConversationStarts(s) \/ ReplyArrives(s) \/ StartsFresh(s) \/ SendFails(s)
    \/ OfferArrives \/ OfferFails \/ Granted \/ Resumed \/ SocketOpens \/ CallFails
    \/ MicTap \/ Type \/ OpenPanel \/ ClosePanel

Spec == Init /\ [][Next]_vars

-------------------------------------------------------------------------------

\* The hands-free loop has no dead end: a session that listens has a timer or a prompt to
\* end the listen, one that processes has a message in flight, and one that speaks has a
\* reply being fetched or played (widget.ts, voice-session.ts).
NoDeadEnd ==
    /\ voice.state = "listening" => voice.watchdog \/ voice.retry \/ voice.asking
    /\ voice.state = "processing" => \E s \in sends : s.channel = "voice"
    /\ voice.state = "speaking" => voice.playback # "off"

\* A reply for which the session waited is not heard by its own microphone.  SpeakReply
\* does not stop a recognition: a reply that finds the session listening again, because the
\* visitor tapped the button meanwhile, is (voice-session.ts, speakReply; over).
AwaitedReplyIsNotHeard == voice.engine = "on" /\ voice.playback = "playing" => voice.over

\* The turn-by-turn session and the live call, which is preferred to it, never have the
\* microphone both, whatever is still awaited when the button is tapped (handleMicTap).
OneMicrophone == ~(voice.engine = "on" /\ call.stream)

\* A call that was hung up while it was set up keeps no microphone (live-call.ts).  Closing
\* the panel releases both, and they stay released, unless it was closed while the offer
\* of live voice was awaited: what the offer starts then nobody stops (widget.ts:253; late).
MicIsReleased ==
    /\ call.ended => ~call.stream
    /\ ~widget.open /\ ~widget.late => voice.engine # "on" /\ ~call.stream
===============================================================================

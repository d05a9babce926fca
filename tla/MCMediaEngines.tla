---------------------------- MODULE MCMediaEngines ----------------------------
(***************************************************************************)
(* The media of one call: either of the two engines behind the seam          *)
(* VoiceMediaSession, as the conformance suite of the repository runs them,  *)
(* the worker process that plays the lines of the second, or the voice of    *)
(* the website's widget, which has a session of its own.                     *)
(***************************************************************************)
EXTENDS VoiceSession

CONSTANTS MaxLines, Chunks, Uninterruptible, Providers, MaxSilent, MaxRetries, MaxMessages

ASSUME WidgetAssumption ==
    /\ Providers \subseteq {"halo", "browser"}
    /\ MaxSilent \in Nat
    /\ MaxRetries \in Nat

VARIABLES
    engine,          \* which one is looked at
    remote,          \* the session, and the histories, of the Pipecat engine
    remoteAnswered,
    remoteRefused,
    remoteDropped,
    worker, peers,   \* the worker of the Pipecat engine
    voice, widget, sends, call

Remote == INSTANCE RemoteSession WITH
    session <- remote, answered <- remoteAnswered, refused <- remoteRefused,
    dropped <- remoteDropped

Gate == INSTANCE MediaGate

remoteVars == <<remote, remoteAnswered, remoteRefused, remoteDropped>>

gateVars == <<worker, peers>>

Page == INSTANCE WidgetVoice

pageVars == <<voice, widget, sends, call>>

\* One of the first states of the page, for the runs that do not look at it.
PageAtRest == voice.provider = "halo" /\ ~widget.token /\ ~widget.liveUnavailable

MCInit ==
    /\ engine \in {"in_process", "pipecat", "worker", "widget"}
    /\ Init
    /\ Remote!Init
    /\ Gate!Init
    /\ Page!Init
    /\ engine # "widget" => PageAtRest

InProcess ==
    engine = "in_process" /\ Next /\ UNCHANGED <<engine, remoteVars, gateVars, pageVars>>

Pipecat == engine = "pipecat" /\ Remote!Next /\ UNCHANGED <<engine, vars, gateVars, pageVars>>

Worker == engine = "worker" /\ Gate!Next /\ UNCHANGED <<engine, vars, remoteVars, pageVars>>

Website == engine = "widget" /\ Page!Next /\ UNCHANGED <<engine, vars, remoteVars, gateVars>>

MCSpec ==
    /\ MCInit
    /\ [][InProcess \/ Pipecat \/ Worker \/ Website]_<<engine, vars, remoteVars, gateVars, pageVars>>
    /\ Fairness
    /\ Remote!Fairness
    /\ Gate!Fairness

\* EveryWordAccounted, of both engines.
WordsAccounted == EveryWordAccounted /\ Remote!EveryWordAccounted

\* NeverDeadAir, of both engines, of which the reports of a worker may be lost, and
\* NoDeadEnd of the widget's loop (widget/src/voice-session.ts): none waits for nothing.
NoDeadAir == NeverDeadAir /\ Remote!NeverDeadAir /\ Page!NoDeadEnd

\* Who has the microphone on the page: AwaitedReplyIsNotHeard, OneMicrophone and
\* MicIsReleased of the widget, but for the two interleavings which they name
\* (widget/src/voice-session.ts, live-call.ts, widget.ts).
MicHasOneUse ==
    Page!AwaitedReplyIsNotHeard /\ Page!OneMicrophone /\ Page!MicIsReleased

\* Both engines implement the seam; of the Pipecat engine the handoff may begin while a
\* turn is still in flight.
EnginesImplementInterface == ImplementsInterface /\ Remote!ImplementsInterface

\* SessionEnds, of both engines.
SessionsEnd == SessionEnds /\ Remote!SessionEnds

\* SilencedStaysSilent of the worker (media_gate.py).
SilencedStaysSilent == Gate!SilencedStaysSilent

\* EveryLineIsReported of the worker.
EveryLineIsReported == Gate!EveryLineIsReported
===============================================================================

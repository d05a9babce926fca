------------------------------ MODULE TtsFailover ------------------------------
(***************************************************************************)
(* One line of speech, as the voice session asks for it: the fallback         *)
(* provider (packages/providers/voice-vendors/fallback-tts-provider.ts) over  *)
(* the streaming vendor and the local engine, either of which fills a queue    *)
(* that the session drains, and the session's own second try.                *)
(*                                                                         *)
(* Callbacks of the vendor, its timers and the session's pulls run on one     *)
(* event loop.                                                              *)
(***************************************************************************)
EXTENDS Integers

CONSTANTS
    TtsChains,  \* the orders in which "sarvam" and "local" are configured
    MaxChunks   \* pieces of audio of one line

VARIABLES
    line,    \* the request, and the loop of the fallback provider
    vendor,  \* the provider that is asked, with its queue
    spoken   \* what the session was given of the line

ttsVars == <<line, vendor, spoken>>

\* again says that the session tries for the second time.
Line == [chain : TtsChains, stage : {"idle", "asking", "over"}, index : {1, 2},
         released : BOOLEAN, again : BOOLEAN, aborted : BOOLEAN]

\* heard says that audio arrived, of which whole samples are queued; made counts them.
\* timers are those of the connection and of the first audio, or that of the local engine.
Vendor == [opened : BOOLEAN, heard : BOOLEAN, chunks : 0 .. MaxChunks, made : 0 .. MaxChunks,
           done : {"no", "finished", "recoverable", "refused"}, timers : BOOLEAN]

NewVendor == [opened |-> FALSE, heard |-> FALSE, chunks |-> 0, made |-> 0, done |-> "no",
              timers |-> TRUE]

\* The generator's release(): its socket, its timers and its listeners are gone.
NoVendor == [NewVendor EXCEPT !.timers = FALSE]

TtsInit ==
    /\ line \in [chain : TtsChains, stage : {"idle"}, index : {1}, released : {FALSE},
                 again : {FALSE}, aborted : {FALSE}]
    /\ vendor = NoVendor
    /\ spoken = [outcome |-> "open", source |-> 0, pieces |-> 0]

Local == line.chain[line.index] = "local"

Asking == line.stage = "asking"

-------------------------------------------------------------------------------
(* The queue: ChunkQueue of the vendor, ready with done and failure of the    *)
(* local engine, whose timer may fail it after its last piece.               *)

Push(v) == IF v.done = "no" THEN [v EXCEPT !.chunks = @ + 1, !.made = @ + 1] ELSE v

Finish(v) == IF v.done = "no" THEN [v EXCEPT !.done = "finished"] ELSE v

FailWith(v, failure) == IF v.done = "no" THEN [v EXCEPT !.done = failure] ELSE v

\* The socket opens; config, text and flush are sent.
Opens ==
    /\ Asking /\ ~Local /\ ~vendor.opened
    /\ vendor' = [vendor EXCEPT !.opened = TRUE]
    /\ UNCHANGED <<line, spoken>>

\* An audio message, or a sentence of the engine.  The first may be half a sample, which is
\* carried to the next.
Audio ==
    /\ Asking
    /\ Local \/ vendor.opened
    /\ vendor.made < MaxChunks
    /\ LET v == [vendor EXCEPT !.heard = TRUE] IN
       \/ vendor' = Push(v)
       \/ ~Local /\ ~vendor.heard /\ vendor' = v
    /\ UNCHANGED <<line, spoken>>

\* The completion event, or the end of the engine's work.
Completed ==
    /\ Asking
    /\ Local \/ vendor.opened
    /\ vendor' = Finish(vendor)
    /\ UNCHANGED <<line, spoken>>

\* A close after audio ends the line; "a close before any audio is a failure, however
\* polite the close code".
SocketCloses ==
    /\ Asking /\ ~Local
    /\ vendor' = IF vendor.heard THEN Finish(vendor) ELSE FailWith(vendor, "recoverable")
    /\ UNCHANGED <<line, spoken>>

\* An error message, a refused upgrade, an engine that breaks or is not installed.
VendorFails ==
    /\ Asking
    /\ \E failure \in {"recoverable", "refused"} : vendor' = FailWith(vendor, failure)
    /\ UNCHANGED <<line, spoken>>

\* Nothing bounds the wait for the end of a line that has begun, but of the local engine.
TimerFires ==
    /\ Asking /\ vendor.timers
    /\ vendor' =
         IF Local THEN [vendor EXCEPT !.timers = FALSE, !.done = "recoverable"]
         ELSE IF vendor.heard THEN [vendor EXCEPT !.timers = FALSE]
         ELSE FailWith([vendor EXCEPT !.timers = FALSE], "recoverable")
    /\ UNCHANGED <<line, spoken>>

-------------------------------------------------------------------------------
(* The loop of the fallback provider, and that of the session.               *)

\* synthesize(): an aborted request costs no call.
Ask ==
    /\ line.stage = "idle"
    /\ line' = [line EXCEPT !.stage = IF line.aborted THEN "over" ELSE "asking"]
    /\ vendor' = IF line.aborted THEN vendor ELSE NewVendor
    /\ UNCHANGED spoken

\* The next piece of audio.
Pull ==
    /\ Asking /\ ~line.aborted
    /\ vendor.chunks > 0
    /\ vendor' = [vendor EXCEPT !.chunks = @ - 1]
    /\ line' = [line EXCEPT !.released = TRUE]
    /\ spoken' = [spoken EXCEPT !.source = line.index, !.pieces = @ + 1]

\* The iteration ends: the line is said, or its end is thrown to the session.
Over(outcome) ==
    /\ line' = [line EXCEPT !.stage = "over"]
    /\ vendor' = NoVendor
    /\ spoken' = [spoken EXCEPT !.outcome = outcome]

\* Mutant: a line that was begun is begun again by the other provider.
MovesOnAnyway(failure) == failure # "refused" /\ line.index = 1

\* "A failed utterance may switch providers only before any audio is released."
MovesOn(failure) == ~line.released /\ failure # "refused" /\ line.index = 1

\* The session's own retry, when it has heard nothing at all.
TriesAgain(failure) == failure # "refused" /\ ~line.again /\ spoken.pieces = 0

Drained ==
    /\ Asking /\ ~line.aborted
    /\ vendor.chunks = 0
    /\ vendor.done # "no"
    /\ \/ /\ vendor.done = "finished" /\ line.released
          /\ Over("answered")
       \/ /\ vendor.done # "finished" \/ ~line.released
          /\ \/ /\ MovesOn(vendor.done)
                /\ line' = [line EXCEPT !.index = 2]
                /\ vendor' = NewVendor
                /\ UNCHANGED spoken
             \/ /\ ~MovesOn(vendor.done) /\ TriesAgain(vendor.done)
                /\ line' = [line EXCEPT !.index = 1, !.again = TRUE]
                /\ vendor' = NewVendor
                /\ UNCHANGED spoken
             \/ /\ ~MovesOn(vendor.done) /\ ~TriesAgain(vendor.done)
                /\ Over("failed")

\* The playback is cut: the session wants no more, and the provider finds out.
CutOff ==
    /\ line.stage # "over" /\ ~line.aborted
    /\ line' = [line EXCEPT !.aborted = TRUE]
    /\ vendor' = IF Asking /\ ~Local THEN Finish(vendor) ELSE vendor
    /\ spoken' = [spoken EXCEPT !.outcome = "failed"]

GivesUp ==
    /\ Asking /\ line.aborted
    /\ line' = [line EXCEPT !.stage = "over"]
    /\ vendor' = NoVendor
    /\ UNCHANGED spoken

TtsNext ==
    \/ Opens \/ Audio \/ Completed \/ SocketCloses \/ VendorFails \/ TimerFires
    \/ Ask \/ Pull \/ Drained \/ CutOff \/ GivesUp

TtsSpec == TtsInit /\ [][TtsNext]_ttsVars

-------------------------------------------------------------------------------

Heard == INSTANCE OneSource WITH
    Sources <- {1, 2}, MaxPieces <- MaxChunks, outcome <- spoken.outcome,
    source <- spoken.source, pieces <- spoken.pieces

\* "Replaying after partial speech would repeat promises to the caller": whatever fails, is
\* retried or is cut, a line is heard in one voice, once, and silence is not taken for it
\* (fallback-tts-provider.ts, sarvam-tts-provider.ts).
ImplementsOneSource == Heard!Init /\ [][Heard!Next]_spoken
===============================================================================

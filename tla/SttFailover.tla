------------------------------ MODULE SttFailover ------------------------------
(***************************************************************************)
(* The recognition of one call: the fallback provider                        *)
(* (packages/providers/voice-vendors/fallback-stt-provider.ts) over the       *)
(* streaming vendor and the local recognizer.  What the caller says is given  *)
(* to the recognizer in use and kept until the first final, so that it can be *)
(* given to the other one.                                                   *)
(*                                                                         *)
(* The events of a recognizer are delivered in microtasks, so that one        *)
(* callback of its socket is one action; a recognizer that was closed says    *)
(* nothing more.                                                            *)
(***************************************************************************)
EXTENDS Integers, Sequences, SequencesExt

CONSTANTS
    SttChains,    \* the orders in which "sarvam" and "local" are configured
    MaxFrames,    \* frames of audio the caller says
    MaxEnds,      \* how often the session tells that an utterance is over
    MaxBuffered,  \* maxBufferedBytes, in frames
    MaxPending    \* maxPendingBytes of a vendor whose socket is not open yet

VARIABLES
    ear,         \* the locals of open() of the fallback provider
    recognizer,  \* the one in use
    caller,      \* frames said and utterances ended so far
    understood   \* what the session was told

sttVars == <<ear, recognizer, caller, understood>>

\* lost (history) says that the recognizer itself dropped audio or made nothing of it.
NewRecognizer == [opened |-> FALSE, pending |-> <<>>, audio |-> <<>>, queue |-> <<>>,
                  lost |-> FALSE]

SttInit ==
    /\ ear \in [chain : SttChains, index : {0}, closed : {FALSE}, finalized : {FALSE},
                overflow : {FALSE}, buffered : {<<>>}, pendingFinalize : {FALSE}]
    /\ recognizer = NewRecognizer
    /\ caller = [frames |-> 0, ends |-> 0]
    /\ understood = [closed |-> FALSE, finals |-> <<>>]

KindAt(i) == ear.chain[i]

Kind == KindAt(ear.index)

InUse == ear.index > 0 /\ ~ear.closed

-------------------------------------------------------------------------------
(* The recognizers.                                                         *)

\* "Dropping the oldest keeps memory bounded without losing what the caller is saying now."
Enqueued(r, frame) ==
    IF Len(r.pending) < MaxPending THEN [r EXCEPT !.pending = Append(@, frame)]
    ELSE [r EXCEPT !.pending = Append(Tail(@), frame), !.lost = TRUE]

\* write().
Written(kind, r, frame) ==
    IF kind = "local" \/ r.opened THEN [r EXCEPT !.audio = Append(@, frame)]
    ELSE Enqueued(r, frame)

\* finalize(): the local recognizer decodes what it has; where an utterance ends is the
\* vendor's own business, to which a flush is sent that takes no room where it waits.
Finalized(kind, r) ==
    IF kind = "local" /\ r.audio # <<>>
    THEN [r EXCEPT !.queue = Append(@, r.audio), !.audio = <<>>] ELSE r

\* A new recognizer is given what is kept, and told that the utterance is over if the
\* session ever said so.
Replayed(kind) ==
    LET Write(r, frame) == Written(kind, r, frame)
        r == FoldLeft(Write, NewRecognizer, ear.buffered)
    IN IF ear.pendingFinalize THEN Finalized(kind, r) ELSE r

\* onOpen: what waited is sent.
Connects ==
    /\ InUse /\ Kind = "sarvam" /\ ~recognizer.opened
    /\ recognizer' = [recognizer EXCEPT !.opened = TRUE, !.pending = <<>>,
                                        !.audio = @ \o recognizer.pending]
    /\ UNCHANGED <<ear, caller, understood>>

\* A final: of the vendor, which tells ends of its own, for the audio it has; of the local
\* recognizer for one utterance at a time, in order.
Recognizes(frames, after) ==
    /\ recognizer' = after
    /\ ear' = [ear EXCEPT !.finalized = TRUE, !.buffered = <<>>]
    /\ understood' =
         [understood EXCEPT !.finals = Append(@, [by |-> ear.index, frames |-> frames])]
    /\ UNCHANGED caller

\* No text: nothing is emitted.
HearsNothing(after) ==
    /\ recognizer' = [after EXCEPT !.lost = TRUE]
    /\ UNCHANGED <<ear, caller, understood>>

VendorTranscribes ==
    /\ InUse /\ Kind = "sarvam"
    /\ recognizer.audio # <<>>
    /\ LET after == [recognizer EXCEPT !.audio = <<>>] IN
       Recognizes(recognizer.audio, after) \/ HearsNothing(after)

LocalDecodes ==
    /\ InUse /\ Kind = "local"
    /\ recognizer.queue # <<>>
    /\ LET after == [recognizer EXCEPT !.queue = Tail(@)] IN
       Recognizes(Head(recognizer.queue), after) \/ HearsNothing(after)

-------------------------------------------------------------------------------
(* The fallback provider.                                                   *)

\* start(), deferred; what was written meanwhile is replayed.
Starts ==
    /\ ear.index = 0 /\ ~ear.closed
    /\ ear' = [ear EXCEPT !.index = 1]
    /\ recognizer' = Replayed(KindAt(1))
    /\ UNCHANGED <<caller, understood>>

Closes ==
    /\ ear' = [ear EXCEPT !.closed = TRUE, !.buffered = <<>>]
    /\ understood' = [understood EXCEPT !.closed = TRUE]
    /\ UNCHANGED <<recognizer, caller>>

\* Mutant: recognition moves on though it has understood something.
MovesOnAnyway(recoverable) == recoverable /\ ~ear.overflow /\ ear.index < Len(ear.chain)

\* Mutant: it moves on though not all that was said is kept.
MovesOnWithout(recoverable) == recoverable /\ ~ear.finalized /\ ear.index < Len(ear.chain)

\* "Once a final may have caused a business action, failure is surfaced instead."
MovesOn(recoverable) ==
    recoverable /\ ~ear.finalized /\ ~ear.overflow /\ ear.index < Len(ear.chain)

\* An error, fatal or not, or the close of the recognizer: it is closed in any case.  A
\* retryable error and a close without one can be recovered from.
RecognizerFails ==
    /\ InUse
    /\ \E recoverable \in BOOLEAN :
          \/ /\ MovesOn(recoverable)
             /\ ear' = [ear EXCEPT !.index = @ + 1]
             /\ recognizer' = Replayed(KindAt(ear.index + 1))
             /\ UNCHANGED <<caller, understood>>
          \/ ~MovesOn(recoverable) /\ Closes

\* write().  Before the start only the session's reconnection buffer is written, which is
\* smaller than what is kept.
Says ==
    LET frame == caller.frames + 1
        kept == Len(ear.buffered) < MaxBuffered
    IN /\ ~ear.closed
       /\ caller.frames < MaxFrames
       /\ ear.index = 0 => kept
       /\ caller' = [caller EXCEPT !.frames = frame]
       /\ ear' = IF ear.finalized \/ ear.overflow THEN ear
                 ELSE [ear EXCEPT !.buffered = IF kept THEN Append(@, frame) ELSE <<>>,
                                  !.overflow = ~kept]
       /\ recognizer' = IF InUse THEN Written(Kind, recognizer, frame) ELSE recognizer
       /\ UNCHANGED understood

\* finalize().
EndsUtterance ==
    /\ ~ear.closed
    /\ caller.ends < MaxEnds
    /\ caller' = [caller EXCEPT !.ends = @ + 1]
    /\ ear' = [ear EXCEPT !.pendingFinalize = TRUE]
    /\ recognizer' = IF InUse THEN Finalized(Kind, recognizer) ELSE recognizer
    /\ UNCHANGED understood

\* close().
SessionCloses == ~ear.closed /\ Closes

SttNext ==
    \/ Connects \/ VendorTranscribes \/ LocalDecodes \/ Starts \/ RecognizerFails
    \/ Says \/ EndsUtterance \/ SessionCloses

SttSpec == SttInit /\ [][SttNext]_sttVars

-------------------------------------------------------------------------------

Finals == Len(understood.finals)

Listened == INSTANCE OneSource WITH
    Sources <- {1, 2}, MaxPieces <- MaxFrames,
    outcome <- IF understood.closed THEN "failed" ELSE "open",
    source <- IF Finals = 0 THEN 0 ELSE understood.finals[Finals].by, pieces <- Finals

\* The session is told the finals of one recognizer, and nothing once it was told that the
\* stream is closed (fallback-stt-provider.ts).
ImplementsOneSource == Listened!Init /\ [][Listened!Next]_understood

\* What was understood, and what the recognizer still has to hear, is all the caller said,
\* in order and once, whichever recognizer failed before, unless the one in use dropped or
\* did not understand some of it (fallback-stt-provider.ts, sarvam-stt-provider.ts).
AllIsHeard ==
    LET done == FlattenSeq([i \in 1 .. Finals |-> understood.finals[i].frames])
        held == FlattenSeq(recognizer.queue) \o recognizer.audio \o recognizer.pending
    IN InUse /\ ~recognizer.lost => done \o held = [i \in 1 .. caller.frames |-> i]
===============================================================================

------------------------------- MODULE MediaGate -------------------------------
(***************************************************************************)
(* The Pipecat worker of one call (services/pipecat-worker): the gate that   *)
(* speaks HALO's lines chunk by chunk and reports what became of them        *)
(* (media_gate.py), the pacer that sends their audio (worker.py), and the    *)
(* carrier that plays it.                                                    *)
(*                                                                         *)
(* Four asyncio tasks meet on the same playback: the speak loop, the        *)
(* pipeline's system frames (the caller starts to speak), its data frames    *)
(* (synthesized audio) and the reader of the control socket.  A task that    *)
(* reports to HALO may be suspended until the socket takes the frame; the    *)
(* frames and the suspended tasks go in the order of the calls               *)
(* (HaloControlClient._send_lock).                                          *)
(*                                                                         *)
(* Transcripts, languages, DTMF, usage and the handshake are left out.       *)
(***************************************************************************)
EXTENDS Integers, Sequences, Functions

CONSTANTS
    MaxLines,        \* HALO sends this many lines
    Chunks,          \* of a line
    Uninterruptible  \* the lines of a handoff or a hangup, which may not be interrupted

VARIABLES
    worker,     \* the process, a record
    peers       \* HALO and the carrier, a record

vars == <<worker, peers>>

Lines == 1 .. MaxLines

NoLine == 0

\* A chunk of a line is what the TTS service calls a context.
Context == Lines \X (1 .. Chunks)

Nothing == <<NoLine, 0>>

Task == {"loop", "system", "data", "reader"}

\* _Playback of the active line; bound is the context that the chunk owns.
Playback == [chunk : 0 .. Chunks, awaiting : BOOLEAN, bound : Context \cup {Nothing},
             audio : BOOLEAN, firstAudio : BOOLEAN, woken : BOOLEAN, settled : BOOLEAN]

NewPlayback == [chunk |-> 0, awaiting |-> FALSE, bound |-> Nothing, audio |-> FALSE,
                firstAudio |-> FALSE, woken |-> FALSE, settled |-> FALSE]

\* What waits to be sent to the carrier, or to be played by it: the audio of a context
\* is one item.
Item == [kind : {"audio", "mark"}, context : Context] \cup [kind : {"clear"}, line : Lines]

Audio(c) == [kind |-> "audio", context |-> c]

Mark(c) == [kind |-> "mark", context |-> c]

TypeOK ==
    /\ worker.closed \in BOOLEAN
    /\ worker.active \in Lines \cup {NoLine}
    /\ worker.queue \in Seq(Lines)
    /\ worker.interruptedIds \subseteq Lines
    /\ worker.playback \in Playback
    /\ worker.at \in [Task -> {"free", "idle", "synthesis", "playout", "acking", "erring",
                               "failing", "givingUp", "completing", "started", "cutting", "first"}]
    /\ worker.cutting \in [{"system", "reader"} -> Lines \cup {NoLine}]
    /\ worker.sending \in Seq(Task)
    /\ worker.mark \in [state : {"none", "waiting", "confirmed", "dropped"},
                        context : Context \cup {Nothing}]
    /\ worker.synthesis \in [context : Context \cup {Nothing}, emitted : BOOLEAN]
    /\ worker.late \in Context \cup {Nothing}
    /\ \A i \in 1 .. Len(worker.sink) : worker.sink[i] \in Item
    /\ \A i \in 1 .. Len(worker.outgoing) : worker.outgoing[i] \in Item
    /\ worker.stopped \subseteq Lines
    /\ peers.spoken \in 0 .. MaxLines
    /\ \A i \in 1 .. Len(peers.carrier) : peers.carrier[i] \in Item
    /\ peers.echoes \subseteq Context
    /\ peers.silenced \subseteq Lines
    /\ peers.cut \subseteq Lines

NewWorker ==
    [closed |-> FALSE, active |-> NoLine, queue |-> <<>>, interruptedIds |-> {},
     playback |-> NewPlayback,
     at |-> [t \in Task |-> IF t = "loop" THEN "idle" ELSE "free"],
     cutting |-> [t \in {"system", "reader"} |-> NoLine], sending |-> <<>>,
     mark |-> [state |-> "none", context |-> Nothing],
     pipeline |-> <<>>, synthesis |-> [context |-> Nothing, emitted |-> FALSE],
     late |-> Nothing, held |-> <<>>, sink |-> <<>>, outgoing |-> <<>>, stopped |-> {}]

Init ==
    /\ worker = NewWorker
    /\ peers = [spoken |-> 0, carrier |-> <<>>, echoes |-> {}, silenced |-> {}, cut |-> {}]

-------------------------------------------------------------------------------
(* The methods the tasks share.                                             *)

\* await self._client....: the frame is on its way, the task goes on later, at pc.
Send(s, task, pc) ==
    [s EXCEPT !.sending = Append(@, task), !.at[task] = pc]

\* playback_stopped, whatever the reason.
Report(s, l) == [s EXCEPT !.stopped = @ \cup {l}]

\* _drop_buffered_audio, the interrupt listener: the marks are void, the queue is empty.
DropBufferedAudio(s) ==
    [s EXCEPT !.outgoing = <<>>,
              !.mark.state = IF @ = "waiting" THEN "dropped" ELSE @]

\* _interrupt_playback up to its report, and the rest of it.
CutLocally(s, l) ==
    DropBufferedAudio([s EXCEPT !.interruptedIds = @ \cup {l}])

CutSynthesis(s, l) ==
    [s EXCEPT !.playback.woken = @ \/ l = s.active,
              !.pipeline = Append(@, [kind |-> "cut", line |-> l])]

InterruptPlayback(s, task, l) ==
    LET cut == CutLocally(s, l) IN
    IF s.playback.settled THEN CutSynthesis(cut, l)
    ELSE Send(Report([cut EXCEPT !.cutting[task] = l], l), task, "cutting")

\* What follows the report.
Reported(s, task) ==
    LET l == s.cutting[task] IN
    CutSynthesis([s EXCEPT !.playback.settled = @ \/ l = s.active, !.cutting[task] = NoLine,
                           !.at[task] = "free"], l)

\* Mutant: the context alone is looked at.
BelongsToChunk(s, c) == s.active # NoLine /\ s.playback.bound = c

\* _on_tts_audio and the check before it: audio that may go to the carrier.
IsCurrent(s, c) ==
    /\ s.active # NoLine
    /\ ~s.playback.settled
    /\ s.active \notin s.interruptedIds
    /\ s.playback.bound = c

-------------------------------------------------------------------------------
(* The reader of the control socket.                                        *)

Step(s) == worker' = s /\ UNCHANGED peers

\* on_speak.
Speak ==
    LET l == peers.spoken + 1 IN
    /\ ~worker.closed
    /\ worker.at["reader"] = "free"
    /\ l \in Lines
    /\ worker' = [worker EXCEPT !.queue = Append(@, l)]
    /\ peers' = [peers EXCEPT !.spoken = l]

\* on_stop_playback, of the line that HALO sent last, once; a line that is still queued is
\* not active, and the command has no effect.
StopPlayback ==
    LET l == worker.active IN
    /\ ~worker.closed
    /\ worker.at["reader"] = "free"
    /\ l \notin {NoLine} \cup peers.cut
    /\ l = peers.spoken
    /\ worker' = InterruptPlayback(worker, "reader", l)
    /\ peers' = [peers EXCEPT !.cut = @ \cup {l}]

\* close: on_hangup, the media socket, the watchdog of the call's duration.  Everything
\* the process still held is gone.
Close ==
    LET l == worker.active
        lost == l # NoLine /\ ~worker.playback.settled IN
    /\ ~worker.closed
    /\ worker' = [NewWorker EXCEPT
                     !.closed = TRUE,
                     !.stopped = worker.stopped \cup (IF lost THEN {l} ELSE {})]
    /\ peers' = [peers EXCEPT !.carrier = <<>>, !.echoes = {}, !.silenced = {}]

-------------------------------------------------------------------------------
(* Frames of the pipeline.                                                  *)

\* VADUserStartedSpeakingFrame: HALO is told before anything is cut.
CallerSpeaks ==
    /\ ~worker.closed
    /\ worker.at["system"] = "free"
    /\ Step(Send(worker, "system", "started"))

\* _maybe_barge_in.
MaybeBargeIn(s) ==
    LET free == [s EXCEPT !.at["system"] = "free"]
        l == s.active IN
    IF l # NoLine /\ ~s.playback.settled /\ l \notin Uninterruptible
    THEN InterruptPlayback(free, "system", l)
    ELSE free

\* TTSStartedFrame: the context of the chunk that is armed.  An interruption on its way
\* goes first.
TtsStarts ==
    LET c == Head(worker.pipeline).context
        s == [worker EXCEPT !.pipeline = Tail(@),
                            !.synthesis = [context |-> c, emitted |-> FALSE]] IN
    /\ ~worker.closed
    /\ worker.pipeline # <<>>
    /\ \A i \in 1 .. Len(worker.pipeline) : worker.pipeline[i].kind = "speak"
    /\ worker.synthesis.context = Nothing
    /\ worker.at["data"] = "free"
    /\ Step(IF s.active # NoLine /\ s.playback.awaiting
            THEN [s EXCEPT !.playback.bound = c, !.playback.awaiting = FALSE]
            ELSE s)

\* A TTSAudioRawFrame reaches the gate: the first of a line is reported before it is
\* pushed on to the sink.
AudioFrame(s, c) ==
    LET t == [s EXCEPT !.playback.audio = TRUE, !.playback.firstAudio = TRUE] IN
    IF ~IsCurrent(s, c) THEN s
    ELSE IF s.playback.firstAudio THEN [t EXCEPT !.sink = Append(@, Audio(c))]
    ELSE Send([t EXCEPT !.held = <<Audio(c)>>], "data", "first")

TtsEmits ==
    LET c == worker.synthesis.context IN
    /\ ~worker.closed
    /\ worker.at["data"] = "free"
    /\ c # Nothing
    /\ ~worker.synthesis.emitted
    /\ Step(AudioFrame([worker EXCEPT !.synthesis.emitted = TRUE], c))

\* "Late synthesis must never reach the carrier": the vendor goes on after a cut.
TtsIsLate ==
    /\ ~worker.closed
    /\ worker.at["data"] = "free"
    /\ worker.late # Nothing
    /\ Step(AudioFrame([worker EXCEPT !.late = Nothing], worker.late))

\* TTSStoppedFrame; a context may also have been silent.
TtsStops ==
    LET c == worker.synthesis.context
        s == [worker EXCEPT !.synthesis = [context |-> Nothing, emitted |-> FALSE]] IN
    /\ ~worker.closed
    /\ worker.at["data"] = "free"
    /\ c # Nothing
    /\ Step(IF s.active # NoLine /\ s.playback.bound = c
            THEN [s EXCEPT !.playback.woken = TRUE, !.playback.bound = Nothing]
            ELSE s)

\* The report of a cancelled task is not sent: the data task has at most one.
WithoutData(tasks) ==
    LET i == CHOOSE j \in DOMAIN tasks : tasks[j] = "data" IN
    IF "data" \in Range(tasks)
    THEN SubSeq(tasks, 1, i - 1) \o SubSeq(tasks, i + 1, Len(tasks))
    ELSE tasks

\* InterruptionFrame: it overtakes what is queued in the pipeline, and drops it, down to
\* the sink, which hands it to the pacer.
Interruption ==
    LET cuts == {i \in 1 .. Len(worker.pipeline) : worker.pipeline[i].kind = "cut"}
        i == CHOOSE j \in cuts : \A k \in cuts : j <= k IN
    /\ ~worker.closed
    /\ cuts # {}
    /\ Step([worker EXCEPT
                !.pipeline = SubSeq(@, i + 1, Len(@)),
                !.late = IF ~worker.synthesis.emitted THEN worker.synthesis.context ELSE @,
                !.synthesis = [context |-> Nothing, emitted |-> FALSE],
                !.held = <<>>, !.sink = <<>>,
                !.at["data"] = "free",
                !.sending = WithoutData(@),
                !.outgoing = Append(@, [kind |-> "clear", line |-> worker.pipeline[i].line])])

-------------------------------------------------------------------------------
(* The speak loop.                                                          *)

NextLine(s) ==
    [s EXCEPT !.active = NoLine, !.playback = NewPlayback, !.at["loop"] = "idle"]

\* The end of _play_chunks, also after a break.
Finish(s, l) ==
    IF ~s.playback.settled /\ l \notin s.interruptedIds
    THEN Send(Report(s, l), "loop", "completing")
    ELSE NextLine([s EXCEPT !.interruptedIds = @ \ {l}])

\* The chunk is armed before its text is queued.
Arm(s, l, i) ==
    IF l \in s.interruptedIds THEN Finish(s, l)
    ELSE [s EXCEPT !.playback = [@ EXCEPT !.chunk = i, !.awaiting = TRUE, !.bound = Nothing,
                                             !.audio = FALSE, !.woken = FALSE],
                   !.pipeline = Append(@, [kind |-> "speak", context |-> <<l, i>>]),
                   !.at["loop"] = "synthesis"]

LoopTakes ==
    LET l == Head(worker.queue) IN
    /\ ~worker.closed
    /\ worker.at["loop"] = "idle"
    /\ worker.queue # <<>>
    /\ Step(Arm([worker EXCEPT !.queue = Tail(@), !.active = l], l, 1))

\* The wait for the chunk's audio ends: the context drained, a cut woke the loop, or
\* CHUNK_START_TIMEOUT_S is over.  _wait_for_playout begins with a mark.
SynthesisEnds ==
    LET l == worker.active
        p == worker.playback
        c == <<l, p.chunk>> IN
    /\ ~worker.closed
    /\ worker.at["loop"] = "synthesis"
    /\ \E timedOut \in BOOLEAN :
          /\ timedOut = ~p.woken
          /\ timedOut => worker.sending = <<>>
          /\ Step(IF l \in worker.interruptedIds THEN Finish(worker, l)
                  ELSE IF timedOut \/ p.awaiting \/ ~p.audio
                  THEN Send(worker, "loop", "erring")
                  ELSE [worker EXCEPT !.mark = [state |-> "waiting", context |-> c],
                                      !.outgoing = Append(@, Mark(c)),
                                      !.at["loop"] = "playout"])

\* Mutant: an echo is awaited for ever.
PlayoutEndsByEcho ==
    LET l == worker.active
        s == [worker EXCEPT !.mark = [state |-> "none", context |-> Nothing]] IN
    /\ ~worker.closed
    /\ worker.at["loop"] = "playout"
    /\ worker.mark.state \in {"confirmed", "dropped"}
    /\ Step(IF worker.mark.state = "dropped" \/ l \in s.interruptedIds THEN Finish(s, l)
            ELSE Send(s, "loop", "acking"))

\* The mark came back, was made void by a cut, or the wait for it timed out.
PlayoutEnds ==
    LET l == worker.active
        s == [worker EXCEPT !.mark = [state |-> "none", context |-> Nothing]] IN
    /\ ~worker.closed
    /\ worker.at["loop"] = "playout"
    /\ worker.mark.state = "waiting" => worker.sending = <<>>
    /\ Step(IF worker.mark.state = "waiting" THEN Send(Report(s, l), "loop", "givingUp")
            ELSE IF worker.mark.state = "dropped" \/ l \in s.interruptedIds THEN Finish(s, l)
            ELSE Send(s, "loop", "acking"))

\* The loop goes on after a report.
LoopReported(s) ==
    LET l == s.active
        i == s.playback.chunk
        settled == [s EXCEPT !.playback.settled = TRUE] IN
    CASE s.at["loop"] = "acking" -> IF i < Chunks THEN Arm(s, l, i + 1) ELSE Finish(s, l)
      [] s.at["loop"] = "completing" -> NextLine([settled EXCEPT !.interruptedIds = @ \ {l}])
      [] s.at["loop"] = "givingUp" -> NextLine(settled)
      [] s.at["loop"] = "erring" -> Send(Report(s, l), "loop", "failing")
      [] s.at["loop"] = "failing" -> NextLine(CutSynthesis(CutLocally(settled, l), l))

\* The socket has taken the oldest frame, and its sender goes on.
SenderResumes ==
    LET t == Head(worker.sending)
        s == [worker EXCEPT !.sending = Tail(@)] IN
    /\ ~worker.closed
    /\ worker.sending # <<>>
    /\ Step(CASE t = "loop" -> LoopReported(s)
              [] s.at[t] = "cutting" -> Reported(s, t)
              [] s.at[t] = "started" -> MaybeBargeIn(s)
              [] s.at[t] = "first" -> [s EXCEPT !.sink = @ \o s.held, !.held = <<>>,
                                                !.at["data"] = "free"])

-------------------------------------------------------------------------------
(* The sink, the pacer and the carrier.                                     *)

\* MediaSink, a processor of its own behind the gate.
SinkHands ==
    /\ ~worker.closed
    /\ worker.sink # <<>>
    /\ Step([worker EXCEPT !.outgoing = Append(@, Head(worker.sink)), !.sink = Tail(@)])

\* _pace_outbound.  On a clear the carrier drops the audio, and either drops the marks
\* behind it too or sends them back.
PacerSends ==
    LET item == Head(worker.outgoing)
        marks == {peers.carrier[i].context :
                     i \in {j \in 1 .. Len(peers.carrier) : peers.carrier[j].kind = "mark"}} IN
    /\ ~worker.closed
    /\ worker.outgoing # <<>>
    /\ worker' = [worker EXCEPT !.outgoing = Tail(@)]
    /\ IF item.kind = "clear"
       THEN \E back \in {{}, marks} :
               peers' = [peers EXCEPT !.carrier = <<>>, !.echoes = @ \cup back,
                                      !.silenced = @ \cup {item.line}]
       ELSE peers' = [peers EXCEPT !.carrier = Append(@, item)]

CarrierPlays ==
    LET item == Head(peers.carrier) IN
    /\ peers.carrier # <<>>
    /\ peers' = IF item.kind = "audio"
                THEN [peers EXCEPT !.carrier = Tail(@)]
                ELSE [peers EXCEPT !.carrier = Tail(@), !.echoes = @ \cup {item.context}]
    /\ UNCHANGED worker

\* _read_media: a mark comes back.
MarkReturns(c) ==
    /\ ~worker.closed
    /\ c \in peers.echoes
    /\ peers' = [peers EXCEPT !.echoes = @ \ {c}]
    /\ worker' = IF worker.mark = [state |-> "waiting", context |-> c]
                 THEN [worker EXCEPT !.mark.state = "confirmed"] ELSE worker

LoopStep == LoopTakes \/ SynthesisEnds \/ PlayoutEnds

Next ==
    \/ Speak \/ StopPlayback \/ Close
    \/ CallerSpeaks
    \/ TtsStarts \/ TtsEmits \/ TtsIsLate \/ TtsStops
    \/ Interruption
    \/ LoopStep \/ SenderResumes
    \/ SinkHands \/ PacerSends \/ CarrierPlays
    \/ \E c \in Context : MarkReturns(c)

Spec == Init /\ [][Next]_vars

\* The event loop runs its tasks and fires their timeouts; the socket takes frames until
\* it is closed.  The caller, the vendor, the carrier and HALO owe nothing.
Fairness == SF_vars(LoopStep) /\ WF_vars(SenderResumes)

FairSpec == Spec /\ Fairness

-------------------------------------------------------------------------------
(* Properties.                                                              *)

\* "Late synthesis must never reach the carrier": once the carrier was told to drop a
\* line that was cut, nothing more of it is heard, whatever the vendor, the pipeline and
\* the pacer still hold.
SilencedStaysSilent ==
    \A item \in Range(peers.carrier) : item.kind = "audio" => item.context[1] \notin peers.silenced

\* Every line is reported as stopped in the end, or the call is over, however the
\* vendor, the carrier and the caller behave: HALO waits for that report.
EveryLineIsReported ==
    \A l \in Lines : l <= peers.spoken ~> l \in worker.stopped \/ worker.closed
===============================================================================

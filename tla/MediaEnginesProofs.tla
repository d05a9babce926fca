--------------------------- MODULE MediaEnginesProofs ---------------------------
(***************************************************************************)
(* Proofs about the media of a call.  Of either engine: a session record is  *)
(* sound between any two events, so that every word of the caller is         *)
(* accounted for, a delivery is final, something is always under way, and    *)
(* the engine implements the interface of the gateway.  Of the widget: its   *)
(* voice loop has no dead end and lets go of the microphone.  Of the worker: *)
(* a line that was cut stays silent.                                         *)
(***************************************************************************)
EXTENDS
    MCMediaEngines, FiniteSetTheorems, Sequences, SequenceTheorems, WellFoundedInduction, TLAPS

-------------------------------------------------------------------------------
(* What is sound of a session, whichever engine runs it.                    *)

Heard == {"complete", "interrupted", "not_delivered"}

Waits == {"finalWait", "finalGrace"}

\* Only the reply that plays is without a delivery, and the turn in flight has no reply.
Delivered(s) ==
    \A n \in Turns :
        /\ s.transcript[n] = "playing" <=> Playing(s) /\ s.playback.turn = n
        /\ n > s.turnIndex \/ (InFlight(s) /\ n = s.turnIndex) => s.transcript[n] = "none"

\* What holds also in the middle of a handler.
Core(s) ==
    /\ s.finals \subseteq s.seen
    /\ s.turnIndex <= Cardinality(s.seen \ s.finals)
    /\ InFlight(s) => /\ s.turn.number = s.turnIndex
                      /\ s.superseded = {}
                      /\ s.failures < MaxFailures
    /\ Delivered(s)
    /\ s.bridging => s.state \in {"transferring", "ending", "ended"}
    /\ s.tearingDown => Closing(s) /\ ~Playing(s)
    /\ s.state = "ended" => s.tearingDown /\ ~InFlight(s)

\* Past a limit the session closes.
Bounded(s) ==
    /\ s.reprompts > MaxReprompts => Closing(s)
    /\ s.failures >= MaxFailures => Closing(s)

\* What is awaited in each state.
Awaited(s) ==
    /\ s.state = "thinking" => InFlight(s) /\ (s.turn.aborted => s.turn.timedOut)
    /\ s.state = "speaking" => Playing(s)
    /\ s.state = "listening" => "silence" \in s.timers
    /\ s.state = "user_speaking" =>
          s.inSpeech \/ "finalWait" \in s.timers \/ (InFlight(s) /\ s.finals # {})
    /\ s.state = "transferring" => s.bridging \/ (Playing(s) /\ s.playback.next = "bridge")
    /\ s.state = "idle" => ~InFlight(s) /\ ~Playing(s) /\ s.timers = {} /\ ~s.inSpeech

\* What follows a line belongs to the state it plays in.
LineFits(s) ==
    Playing(s) =>
        /\ s.playback.directive # "continue" => s.playback.next = "nothing"
        /\ s.playback.next = "bridge" => s.state = "transferring"
        /\ s.playback.next = "end" => s.state = "ending"

Sound(s) == Core(s) /\ Bounded(s) /\ Awaited(s) /\ LineFits(s)

\* Of the engine in the process: while a line plays that orders something no turn begins,
\* and none is about to.
Obeyed(s) ==
    /\ s.state = "thinking" => s.timers \cap Waits = {}
    /\ Playing(s) /\ s.playback.directive # "continue" =>
        s.state = "speaking" /\ ~InFlight(s) /\ s.timers \cap Waits = {}

-------------------------------------------------------------------------------
(* What a handler may do to a session.                                      *)

\* It leaves the words and the turns alone,
Keeps(s, t) ==
    /\ t.seen = s.seen
    /\ t.finals = s.finals
    /\ t.superseded = s.superseded
    /\ t.turnIndex = s.turnIndex
    /\ InFlight(t) <=> InFlight(s)
    /\ InFlight(s) => t.turn.words = s.turn.words

\* or begins a turn with all words that are held.
Commits(s, t) ==
    /\ ~InFlight(s)
    /\ InFlight(t)
    /\ t.seen = s.seen
    /\ t.finals = {}
    /\ t.superseded = {}
    /\ t.turn.words = s.finals \cup s.superseded
    /\ t.turnIndex = s.turnIndex + 1
    /\ s.state \notin {"idle", "transferring", "ending", "ended"}
    /\ t.state = "thinking"

\* A delivery stands.
FinalStays(s, t) ==
    \A n \in Turns : s.transcript[n] \in Heard => t.transcript[n] = s.transcript[n]

\* Everything but the state, the turn, the playback, the transcript and the timers.
SameCall(s, t) ==
    /\ t.inSpeech = s.inSpeech
    /\ t.seen = s.seen
    /\ t.finals = s.finals
    /\ t.superseded = s.superseded
    /\ t.turnIndex = s.turnIndex
    /\ t.reprompts = s.reprompts
    /\ t.failures = s.failures
    /\ t.bridging = s.bridging

\* The line that plays, if any, gets its delivery.
Settles(s, t) ==
    \A n \in Turns :
        IF Playing(s) /\ s.playback.turn = n THEN t.transcript[n] \in Heard
        ELSE t.transcript[n] = s.transcript[n]

\* It is settled, and a new one plays.
Replaces(s, t, line) ==
    \A n \in Turns :
        IF n = line.turn THEN t.transcript[n] = "playing"
        ELSE IF Playing(s) /\ s.playback.turn = n THEN t.transcript[n] \in Heard
        ELSE t.transcript[n] = s.transcript[n]

-------------------------------------------------------------------------------
(* The methods of the engine in the process, field by field.                *)

\* Lines and turns are not their absence.
LEMMA Absence ==
    /\ \A line \in Playback : line # Silence
    /\ \A turn \in Turn : turn # NoTurn /\ turn.number > 0
    /\ Turns \subseteq Nat \ {0}
<1>1. Turns \subseteq Nat \ {0}
    BY DEF Turns
<1>2. \A line \in Playback : line # Silence
  <2> SUFFICES ASSUME NEW line \in Playback, line = Silence PROVE FALSE
      OBVIOUS
  <2>1. line.kind \in {"reply", "policy"} /\ line.kind = "none"
      BY DEF Playback, Silence
  <2>2. QED
      BY <2>1
<1>3. \A r \in Turn : r # NoTurn /\ r.number > 0
  <2> SUFFICES ASSUME NEW r \in Turn PROVE r # NoTurn /\ r.number > 0
      OBVIOUS
  <2>1. r.number \in Turns
      BY DEF Turn
  <2>2. r.number \in Nat \ {0}
      BY Zenon, <2>1, <1>1
  <2>3. NoTurn.number = 0
      BY DEF NoTurn
  <2>4. QED
      BY <2>2, <2>3
<1>4. QED
    BY <1>1, <1>2, <1>3

\* The lines that are spoken are lines.
LEMMA LinesAre ==
    /\ PolicyLine \in Playback
    /\ \A next \in {"nothing", "bridge", "end"} :
          [PolicyLine EXCEPT !.next = next] \in Playback
    /\ \A n \in Turns, d \in Directive : Reply(n, d) \in Playback
BY Zenon DEF PolicyLine, Playback, Reply, Directive

\* settlePlayback settles what plays, and nothing else.
LEMMA SettlePlaybackSets ==
    ASSUME NEW s \in Session, NEW status \in Heard
    PROVE  LET t == SettlePlayback(s, status) IN
           /\ t \in Session
           /\ SameCall(s, t)
           /\ t.turn = s.turn /\ t.state = s.state /\ t.timers = s.timers
           /\ t.tearingDown = s.tearingDown
           /\ ~Playing(t)
           /\ Settles(s, t)
<1> DEFINE t == SettlePlayback(s, status)
<1>1. CASE ~Playing(s)
    BY <1>1 DEF SettlePlayback, SameCall, Settles
<1>2. CASE Playing(s)
  <2> DEFINE heard == IF status = "complete" THEN "complete"
                      ELSE IF s.playback.acked THEN "interrupted" ELSE "not_delivered"
             silent == [s EXCEPT !.playback = Silence]
             k == s.playback.turn
  <2>1. heard \in Heard /\ heard \in Delivery /\ k \in Turns \cup {0}
      BY <1>2 DEF Heard, Delivery, Session, Playback, Playing
  <2>2. silent \in Session
      BY DEF Session
  <2>3. t = IF k = 0 THEN silent ELSE [silent EXCEPT !.transcript[k] = heard]
      BY <1>2 DEF SettlePlayback, Record
  <2> HIDE DEF heard, t
  <2>4. CASE k = 0
      BY <2>2, <2>3, <2>4, <1>2, Absence DEF Session, SameCall, Settles, Playing, t
  <2>5. CASE k # 0
    <3>1. t = [silent EXCEPT !.transcript[k] = heard] /\ k \in Turns
        BY <2>3, <2>5, <2>1
    <3>2. t \in Session
        BY <3>1, <2>1, <2>2, Zenon DEF Session
    <3>3. /\ SameCall(s, t) /\ t.turn = s.turn /\ t.state = s.state /\ t.timers = s.timers
          /\ t.tearingDown = s.tearingDown /\ t.playback = Silence
          /\ t.transcript = [s.transcript EXCEPT ![k] = heard]
        BY <3>1 DEF Session, SameCall
    <3>4. QED
        BY <3>1, <3>2, <3>3, <2>1, <1>2 DEF Session, Settles, Playing, t
  <2>6. QED
      BY <2>4, <2>5
<1>3. QED
    BY <1>1, <1>2

\* A line that is spoken cuts the one that plays, and takes the floor unless the session
\* is owned by a handoff or a goodbye.
LEMMA PlaySets ==
    ASSUME NEW s \in Session, NEW line \in Playback, s.state # "ended"
    PROVE  LET t == Play(s, line) IN
           /\ t \in Session
           /\ SameCall(s, t)
           /\ t.turn = s.turn /\ t.tearingDown = s.tearingDown
           /\ t.state = IF s.state \in {"ending", "transferring"} THEN s.state ELSE "speaking"
           /\ t.timers = s.timers \ {"silence"}
           /\ t.playback = line
           /\ Replaces(s, t, line)
<1> DEFINE t == Play(s, line)
           cut == SettlePlayback(s, "interrupted")
           floor == IF s.state \in {"ending", "transferring"} THEN s.state ELSE "speaking"
           spoken == [cut EXCEPT !.playback = line, !.timers = cut.timers \ {"silence"},
                                 !.state = floor]
           k == line.turn
<1>1. /\ cut \in Session /\ SameCall(s, cut) /\ cut.turn = s.turn /\ cut.state = s.state
      /\ cut.timers = s.timers /\ cut.tearingDown = s.tearingDown /\ Settles(s, cut)
    BY SettlePlaybackSets DEF Heard
<1>2. t = IF k = 0 THEN spoken ELSE [spoken EXCEPT !.transcript[k] = "playing"]
    BY <1>1, Zenon DEF Play, Record
<1> HIDE DEF cut, t
<1>3. floor \in State /\ s.timers \ {"silence"} \subseteq Timer
    BY DEF Session, State
<1> HIDE DEF floor
<1>4. spoken \in Session
    BY <1>1, <1>3, Zenon DEF Session
<1>5. /\ SameCall(s, spoken) /\ spoken.turn = s.turn /\ spoken.state = floor
      /\ spoken.timers = s.timers \ {"silence"} /\ spoken.tearingDown = s.tearingDown
      /\ spoken.playback = line /\ Settles(s, spoken)
    BY <1>1 DEF Session, SameCall, Settles
<1>6. k \in Turns \cup {0} /\ 0 \notin Turns
    BY Absence DEF Playback
<1> HIDE DEF spoken
<1>7. CASE k = 0
    BY <1>2, <1>4, <1>5, <1>6, <1>7 DEF floor, Settles, Replaces, t
<1>8. CASE k # 0
  <2>1. t = [spoken EXCEPT !.transcript[k] = "playing"] /\ k \in Turns
      BY <1>2, <1>6, <1>8
  <2>2. t \in Session
      BY <2>1, <1>4 DEF Session, Delivery
  <2>3. /\ SameCall(spoken, t) /\ t.turn = spoken.turn /\ t.state = spoken.state
        /\ t.timers = spoken.timers /\ t.tearingDown = spoken.tearingDown
        /\ t.playback = spoken.playback
        /\ t.transcript = [spoken.transcript EXCEPT ![k] = "playing"]
      BY <2>1, <1>4 DEF Session, SameCall
  <2>4. Replaces(s, t, line)
      BY <2>1, <2>3, <1>4, <1>5 DEF Session, Settles, Replaces
  <2>5. QED
      BY <2>2, <2>3, <2>4, <1>5 DEF SameCall, floor, t
<1>9. QED
    BY <1>7, <1>8

\* A turn that is aborted stays in flight with its words.
LEMMA AbortSets ==
    ASSUME NEW s \in Session
    PROVE  LET t == Abort(s) IN
           /\ t \in Session
           /\ SameCall(s, t) /\ Keeps(s, t)
           /\ InFlight(s) => t.turn.number = s.turn.number
           /\ t.state = s.state /\ t.timers = s.timers /\ t.tearingDown = s.tearingDown
           /\ t.playback = s.playback /\ t.transcript = s.transcript
<1> DEFINE t == Abort(s)
<1>1. CASE ~InFlight(s)
    BY <1>1 DEF Abort, SameCall, Keeps
<1>2. CASE InFlight(s)
  <2> DEFINE gone == [s.turn EXCEPT !.aborted = TRUE]
  <2>1. s.turn \in Turn
      BY <1>2 DEF InFlight, Session
  <2>2. gone \in Turn /\ gone.words = s.turn.words /\ gone.number = s.turn.number
      BY <2>1, Zenon DEF Turn
  <2>3. gone # NoTurn
      BY <2>2, Absence, Zenon
  <2>4. t = [s EXCEPT !.turn = gone]
      BY <1>2 DEF Abort
  <2> HIDE DEF gone, t
  <2>5. t \in Session
      BY <2>2, <2>4 DEF Session
  <2>6. /\ SameCall(s, t) /\ t.turn = gone
        /\ t.state = s.state /\ t.timers = s.timers /\ t.tearingDown = s.tearingDown
        /\ t.playback = s.playback /\ t.transcript = s.transcript
      BY <2>4 DEF Session, SameCall
  <2>7. QED
      BY <1>2, <2>2, <2>3, <2>5, <2>6 DEF SameCall, Keeps, InFlight, t
<1>3. QED
    BY <1>1, <1>2

-------------------------------------------------------------------------------
(* What a settled, a new and no line do to the deliveries.                  *)

\* A line that is settled has a delivery.
LEMMA SettledIsDelivered ==
    ASSUME NEW s, NEW t, Delivered(s), Settles(s, t), ~Playing(t), t.turnIndex = s.turnIndex,
           InFlight(t) => InFlight(s)
    PROVE  Delivered(t) /\ FinalStays(s, t)
<1> SUFFICES ASSUME NEW n \in Turns
             PROVE  /\ t.transcript[n] # "playing"
                    /\ n > t.turnIndex \/ (InFlight(t) /\ n = t.turnIndex)
                           => t.transcript[n] = "none"
                    /\ s.transcript[n] \in Heard => t.transcript[n] = s.transcript[n]
    BY DEF Delivered, FinalStays
<1>1. CASE Playing(s) /\ s.playback.turn = n
    BY <1>1 DEF Delivered, Settles, Heard
<1>2. CASE ~(Playing(s) /\ s.playback.turn = n)
    BY <1>2 DEF Delivered, Settles, Heard
<1>3. QED
    BY <1>1, <1>2

\* A line that replaces another is the only one without a delivery.
LEMMA ReplacedIsDelivered ==
    ASSUME NEW s, NEW t, NEW line, Delivered(s), Replaces(s, t, line), t.playback = line,
           line # Silence, t.turnIndex = s.turnIndex, InFlight(t) => InFlight(s),
           \A n \in Turns : n = line.turn => /\ s.transcript[n] \notin Heard
                                             /\ ~(n > s.turnIndex)
                                             /\ ~(InFlight(t) /\ n = s.turnIndex)
    PROVE  Delivered(t) /\ FinalStays(s, t)
<1> SUFFICES ASSUME NEW n \in Turns
             PROVE  /\ t.transcript[n] = "playing" <=> line.turn = n
                    /\ n > t.turnIndex \/ (InFlight(t) /\ n = t.turnIndex)
                           => t.transcript[n] = "none"
                    /\ s.transcript[n] \in Heard => t.transcript[n] = s.transcript[n]
    BY DEF Delivered, FinalStays, Playing
<1>1. CASE n = line.turn
    BY <1>1 DEF Replaces
<1>2. CASE n # line.turn /\ Playing(s) /\ s.playback.turn = n
    BY <1>2 DEF Delivered, Replaces, Heard
<1>3. CASE n # line.turn /\ ~(Playing(s) /\ s.playback.turn = n)
    BY <1>3 DEF Delivered, Replaces, Heard
<1>4. QED
    BY <1>1, <1>2, <1>3

\* Where nothing plays that did not, the deliveries stay what they were.
LEMMA SameIsDelivered ==
    ASSUME NEW s, NEW t, Delivered(s), t.transcript = s.transcript, t.playback = s.playback,
           t.turnIndex = s.turnIndex, InFlight(t) => InFlight(s)
    PROVE  Delivered(t) /\ FinalStays(s, t)
BY DEF Delivered, FinalStays, Playing

-------------------------------------------------------------------------------
(* The handlers of the engine in the process.                               *)

\* What a session may become within one event, but for the settlement of its turn.
Becomes(s, t) ==
    /\ t \in Session
    /\ Sound(t)
    /\ Obeyed(t)
    /\ Keeps(s, t) \/ Commits(s, t)
    /\ FinalStays(s, t)

\* Only the floor, the timers or the counts of the silence and of the bridge change.
Retimes(s, t) ==
    /\ t.turn = s.turn
    /\ t.turnIndex = s.turnIndex
    /\ t.playback = s.playback
    /\ t.transcript = s.transcript
    /\ t.seen = s.seen
    /\ t.finals = s.finals
    /\ t.superseded = s.superseded
    /\ t.failures = s.failures
    /\ t.tearingDown = s.tearingDown

\* Such a change leaves the words, the turns and the deliveries alone.
LEMMA RetimedKeeps ==
    ASSUME NEW s, NEW t, Core(s), Retimes(s, t),
           Closing(s) \/ Closing(t) => t.state = s.state,
           t.bridging => t.state \in {"transferring", "ending", "ended"}
    PROVE  Core(t) /\ Keeps(s, t) /\ FinalStays(s, t)
<1>1. Keeps(s, t)
    BY DEF Retimes, Keeps, InFlight
<1>2. Delivered(t) /\ FinalStays(s, t)
    BY <1>1, SameIsDelivered DEF Core, Retimes, Keeps
<1>3. QED
    BY <1>1, <1>2 DEF Core, Retimes, InFlight, Playing, Closing

\* What becomes of such a change becomes of the session.
LEMMA Through ==
    ASSUME NEW s, NEW b, NEW t, Keeps(s, b), FinalStays(s, b), Becomes(b, t),
           b.state = s.state \/ s.state \notin {"idle", "transferring", "ending", "ended"}
    PROVE  Becomes(s, t)
<1>1. Keeps(s, t) \/ Commits(s, t)
    BY DEF Becomes, Keeps, Commits, InFlight
<1>2. FinalStays(s, t)
    BY DEF Becomes, FinalStays
<1>3. QED
    BY <1>1, <1>2 DEF Becomes

\* end() closes a session, once.
LEMMA EndKeeps ==
    ASSUME NEW s \in Session, Core(s)
    PROVE  /\ Becomes(s, End(s)) /\ Keeps(s, End(s))
           /\ End(s).state = IF s.state = "ended" THEN "ended" ELSE "ending"
           /\ s.tearingDown => End(s) = s
<1> DEFINE a == Abort(s)
           b == SettlePlayback(a, "interrupted")
           t == [b EXCEPT !.state = "ending", !.timers = {}, !.tearingDown = TRUE]
<1>1. CASE s.tearingDown
  <2>1. End(s) = s /\ Closing(s) /\ ~Playing(s)
      BY <1>1 DEF End, Core
  <2>2. Sound(s) /\ Obeyed(s)
      BY <2>1 DEF Sound, Bounded, Awaited, LineFits, Obeyed, Closing
  <2>3. QED
      BY <2>1, <2>2 DEF Becomes, Keeps, FinalStays, Closing
<1>2. CASE ~s.tearingDown
  <2>1. /\ a \in Session /\ SameCall(s, a) /\ Keeps(s, a)
        /\ InFlight(s) => a.turn.number = s.turn.number
        /\ a.playback = s.playback /\ a.transcript = s.transcript
      BY AbortSets
  <2> HIDE DEF a
  <2>2. /\ b \in Session /\ SameCall(a, b) /\ b.turn = a.turn
        /\ ~Playing(b) /\ Settles(a, b)
      BY <2>1, SettlePlaybackSets DEF Heard
  <2> HIDE DEF b
  <2>3. t \in Session
      BY <2>2, Zenon DEF Session, State
  <2>4. /\ SameCall(b, t) /\ t.turn = b.turn /\ t.state = "ending" /\ t.tearingDown = TRUE
        /\ t.playback = b.playback /\ t.transcript = b.transcript
      BY <2>2 DEF Session, SameCall
  <2>5. End(s) = t
      BY <1>2 DEF End, a, b
  <2> HIDE DEF t
  <2>6. SameCall(s, t) /\ Keeps(s, t)
      BY <2>1, <2>2, <2>4 DEF SameCall, Keeps, InFlight
  <2>7. ~Playing(t) /\ Settles(s, t)
      BY <2>1, <2>2, <2>4 DEF Playing, Settles
  <2>8. Delivered(t) /\ FinalStays(s, t)
      BY <2>6, <2>7, SettledIsDelivered DEF Core, Keeps
  <2>9. Core(t)
      BY <2>1, <2>2, <2>4, <2>6, <2>7, <2>8 DEF Core, SameCall, Keeps, InFlight, Closing
  <2>10. Sound(t) /\ Obeyed(t)
      BY <2>4, <2>7, <2>9 DEF Sound, Bounded, Awaited, LineFits, Obeyed, Closing
  <2>11. s.state # "ended"
      BY <1>2 DEF Core
  <2>12. QED
      BY <1>2, <2>3, <2>4, <2>5, <2>6, <2>8, <2>10, <2>11 DEF Becomes
<1>3. QED
    BY <1>1, <1>2

\* The goodbye is spoken by a session that closes.
LEMMA GoodbyeKeeps ==
    ASSUME NEW s \in Session, Core(s), ~Closing(s)
    PROVE  Becomes(s, Goodbye(s)) /\ Keeps(s, Goodbye(s)) /\ Goodbye(s).state = "ending"
<1> DEFINE a == Abort(s)
           b == SettlePlayback(a, "interrupted")
           c == [b EXCEPT !.state = "ending"]
           line == [PolicyLine EXCEPT !.next = "end"]
           t == Play(c, line)
<1>1. /\ a \in Session /\ SameCall(s, a) /\ Keeps(s, a)
      /\ InFlight(s) => a.turn.number = s.turn.number
      /\ a.playback = s.playback /\ a.transcript = s.transcript
      /\ a.tearingDown = s.tearingDown
    BY AbortSets
<1> HIDE DEF a
<1>2. /\ b \in Session /\ SameCall(a, b) /\ b.turn = a.turn
      /\ ~Playing(b) /\ Settles(a, b) /\ b.tearingDown = a.tearingDown
    BY <1>1, SettlePlaybackSets DEF Heard
<1> HIDE DEF b
<1>3. c \in Session
    BY <1>2 DEF Session, State
<1>4. /\ SameCall(b, c) /\ c.turn = b.turn /\ c.state = "ending"
      /\ c.playback = b.playback /\ c.transcript = b.transcript
      /\ c.tearingDown = b.tearingDown
    BY <1>2 DEF Session, SameCall
<1> HIDE DEF c
<1>5. line \in Playback /\ line.turn = 0 /\ line.directive = "continue" /\ line.next = "end"
    BY LinesAre DEF PolicyLine
<1> HIDE DEF line
<1>6. /\ t \in Session /\ SameCall(c, t) /\ t.turn = c.turn /\ t.tearingDown = c.tearingDown
      /\ t.state = "ending" /\ t.playback = line /\ Replaces(c, t, line)
    BY <1>3, <1>4, <1>5, PlaySets
<1>7. Goodbye(s) = t
    BY DEF Goodbye, a, b, c, line
<1> HIDE DEF t
<1>8. SameCall(s, c) /\ Keeps(s, c) /\ SameCall(s, t) /\ Keeps(s, t)
    BY <1>1, <1>2, <1>4, <1>6 DEF SameCall, Keeps, InFlight
<1>9. ~Playing(c) /\ Settles(s, c)
    BY <1>1, <1>2, <1>4 DEF Playing, Settles
<1>10. Delivered(c) /\ FinalStays(s, c)
    BY <1>8, <1>9, SettledIsDelivered DEF Core, Keeps
<1>11. line # Silence /\ 0 \notin Turns
    BY <1>5, Absence
<1>12. Delivered(t) /\ FinalStays(c, t)
    BY <1>5, <1>6, <1>8, <1>10, <1>11, ReplacedIsDelivered DEF Keeps
<1>13. Core(t)
    BY <1>1, <1>2, <1>4, <1>6, <1>8, <1>12 DEF Core, SameCall, Keeps, InFlight, Closing
<1>14. Sound(t) /\ Obeyed(t)
    BY <1>5, <1>6, <1>13 DEF Sound, Bounded, Awaited, LineFits, Obeyed, Closing
<1>15. FinalStays(s, t)
    BY <1>10, <1>12 DEF FinalStays
<1>16. QED
    BY <1>6, <1>7, <1>8, <1>14, <1>15 DEF Becomes

\* A policy line takes the floor.
LEMMA PolicyKeeps ==
    ASSUME NEW s \in Session, Core(s), Bounded(s),
           s.state \notin {"transferring", "ending", "ended"}
    PROVE  LET t == Play(s, PolicyLine) IN
           Becomes(s, t) /\ Keeps(s, t) /\ t.state = "speaking"
<1> DEFINE line == PolicyLine
           t == Play(s, line)
<1>1. /\ line \in Playback /\ line.turn = 0
      /\ line.directive = "continue" /\ line.next = "nothing"
    BY LinesAre DEF PolicyLine
<1> HIDE DEF line
<1>2. /\ t \in Session /\ SameCall(s, t) /\ t.turn = s.turn /\ t.tearingDown = s.tearingDown
      /\ t.state = "speaking" /\ t.playback = line /\ Replaces(s, t, line)
    BY <1>1, PlaySets
<1> HIDE DEF t
<1>3. line # Silence /\ 0 \notin Turns
    BY <1>1, Absence
<1>4. Keeps(s, t)
    BY <1>2 DEF SameCall, Keeps, InFlight
<1>5. Delivered(t) /\ FinalStays(s, t)
    BY <1>1, <1>2, <1>3, <1>4, ReplacedIsDelivered DEF Core, Keeps
<1>6. Core(t)
    BY <1>2, <1>4, <1>5 DEF Core, SameCall, Keeps, InFlight, Closing
<1>7. Sound(t) /\ Obeyed(t)
    BY <1>1, <1>2, <1>3, <1>6
       DEF Sound, Bounded, Awaited, LineFits, Obeyed, Closing, Playing, SameCall
<1>8. QED
    BY <1>2, <1>4, <1>5, <1>7 DEF Becomes, t, line

\* Turns are counted in naturals.
LEMMA IndexIsNatural == \A s \in Session : s.turnIndex \in Nat
<1> SUFFICES ASSUME NEW s \in Session PROVE s.turnIndex \in Nat
    OBVIOUS
<1>1. s.turnIndex \in Turns \cup {0}
    BY DEF Session
<1>2. QED
    BY <1>1 DEF Turns

\* There is room for another turn: some utterance began none.
LEMMA RoomForTurn ==
    ASSUME NEW s, s.seen \subseteq Utterances, s.turnIndex \in Nat,
           s.finals \subseteq s.seen, s.finals # {},
           s.turnIndex <= Cardinality(s.seen \ s.finals)
    PROVE  s.turnIndex + 1 \in Turns /\ s.turnIndex + 1 <= Cardinality(s.seen)
<1> DEFINE old == s.seen \ s.finals
<1>1. s.seen \subseteq Utterances /\ s.turnIndex \in Nat
    OBVIOUS
<1>2. IsFiniteSet(Utterances)
    BY VoiceAssumption
<1>3. IsFiniteSet(s.seen) /\ Cardinality(s.seen) <= Cardinality(Utterances)
    BY <1>1, <1>2, FS_Subset
<1>4. PICK u \in s.finals : u \in s.seen
    OBVIOUS
<1>5. old \subseteq s.seen \ {u} /\ IsFiniteSet(s.seen \ {u})
    BY <1>3, <1>4, FS_RemoveElement
<1>6. Cardinality(old) <= Cardinality(s.seen \ {u})
    BY <1>5, FS_Subset
<1>7. Cardinality(s.seen \ {u}) = Cardinality(s.seen) - 1
    BY <1>3, <1>4, FS_RemoveElement, Zenon
<1>8. /\ Cardinality(Utterances) \in Nat /\ Cardinality(s.seen) \in Nat
      /\ Cardinality(old) \in Nat /\ Cardinality(s.seen \ {u}) \in Nat
    BY <1>2, <1>3, <1>5, FS_CardinalityType, FS_Subset
<1>9. s.turnIndex <= Cardinality(old)
    OBVIOUS
<1> HIDE DEF old
<1>10. QED
    BY <1>1, <1>3, <1>6, <1>7, <1>8, <1>9 DEF Turns

\* A turn begins with all that is held, and with no timer left that could begin another.
LEMMA CommitKeeps ==
    ASSUME NEW s \in Session, Core(s), Bounded(s), LineFits(s), ~InFlight(s), s.finals # {},
           s.state \notin {"idle", "transferring", "ending", "ended"},
           Playing(s) => s.playback.directive = "continue"
    PROVE  Becomes(s, CommitUtterance(s)) /\ Commits(s, CommitUtterance(s))
<1> DEFINE words == s.finals \cup s.superseded
           next == [number |-> s.turnIndex + 1, words |-> words, aborted |-> FALSE,
                    timedOut |-> FALSE]
           b == [Clear(s, Waits) EXCEPT !.finals = {}, !.superseded = {}, !.reprompts = 0]
           t == RunTurn(b, words)
<1>1. s.turnIndex + 1 \in Turns /\ s.turnIndex + 1 <= Cardinality(s.seen)
  <2>1. s.seen \subseteq Utterances
      BY DEF Session
  <2>2. QED
      BY <2>1, IndexIsNatural, RoomForTurn DEF Core
<1>2. words \subseteq Utterances /\ words = s.finals \cup s.superseded
    BY DEF Session
<1> HIDE DEF words
<1>3. /\ next \in Turn /\ next.words = words /\ next.number = s.turnIndex + 1
      /\ next.aborted = FALSE
    BY <1>1, <1>2 DEF Turn
<1>4. next # NoTurn
    BY <1>3, Absence, Zenon
<1>5. 0 \in 0 .. MaxReprompts + 1 /\ s.turnIndex \in Nat
  <2>1. MaxReprompts \in Nat
      BY VoiceAssumption
  <2>2. QED
      BY <2>1, IndexIsNatural
<1>6. b \in Session
    BY <1>5, Zenon DEF Session, Clear
<1>7. /\ b.inSpeech = s.inSpeech /\ b.seen = s.seen /\ b.finals = {} /\ b.superseded = {}
      /\ b.turnIndex = s.turnIndex /\ b.playback = s.playback /\ b.transcript = s.transcript
      /\ b.timers = s.timers \ Waits /\ b.reprompts = 0 /\ b.failures = s.failures
      /\ b.bridging = s.bridging /\ b.tearingDown = s.tearingDown
    BY DEF Session, Clear
<1>8. t = [b EXCEPT !.state = "thinking", !.turnIndex = s.turnIndex + 1, !.turn = next]
    BY <1>7, Zenon DEF RunTurn
<1>9. CommitUtterance(s) = t
    BY DEF CommitUtterance, Closing, t, b, words, Waits
<1> HIDE DEF t, b, next
<1>10. t \in Session
    BY <1>1, <1>3, <1>6, <1>8, Zenon DEF Session, State
<1>11. /\ t.state = "thinking" /\ t.turn = next /\ t.turnIndex = s.turnIndex + 1
       /\ t.inSpeech = s.inSpeech /\ t.seen = s.seen /\ t.finals = {} /\ t.superseded = {}
       /\ t.playback = s.playback /\ t.transcript = s.transcript
       /\ t.timers = s.timers \ Waits /\ t.reprompts = 0 /\ t.failures = s.failures
       /\ t.bridging = s.bridging /\ t.tearingDown = s.tearingDown
    BY <1>6, <1>7, <1>8 DEF Session
<1>12. InFlight(t)
    BY <1>4, <1>11 DEF InFlight
<1>13. Commits(s, t)
    BY <1>2, <1>3, <1>11, <1>12 DEF Commits
<1>14. Delivered(t) /\ FinalStays(s, t)
  <2> SUFFICES ASSUME NEW n \in Turns
               PROVE  /\ t.transcript[n] = "playing" <=> Playing(t) /\ t.playback.turn = n
                      /\ n > t.turnIndex \/ n = t.turnIndex => t.transcript[n] = "none"
                      /\ s.transcript[n] \in Heard => t.transcript[n] = s.transcript[n]
      BY DEF Delivered, FinalStays
  <2>1. n \in Nat
      BY Absence
  <2>2. n > t.turnIndex \/ n = t.turnIndex => n > s.turnIndex
      BY <1>5, <1>11, <2>1
  <2>3. QED
      BY <1>11, <2>2 DEF Core, Delivered, Playing
<1>15. s.failures < MaxFailures
    BY VoiceAssumption DEF Bounded, Closing, Session
<1>16. t.turnIndex <= Cardinality(t.seen \ t.finals)
  <2>1. t.seen \ t.finals = s.seen
      BY <1>11
  <2>2. QED
      BY <1>1, <1>11, <2>1
<1>17. Core(t)
  <2>1. t.finals \subseteq t.seen
      BY <1>11
  <2>2. t.turn.number = t.turnIndex /\ t.superseded = {} /\ t.failures < MaxFailures
      BY <1>3, <1>11, <1>15
  <2>3. ~s.bridging /\ ~s.tearingDown
      BY DEF Core, Closing
  <2>4. QED
      BY <1>11, <1>14, <1>16, <2>1, <2>2, <2>3 DEF Core
<1>18. Bounded(t)
    BY <1>11, <1>15, VoiceAssumption DEF Bounded, Session
<1>19. Awaited(t)
    BY <1>3, <1>11, <1>12 DEF Awaited
<1>20. LineFits(t) /\ Obeyed(t)
    BY <1>11 DEF LineFits, Obeyed, Playing, Closing
<1>21. QED
    BY <1>9, <1>10, <1>13, <1>14, <1>17, <1>18, <1>19, <1>20 DEF Becomes, Sound

\* A session whose turn is over, before it goes on.
Settled(s) ==
    /\ Core(s)
    /\ ~InFlight(s)
    /\ s.state # "idle"
    /\ s.reprompts > MaxReprompts => Closing(s)
    /\ LineFits(s)
    /\ Obeyed(s)
    /\ s.state = "speaking" => Playing(s)
    /\ s.state = "listening" => "silence" \in s.timers
    /\ s.state = "user_speaking" => s.inSpeech \/ "finalWait" \in s.timers \/ s.finals # {}
    /\ s.state = "transferring" => s.bridging \/ (Playing(s) /\ s.playback.next = "bridge")

\* resumeListening takes up what was said meanwhile, or waits.
LEMMA ResumeKeeps ==
    ASSUME NEW s \in Session, Settled(s), s.state # "thinking",
           s.failures >= MaxFailures => Closing(s)
    PROVE  /\ Becomes(s, ResumeListening(s))
           /\ ResumeListening(s).state \in {s.state, "thinking"}
           /\ Commits(s, ResumeListening(s)) \/ ResumeListening(s).state = s.state
<1> DEFINE t == ResumeListening(s)
<1>0. Bounded(s)
    BY DEF Settled, Bounded
<1>1. CASE s.state \notin {"listening", "user_speaking"}
  <2>1. t = s
      BY <1>1 DEF ResumeListening
  <2>2. Awaited(s)
      BY <1>1 DEF Settled, Awaited
  <2>3. QED
      BY <1>0, <2>1, <2>2 DEF Becomes, Settled, Sound, Keeps, FinalStays
<1>2. CASE s.state \in {"listening", "user_speaking"} /\ s.finals # {} /\ ~s.inSpeech
  <2>1. t = CommitUtterance(s)
      BY <1>2 DEF ResumeListening
  <2>2. Playing(s) => s.playback.directive = "continue"
      BY <1>2 DEF Settled, Obeyed
  <2>3. Becomes(s, CommitUtterance(s)) /\ Commits(s, CommitUtterance(s))
      BY <1>0, <1>2, <2>2, CommitKeeps DEF Settled
  <2>4. QED
      BY <2>1, <2>3 DEF Commits
<1>3. CASE s.state = "listening" /\ ~(s.finals # {} /\ ~s.inSpeech)
  <2>1. t = Arm(s, "silence")
      BY <1>3 DEF ResumeListening
  <2>2. /\ t \in Session /\ SameCall(s, t) /\ Retimes(s, t) /\ t.state = s.state
        /\ t.timers = s.timers \cup {"silence"}
      BY <2>1 DEF Arm, Session, SameCall, Retimes, Timer
  <2> HIDE DEF t
  <2>3. Core(t) /\ Keeps(s, t) /\ FinalStays(s, t)
      BY <2>2, RetimedKeeps DEF Settled, Core, SameCall
  <2>4. Sound(t) /\ Obeyed(t)
      BY <1>0, <1>3, <2>2, <2>3
         DEF Settled, Sound, Bounded, Awaited, LineFits, Obeyed, Playing, SameCall, Closing,
             Keeps, Retimes
  <2>5. QED
      BY <2>2, <2>3, <2>4 DEF Becomes, t
<1>4. CASE s.state = "user_speaking" /\ ~(s.finals # {} /\ ~s.inSpeech)
  <2>1. t = s
      BY <1>4 DEF ResumeListening
  <2>2. Awaited(s)
      BY <1>4 DEF Settled, Awaited
  <2>3. QED
      BY <1>0, <2>1, <2>2 DEF Becomes, Settled, Sound, Keeps, FinalStays
<1>5. QED
    BY <1>1, <1>2, <1>3, <1>4

\* A call that is neither handed off nor closing.
Live == {"listening", "user_speaking", "thinking", "speaking"}

\* It takes the floor, begins a turn, closes or stays as it was.
GoesOn(s, t) ==
    \/ t.state = s.state
    \/ t.state = "ending" /\ ~Closing(s)
    \/ {s.state, t.state} \subseteq Live

\* The end of afterTurn: an apology, another turn, or one failure too many.
LEMMA FailureKeeps ==
    ASSUME NEW s \in Session, Settled(s), s.failures < MaxFailures
    PROVE  /\ Becomes(s, AfterFailure(s))
           /\ GoesOn(s, AfterFailure(s))
<1> DEFINE b == [s EXCEPT !.failures = s.failures + 1]
           t == AfterFailure(s)
<1>1. s.failures + 1 \in 0 .. MaxFailures
    BY VoiceAssumption DEF Session
<1>2. b \in Session
    BY <1>1 DEF Session
<1>3. /\ b.turn = s.turn /\ b.state = s.state /\ b.timers = s.timers /\ b.playback = s.playback
      /\ b.transcript = s.transcript /\ b.tearingDown = s.tearingDown
      /\ b.inSpeech = s.inSpeech /\ b.seen = s.seen /\ b.finals = s.finals
      /\ b.superseded = s.superseded /\ b.turnIndex = s.turnIndex
      /\ b.reprompts = s.reprompts /\ b.bridging = s.bridging
    BY DEF Session
<1>4. t = IF Closing(b) THEN b
          ELSE IF b.failures >= MaxFailures THEN Goodbye(b)
          ELSE IF b.state = "thinking" THEN Play(b, PolicyLine)
          ELSE ResumeListening(b)
    BY DEF AfterFailure
<1> HIDE DEF b, t
<1>5. Keeps(s, b)
    BY <1>3 DEF Keeps, InFlight
<1>6. Delivered(b) /\ FinalStays(s, b)
    BY <1>3, <1>5, SameIsDelivered DEF Settled, Core, Keeps
<1>7. Core(b)
    BY <1>3, <1>5, <1>6 DEF Settled, Core, Keeps, InFlight, Playing, Closing
<1>8. Settled(b)
    BY <1>3, <1>7 DEF Settled, LineFits, Obeyed, InFlight, Playing, Closing
<1>9. Becomes(b, t) /\ GoesOn(b, t)
  <2>1. CASE Closing(b)
    <3>1. Sound(b)
        BY <1>8, <2>1 DEF Settled, Sound, Bounded, Awaited, Closing
    <3>2. QED
        BY <1>2, <1>4, <1>8, <2>1, <3>1 DEF Becomes, Settled, Keeps, FinalStays, Live, GoesOn
  <2>2. CASE ~Closing(b) /\ b.failures >= MaxFailures
      BY <1>2, <1>4, <1>7, <2>2, GoodbyeKeeps DEF Live, GoesOn
  <2>3. CASE ~Closing(b) /\ ~(b.failures >= MaxFailures) /\ b.state = "thinking"
    <3>1. Bounded(b)
        BY <1>8, <2>3 DEF Settled, Bounded
    <3>2. QED
        BY <1>2, <1>4, <1>7, <2>3, <3>1, PolicyKeeps DEF Live, GoesOn
  <2>4. CASE ~Closing(b) /\ ~(b.failures >= MaxFailures) /\ b.state # "thinking"
    <3>1. t = ResumeListening(b) /\ Becomes(b, t)
          /\ (Commits(b, t) \/ t.state = b.state)
        BY <1>2, <1>4, <1>8, <2>4, ResumeKeeps
    <3>2. CASE Commits(b, t)
        BY <1>2, <2>4, <3>1, <3>2 DEF Live, GoesOn, Commits, Session, State
    <3>3. QED
        BY <3>1, <3>2 DEF Live, GoesOn
  <2>5. QED
      BY <2>1, <2>2, <2>3, <2>4
<1>10. Keeps(s, t) \/ Commits(s, t)
    BY <1>3, <1>5, <1>9 DEF Becomes, Keeps, Commits, InFlight
<1>11. FinalStays(s, t)
    BY <1>6, <1>9 DEF Becomes, FinalStays
<1>12. QED
    BY <1>3, <1>9, <1>10, <1>11 DEF Becomes, Closing, Live, GoesOn, t

\* A turn that is over leaves a session that goes on.
LEMMA TurnSettles ==
    ASSUME NEW s \in Session, Sound(s), Obeyed(s), InFlight(s),
           NEW t \in Session, ~InFlight(t),
           t.state = s.state, t.inSpeech = s.inSpeech, t.seen = s.seen, t.finals = s.finals,
           t.turnIndex = s.turnIndex, t.timers = s.timers, t.playback = s.playback,
           t.reprompts = s.reprompts, t.bridging = s.bridging, t.tearingDown = s.tearingDown,
           \A n \in Turns : \/ t.transcript[n] = s.transcript[n]
                            \/ n = s.turnIndex /\ t.transcript[n] \in Heard
    PROVE  Settled(t) /\ FinalStays(s, t)
<1>1. Delivered(t) /\ FinalStays(s, t)
  <2> SUFFICES ASSUME NEW n \in Turns
               PROVE  /\ t.transcript[n] = "playing" <=> Playing(t) /\ t.playback.turn = n
                      /\ n > t.turnIndex => t.transcript[n] = "none"
                      /\ s.transcript[n] \in Heard => t.transcript[n] = s.transcript[n]
      BY DEF Delivered, FinalStays
  <2>1. CASE n = s.turnIndex
    <3>1. s.transcript[n] = "none" /\ ~(Playing(s) /\ s.playback.turn = n)
        BY <2>1 DEF Sound, Core, Delivered
    <3>2. ~(n > t.turnIndex)
        BY <2>1, IndexIsNatural
    <3>3. QED
        BY <2>1, <3>1, <3>2 DEF Heard, Playing
  <2>2. CASE n # s.turnIndex
      BY <2>2 DEF Sound, Core, Delivered, Playing
  <2>3. QED
      BY <2>1, <2>2
<1>2. Core(t)
    BY <1>1 DEF Sound, Core, Playing, Closing
<1>3. QED
    BY <1>1, <1>2 DEF Sound, Settled, Bounded, Awaited, LineFits, Obeyed, Playing, Closing

\* onSpeechEnd answers what was said, or waits for its transcript.
LEMMA SpeechEndKeeps ==
    ASSUME NEW s \in Session, Core(s), Bounded(s), LineFits(s), Obeyed(s), s.state # "idle",
           s.state = "user_speaking" \/ Awaited(s)
    PROVE  /\ Becomes(s, OnSpeechEnd(s))
           /\ OnSpeechEnd(s).state = s.state \/ Commits(s, OnSpeechEnd(s))
<1> DEFINE t == OnSpeechEnd(s)
<1>1. CASE s.state \notin {"user_speaking", "listening"}
    BY <1>1 DEF OnSpeechEnd, Becomes, Sound, Keeps, FinalStays
<1>2. CASE s.state \in {"user_speaking", "listening"} /\ s.finals # {} /\ InFlight(s)
  <2>1. t = s
      BY <1>2 DEF OnSpeechEnd, CommitUtterance
  <2>2. Awaited(s)
      BY <1>2 DEF Awaited
  <2>3. QED
      BY <2>1, <2>2 DEF Becomes, Sound, Keeps, FinalStays
<1>3. CASE s.state \in {"user_speaking", "listening"} /\ s.finals # {} /\ ~InFlight(s)
  <2>1. t = CommitUtterance(s)
      BY <1>3 DEF OnSpeechEnd
  <2>2. Playing(s) => s.playback.directive = "continue"
      BY <1>3 DEF Obeyed
  <2>3. QED
      BY <1>3, <2>1, <2>2, CommitKeeps
<1>4. CASE s.state \in {"user_speaking", "listening"} /\ s.finals = {}
  <2>1. t = Arm(s, "finalWait")
      BY <1>4 DEF OnSpeechEnd
  <2>2. /\ t \in Session /\ SameCall(s, t) /\ Retimes(s, t) /\ t.state = s.state
        /\ t.timers = s.timers \cup {"finalWait"}
      BY <2>1 DEF Arm, Session, SameCall, Retimes, Timer
  <2> HIDE DEF t
  <2>3. Core(t) /\ Keeps(s, t) /\ FinalStays(s, t)
      BY <2>2, RetimedKeeps DEF Core, SameCall
  <2>4. Sound(t) /\ Obeyed(t)
      BY <1>4, <2>2, <2>3
         DEF Sound, Bounded, Awaited, LineFits, Obeyed, Playing, SameCall, Closing, Keeps,
             Retimes
  <2>5. QED
      BY <2>2, <2>3, <2>4 DEF Becomes, t
<1>5. QED
    BY <1>1, <1>2, <1>3, <1>4

\* The code after a playback goes on: the next turn, a handoff, the end, or the floor.
LEMMA PlaybackEndKeeps ==
    ASSUME NEW s \in Session, Sound(s), Obeyed(s), Playing(s), NEW status \in Heard
    PROVE  LET settled == SettlePlayback(s, status)
               t == Await(AfterPlayback(settled, s.playback.directive), s.playback.next) IN
           /\ Becomes(s, t)
           /\ \/ GoesOn(s, t)
              \/ s.state \in Live /\ t.state = "transferring" /\ ~InFlight(s)
<1> DEFINE b == SettlePlayback(s, status)
           d == s.playback.directive
           next == s.playback.next
           t == Await(AfterPlayback(b, d), next)
<1>1. /\ b \in Session /\ SameCall(s, b) /\ b.turn = s.turn /\ b.state = s.state
      /\ b.timers = s.timers /\ b.tearingDown = s.tearingDown /\ ~Playing(b) /\ Settles(s, b)
    BY SettlePlaybackSets
<1> HIDE DEF b
<1>2. Keeps(s, b)
    BY <1>1 DEF SameCall, Keeps, InFlight
<1>3. Delivered(b) /\ FinalStays(s, b)
    BY <1>1, <1>2, SettledIsDelivered DEF Sound, Core, Keeps
<1>4. Core(b) /\ Bounded(b)
    BY <1>1, <1>2, <1>3 DEF Sound, Core, Bounded, SameCall, Keeps, Closing
<1>5. LineFits(b) /\ Obeyed(b)
    BY <1>1, <1>2 DEF LineFits, Obeyed
<1>6. d \in Directive /\ next \in {"nothing", "bridge", "end"}
    BY DEF Session, Playback, Playing
<1>7. s.state # "idle" /\ s.tearingDown = FALSE /\ s.state # "ended"
    BY DEF Sound, Awaited, Core, Session
<1>8. \A r : Becomes(b, r) => Becomes(s, r)
    BY <1>1, <1>2, <1>3, Through
<1>9. CASE s.state = "transferring"
  <2>1. AfterPlayback(b, d) = b
      BY <1>1, <1>9 DEF AfterPlayback
  <2>2. CASE next = "bridge"
    <3>1. t = [b EXCEPT !.bridging = TRUE]
        BY <1>1, <1>9, <2>1, <2>2 DEF Await, Closing
    <3>2. /\ t \in Session /\ Retimes(b, t) /\ t.state = b.state /\ t.bridging = TRUE
          /\ t.reprompts = b.reprompts
        BY <1>1, <3>1, Zenon DEF Session, Retimes
    <3> HIDE DEF t
    <3>3. Core(t) /\ Keeps(b, t) /\ FinalStays(b, t)
        BY <1>1, <1>4, <1>9, <3>2, RetimedKeeps
    <3>4. Sound(t) /\ Obeyed(t)
        BY <1>1, <1>4, <1>9, <3>2, <3>3
           DEF Sound, Bounded, Awaited, LineFits, Obeyed, Playing, Closing, Retimes
    <3>5. QED
        BY <1>1, <1>8, <3>2, <3>3, <3>4 DEF Becomes, Live, GoesOn, t, b
  <2>3. CASE next # "bridge"
    <3>1. next = "nothing"
        BY <1>6, <1>9, <2>3 DEF Sound, LineFits
    <3>2. t = b
        BY <2>1, <3>1 DEF Await
    <3>3. b.bridging
        BY <1>1, <1>9, <2>3 DEF Sound, Awaited, SameCall
    <3>4. Sound(b)
        BY <1>1, <1>4, <1>5, <1>9, <3>3 DEF Sound, Awaited
    <3>5. QED
        BY <1>1, <1>2, <1>3, <1>5, <3>2, <3>4 DEF Becomes, Live, GoesOn, t, b
  <2>4. QED
      BY <2>2, <2>3
<1>10. CASE s.state = "ending"
  <2>1. AfterPlayback(b, d) = b /\ Closing(b)
      BY <1>1, <1>10 DEF AfterPlayback, Closing
  <2>2. next \in {"nothing", "end"}
      BY <1>6, <1>10 DEF Sound, LineFits
  <2>3. CASE next = "end"
    <3>1. t = End(b)
        BY <2>1, <2>3 DEF Await
    <3>2. QED
        BY <1>1, <1>4, <1>8, <1>10, <3>1, EndKeeps DEF Live, GoesOn, b
  <2>4. CASE next = "nothing"
    <3>1. t = b
        BY <2>1, <2>4 DEF Await
    <3>2. Sound(b)
        BY <1>1, <1>4, <1>5, <1>10 DEF Sound, Awaited
    <3>3. QED
        BY <1>1, <1>2, <1>3, <1>5, <3>1, <3>2 DEF Becomes, Live, GoesOn, t, b
  <2>5. QED
      BY <2>2, <2>3, <2>4
<1>11. CASE s.state \in Live
  <2>1. next = "nothing"
      BY <1>6, <1>11 DEF Sound, LineFits, Live
  <2>2. t = AfterPlayback(b, d) /\ ~Closing(b)
      BY <1>1, <1>11, <2>1 DEF Await, Closing, Live
  <2>3. ~b.bridging /\ ~b.tearingDown
      BY <1>1, <1>4, <1>7, <1>11 DEF Core, Live
  <2>4. CASE d = "end_call"
    <3>1. t = End(b)
        BY <1>1, <1>11, <2>2, <2>4 DEF AfterPlayback, Live
    <3>2. QED
        BY <1>1, <1>4, <1>8, <1>11, <3>1, EndKeeps DEF Live, GoesOn, Closing, b
  <2>5. CASE d = "transfer"
    <3> DEFINE c == [b EXCEPT !.state = "transferring"]
               line == [PolicyLine EXCEPT !.next = "bridge"]
    <3>1. t = Play(c, line)
        BY <1>1, <1>11, <2>2, <2>5 DEF AfterPlayback, Live
    <3>2. /\ c \in Session /\ SameCall(b, c) /\ Retimes(b, c) /\ c.state = "transferring"
        BY <1>1 DEF Session, State, SameCall, Retimes
    <3> HIDE DEF c
    <3>3. line \in Playback /\ line.turn = 0 /\ line.directive = "continue"
          /\ line.next = "bridge"
        BY LinesAre DEF PolicyLine
    <3> HIDE DEF line
    <3>4. /\ t \in Session /\ SameCall(c, t) /\ t.turn = c.turn
          /\ t.tearingDown = c.tearingDown /\ t.state = "transferring" /\ t.playback = line
          /\ Replaces(c, t, line)
        BY <3>1, <3>2, <3>3, PlaySets
    <3> HIDE DEF t
    <3>5. Keeps(b, c) /\ Keeps(b, t)
        BY <3>2, <3>4 DEF SameCall, Retimes, Keeps, InFlight
    <3>6. Core(c) /\ FinalStays(b, c)
        BY <1>4, <2>2, <2>3, <3>2, RetimedKeeps DEF Closing
    <3>7. line # Silence /\ 0 \notin Turns
        BY <3>3, Absence
    <3>8. Delivered(t) /\ FinalStays(c, t)
        BY <3>3, <3>4, <3>5, <3>6, <3>7, ReplacedIsDelivered DEF Core, Keeps
    <3>9. Core(t)
        BY <1>4, <2>3, <3>2, <3>4, <3>5, <3>8
           DEF Core, SameCall, Retimes, Keeps, InFlight, Closing
    <3>10. Bounded(t)
        BY <1>4, <2>2, <3>2, <3>4 DEF Bounded, SameCall
    <3>11. Sound(t) /\ Obeyed(t)
        BY <3>3, <3>4, <3>7, <3>9, <3>10
           DEF Sound, Awaited, LineFits, Obeyed, Closing, Playing
    <3>12. ~InFlight(s)
        BY <2>5 DEF Obeyed
    <3>13. QED
        BY <1>8, <1>11, <3>4, <3>5, <3>6, <3>8, <3>11, <3>12
           DEF Becomes, FinalStays, t, b
  <2>6. CASE d = "continue"
    <3> DEFINE c == Floor(b)
    <3>1. /\ c \in Session /\ SameCall(b, c) /\ Retimes(b, c)
          /\ c.state = (IF b.inSpeech THEN "user_speaking" ELSE "listening")
        BY <1>1 DEF Floor, Session, State, SameCall, Retimes
    <3>2. t = IF b.finals # {} /\ ~b.inSpeech /\ ~InFlight(b) THEN CommitUtterance(c)
              ELSE IF b.inSpeech THEN c ELSE Arm(c, "silence")
        BY <1>1, <1>11, <2>2, <2>6 DEF AfterPlayback, Live
    <3> HIDE DEF c, t
    <3>3. Core(c) /\ Keeps(b, c) /\ FinalStays(b, c)
        BY <1>4, <2>2, <2>3, <3>1, RetimedKeeps DEF Closing, SameCall
    <3>4. Bounded(c) /\ LineFits(c) /\ ~Playing(c)
        BY <1>1, <1>4, <1>5, <2>2, <3>1 DEF Bounded, LineFits, SameCall, Retimes, Playing
    <3>5. \A r : Becomes(c, r) => Becomes(b, r)
        BY <1>1, <1>11, <3>3, Through DEF Live
    <3>6. CASE b.finals # {} /\ ~b.inSpeech /\ ~InFlight(b)
      <4>1. c.finals # {} /\ c.state = "listening" /\ ~InFlight(c)
          BY <3>1, <3>3, <3>6 DEF SameCall, Keeps
      <4>2. Becomes(c, CommitUtterance(c)) /\ Commits(c, CommitUtterance(c))
          BY <3>1, <3>3, <3>4, <4>1, CommitKeeps
      <4>3. t.state = "thinking"
          BY <3>2, <3>6, <4>2 DEF Commits
      <4>4. QED
          BY <1>8, <1>11, <3>2, <3>5, <3>6, <4>2, <4>3 DEF Live, GoesOn, t, b
    <3>7. CASE ~(b.finals # {} /\ ~b.inSpeech /\ ~InFlight(b)) /\ b.inSpeech
      <4>1. t = c /\ c.state = "user_speaking" /\ c.inSpeech
          BY <3>1, <3>2, <3>7 DEF SameCall
      <4>2. Sound(c) /\ Obeyed(c)
          BY <3>3, <3>4, <4>1 DEF Sound, Awaited, Obeyed
      <4>3. QED
          BY <1>8, <1>11, <3>1, <3>3, <4>1, <4>2 DEF Becomes, Live, GoesOn, t, b
    <3>8. CASE ~(b.finals # {} /\ ~b.inSpeech /\ ~InFlight(b)) /\ ~b.inSpeech
      <4>1. t = Arm(c, "silence") /\ c.state = "listening"
          BY <3>1, <3>2, <3>8
      <4>2. /\ t \in Session /\ SameCall(c, t) /\ Retimes(c, t) /\ t.state = "listening"
            /\ t.timers = c.timers \cup {"silence"}
          BY <3>1, <4>1 DEF Arm, Session, SameCall, Retimes, Timer
      <4>3. Core(t) /\ Keeps(c, t) /\ FinalStays(c, t)
          BY <3>3, <4>1, <4>2, RetimedKeeps DEF Core, SameCall
      <4>4. Sound(t) /\ Obeyed(t)
          BY <3>4, <4>1, <4>2, <4>3
             DEF Sound, Bounded, Awaited, LineFits, Obeyed, Playing, SameCall, Retimes, Closing
      <4>5. QED
          BY <1>8, <1>11, <3>5, <4>2, <4>3, <4>4 DEF Becomes, Live, GoesOn, t, b
    <3>9. QED
        BY <3>6, <3>7, <3>8
  <2>7. QED
      BY <1>6, <2>4, <2>5, <2>6 DEF Directive
<1>12. QED
    BY <1>1, <1>7, <1>9, <1>10, <1>11 DEF Session, State, Live

-------------------------------------------------------------------------------
(* The events of the engine in the process but those that settle a turn.    *)

\* From state to state: a start, a handoff and its failure, and the end, besides what a
\* live call does.  A handoff that is exclusive waits for the turn in flight.
Leads(exclusive, s, t) ==
    \/ GoesOn(s, t)
    \/ s.state = "idle" /\ t.state \in Live
    \/ s.state = "transferring" /\ t.state \in Live
    \/ s.state \in Live /\ t.state = "transferring" /\ (exclusive => ~InFlight(s))
    \/ s.state = "ending" /\ t.state = "ended" /\ ~InFlight(s)

\* No word is heard, and no turn settles.
Quiet(s, t) == Becomes(s, t) /\ Leads(TRUE, s, t)

\* What sets timers, the floor or the counts leaves a session as sound as it was, but for
\* what is awaited.
LEMMA RetimedIsSound ==
    ASSUME NEW s, NEW t, Sound(s), Retimes(s, t), t.state = s.state, t.bridging = s.bridging,
           t.reprompts = s.reprompts
    PROVE  /\ Core(t) /\ Bounded(t) /\ LineFits(t)
           /\ Keeps(s, t) /\ FinalStays(s, t)
<1>1. Core(t) /\ Keeps(s, t) /\ FinalStays(s, t)
    BY RetimedKeeps DEF Sound, Core
<1>2. Bounded(t) /\ LineFits(t)
    BY DEF Sound, Bounded, LineFits, Retimes, Playing, Closing
<1>3. QED
    BY <1>1, <1>2

\* start() greets.
LEMMA StartIsQuiet ==
    ASSUME session \in Session, Sound(session), Start
    PROVE  Quiet(session, session')
<1> DEFINE b == Arm(session, "maxDuration")
<1>1. session' = Play(b, PolicyLine) /\ session.state = "idle"
    BY DEF Start, Step
<1>2. /\ b \in Session /\ Retimes(session, b) /\ b.state = session.state
      /\ b.bridging = session.bridging /\ b.reprompts = session.reprompts
    BY DEF Arm, Session, Timer, Retimes
<1> HIDE DEF b
<1>3. /\ Core(b) /\ Bounded(b) /\ Keeps(session, b) /\ FinalStays(session, b)
    BY <1>2, RetimedIsSound
<1>4. Becomes(b, session') /\ session'.state = "speaking"
    BY <1>1, <1>2, <1>3, PolicyKeeps
<1>5. Becomes(session, session')
    BY <1>2, <1>3, <1>4, Through
<1>6. QED
    BY <1>1, <1>4, <1>5 DEF Quiet, Leads, Live

\* end() closes.
LEMMA EndIsQuiet ==
    ASSUME session \in Session, Sound(session), EndSession
    PROVE  Quiet(session, session')
<1>1. session' = End(session) /\ ~session.tearingDown
    BY DEF EndSession, Step
<1>2. Becomes(session, session')
      /\ session'.state = IF session.state = "ended" THEN "ended" ELSE "ending"
    BY <1>1, EndKeeps DEF Sound
<1>3. session.state # "ended"
    BY <1>1 DEF Sound, Core
<1>4. QED
    BY <1>2, <1>3 DEF Quiet, Leads, GoesOn, Closing

\* The caller takes the floor of a session that listens.
LEMMA SpeechStartIsQuiet ==
    ASSUME session \in Session, Sound(session), Obeyed(session), SpeechStarts
    PROVE  Quiet(session, session')
<1> DEFINE s == session
           t == session'
           floor == IF s.state = "listening" THEN "user_speaking" ELSE s.state
           rest == s.timers \ {"silence", "finalGrace"}
<1>1. /\ t = [Clear(s, {"silence", "finalGrace"}) EXCEPT !.inSpeech = TRUE, !.state = floor]
      /\ Open(s)
    BY DEF SpeechStarts, Step, Clear, Session
<1>2. floor \in State /\ rest \subseteq Timer
    BY DEF Session, State
<1>3. /\ t \in Session /\ Retimes(s, t) /\ t.state = floor /\ t.timers = rest
      /\ t.inSpeech = TRUE /\ t.bridging = s.bridging /\ t.reprompts = s.reprompts
    BY <1>1, <1>2, Zenon DEF Clear, Session, Retimes
<1> HIDE DEF t, rest
<1>4. Core(t) /\ Keeps(s, t) /\ FinalStays(s, t)
  <2>1. ~Closing(s) /\ ~Closing(t) /\ (t.bridging => t.state \in {"transferring", "ending", "ended"})
      BY <1>1, <1>3 DEF Sound, Core, Open, Closing
  <2>2. QED
      BY <1>3, <2>1, RetimedKeeps DEF Sound
<1>5. Bounded(t) /\ LineFits(t)
    BY <1>1, <1>3 DEF Sound, Bounded, LineFits, Retimes, Playing, Closing
<1>6. Awaited(t)
    BY <1>1, <1>3 DEF rest, Sound, Awaited, Retimes, Playing, InFlight, Open
<1>7. Obeyed(t)
    BY <1>1, <1>3 DEF rest, Obeyed, Retimes, Playing, InFlight
<1>8. Becomes(s, t)
    BY <1>3, <1>4, <1>5, <1>6, <1>7 DEF Becomes, Sound
<1>9. QED
    BY <1>3, <1>8 DEF Quiet, Leads, GoesOn, Live, t

\* A barge-in gives the floor to the caller, whether it cuts a line or aborts the turn.
LEMMA BargeInIsQuiet ==
    ASSUME session \in Session, Sound(session), Obeyed(session), BargeIn
    PROVE  Quiet(session, session')
<1> DEFINE s == session
           t == session'
<1>1. s.inSpeech /\ 0 \in 0 .. MaxReprompts + 1 /\ ~(0 > MaxReprompts)
    BY VoiceAssumption DEF BargeIn
<1>2. CASE s.state = "speaking" /\ t = [SettlePlayback(s, "interrupted") EXCEPT
                                           !.reprompts = 0, !.state = "user_speaking"]
  <2> DEFINE b == SettlePlayback(s, "interrupted")
  <2>1. /\ b \in Session /\ SameCall(s, b) /\ b.turn = s.turn /\ b.timers = s.timers
        /\ b.tearingDown = s.tearingDown /\ ~Playing(b) /\ Settles(s, b)
      BY SettlePlaybackSets DEF Heard
  <2>2. t = [b EXCEPT !.reprompts = 0, !.state = "user_speaking"]
      BY <1>2
  <2> HIDE DEF b
  <2>3. /\ t \in Session /\ t.state = "user_speaking" /\ t.turn = b.turn
        /\ t.reprompts = 0 /\ t.inSpeech = b.inSpeech /\ t.seen = b.seen
        /\ t.finals = b.finals /\ t.superseded = b.superseded /\ t.turnIndex = b.turnIndex
        /\ t.failures = b.failures /\ t.bridging = b.bridging
        /\ t.tearingDown = b.tearingDown /\ t.timers = b.timers
        /\ t.playback = b.playback /\ t.transcript = b.transcript
      BY <1>1, <2>1, <2>2, Zenon DEF Session, State
  <2>4. Keeps(s, t)
      BY <2>1, <2>3 DEF SameCall, Keeps, InFlight
  <2>5. ~Playing(t) /\ Settles(s, t)
      BY <2>1, <2>3 DEF Playing, Settles
  <2>6. Delivered(t) /\ FinalStays(s, t)
      BY <2>4, <2>5, SettledIsDelivered DEF Sound, Core, Keeps
  <2>7. Core(t)
      BY <1>2, <2>1, <2>3, <2>4, <2>6
         DEF Sound, Core, SameCall, Keeps, InFlight, Closing
  <2>8. Bounded(t)
      BY <1>1, <1>2, <2>1, <2>3 DEF Sound, Bounded, SameCall, Closing
  <2>9. Awaited(t) /\ LineFits(t) /\ Obeyed(t)
      BY <1>1, <2>1, <2>3, <2>5 DEF Awaited, LineFits, Obeyed, SameCall
  <2>10. QED
      BY <1>2, <2>3, <2>4, <2>6, <2>7, <2>8, <2>9
         DEF Becomes, Sound, Quiet, Leads, GoesOn, Live
<1>3. CASE s.state = "thinking" /\ t = [Abort(s) EXCEPT !.state = "user_speaking"]
  <2> DEFINE b == Abort(s)
  <2>1. /\ b \in Session /\ SameCall(s, b) /\ Keeps(s, b)
        /\ InFlight(s) => b.turn.number = s.turn.number
        /\ b.timers = s.timers /\ b.tearingDown = s.tearingDown
        /\ b.playback = s.playback /\ b.transcript = s.transcript
      BY AbortSets
  <2>2. t = [b EXCEPT !.state = "user_speaking"]
      BY <1>3
  <2> HIDE DEF b
  <2>3. /\ t \in Session /\ SameCall(b, t) /\ t.state = "user_speaking" /\ t.turn = b.turn
        /\ t.tearingDown = b.tearingDown /\ t.timers = b.timers
        /\ t.playback = b.playback /\ t.transcript = b.transcript
      BY <2>1, <2>2 DEF Session, State, SameCall
  <2>4. Keeps(s, t) /\ SameCall(s, t)
      BY <2>1, <2>3 DEF SameCall, Keeps, InFlight
  <2>5. Delivered(t) /\ FinalStays(s, t)
      BY <2>1, <2>3, <2>4, SameIsDelivered DEF Sound, Core, Keeps
  <2>6. Core(t)
      BY <1>3, <2>1, <2>3, <2>4, <2>5
         DEF Sound, Core, SameCall, Keeps, InFlight, Closing
  <2>7. Bounded(t)
      BY <1>3, <2>3, <2>4 DEF Sound, Bounded, SameCall, Closing
  <2>8. Awaited(t) /\ LineFits(t) /\ Obeyed(t)
      BY ZenonT(60), <1>1, <1>3, <2>1, <2>3, <2>4
         DEF Sound, Awaited, LineFits, Obeyed, SameCall, Playing
  <2>9. QED
      BY <1>3, <2>3, <2>4, <2>5, <2>6, <2>7, <2>8
         DEF Becomes, Sound, Quiet, Leads, GoesOn, Live
<1>4. QED
    BY <1>2, <1>3 DEF BargeIn, Step

\* An utterance that is over is answered, or waited for.
LEMMA SpeechEndIsQuiet ==
    ASSUME session \in Session, Sound(session), Obeyed(session), SpeechEnds \/ SttEndpoint
    PROVE  Quiet(session, session')
<1> DEFINE s == session
           t == session'
           b == [s EXCEPT !.inSpeech = FALSE]
<1>1. s.state # "idle"
    BY DEF SpeechEnds, SttEndpoint, Open
<1>2. /\ b \in Session /\ Retimes(s, b) /\ b.state = s.state /\ b.bridging = s.bridging
      /\ b.reprompts = s.reprompts /\ b.inSpeech = FALSE /\ b.timers = s.timers
    BY Zenon DEF Session, Retimes
<1>3. t \in {OnSpeechEnd(b), OnSpeechEnd(s)}
    BY DEF SpeechEnds, SttEndpoint, Step
<1> HIDE DEF b
<1>4. Core(b) /\ Bounded(b) /\ LineFits(b) /\ Keeps(s, b) /\ FinalStays(s, b)
    BY <1>2, RetimedIsSound
<1>5. b.state = "user_speaking" \/ Awaited(b)
    BY <1>1, <1>2 DEF Sound, Awaited, Retimes, Playing, InFlight
<1>6. Obeyed(b)
    BY <1>2 DEF Obeyed, Retimes, Playing, InFlight
<1>7. /\ Becomes(b, OnSpeechEnd(b))
      /\ OnSpeechEnd(b).state = b.state \/ Commits(b, OnSpeechEnd(b))
    BY <1>1, <1>2, <1>4, <1>5, <1>6, SpeechEndKeeps
<1>8. /\ Becomes(s, OnSpeechEnd(s))
      /\ OnSpeechEnd(s).state = s.state \/ Commits(s, OnSpeechEnd(s))
    BY <1>1, SpeechEndKeeps DEF Sound
<1>9. Becomes(s, OnSpeechEnd(b))
    BY <1>2, <1>4, <1>7, Through
<1>10. Becomes(s, t) /\ (t.state = s.state \/ (t.state = "thinking" /\ s.state \in Live))
    BY <1>2, <1>3, <1>7, <1>8, <1>9 DEF Commits, Session, State, Live
<1>11. QED
    BY <1>10 DEF Quiet, Leads, GoesOn, Live

\* The utterance of a final is new, and is held before it begins a turn.
Hears(s, u) == [s EXCEPT !.seen = s.seen \cup {u}, !.finals = s.finals \cup {u}]

\* It is no less sound a session that holds it.
LEMMA HeardIsSound ==
    ASSUME NEW s \in Session, Sound(s), Obeyed(s), NEW u \in Utterances, u \notin s.seen
    PROVE  LET b == Hears(s, u) IN
           /\ b \in Session /\ Sound(b) /\ Obeyed(b) /\ FinalStays(s, b)
           /\ b.seen = s.seen \cup {u} /\ b.finals = s.finals \cup {u}
           /\ b.superseded = s.superseded /\ b.turnIndex = s.turnIndex /\ b.turn = s.turn
           /\ b.state = s.state /\ b.inSpeech = s.inSpeech /\ b.timers = s.timers
<1> DEFINE b == Hears(s, u)
<1>1. /\ b \in Session
      /\ b.seen = s.seen \cup {u} /\ b.finals = s.finals \cup {u}
      /\ b.superseded = s.superseded /\ b.turnIndex = s.turnIndex /\ b.turn = s.turn
      /\ b.state = s.state /\ b.inSpeech = s.inSpeech /\ b.timers = s.timers
      /\ b.playback = s.playback /\ b.transcript = s.transcript
      /\ b.reprompts = s.reprompts /\ b.failures = s.failures
      /\ b.bridging = s.bridging /\ b.tearingDown = s.tearingDown
    BY Zenon DEF Hears, Session
<1> HIDE DEF b
<1>2. b.seen \ b.finals = s.seen \ s.finals /\ b.finals \subseteq b.seen
    BY <1>1 DEF Sound, Core
<1>3. Delivered(b) /\ FinalStays(s, b)
    BY <1>1, SameIsDelivered DEF Sound, Core, InFlight
<1>4. Core(b)
    BY <1>1, <1>2, <1>3 DEF Sound, Core, InFlight, Playing, Closing
<1>5. Bounded(b) /\ LineFits(b) /\ Obeyed(b)
    BY <1>1 DEF Sound, Bounded, LineFits, Obeyed, InFlight, Playing, Closing
<1>6. Awaited(b)
    BY <1>1 DEF Sound, Awaited, InFlight, Playing
<1>7. QED
    BY <1>1, <1>3, <1>4, <1>5, <1>6 DEF Sound, b

\* A session that clears timers, and is awaited still.
LEMMA ClearedIs ==
    ASSUME NEW s \in Session, Sound(s), Obeyed(s), NEW gone
    PROVE  LET b == Clear(s, gone) IN
           /\ b \in Session /\ SameCall(s, b) /\ Retimes(s, b) /\ b.state = s.state
           /\ b.timers = s.timers \ gone
           /\ Core(b) /\ Bounded(b) /\ LineFits(b) /\ Keeps(s, b) /\ FinalStays(s, b)
           /\ Obeyed(b)
<1> DEFINE b == Clear(s, gone)
<1>1. /\ b \in Session /\ SameCall(s, b) /\ Retimes(s, b) /\ b.state = s.state
      /\ b.timers = s.timers \ gone
    BY DEF Clear, Session, SameCall, Retimes
<1> HIDE DEF b
<1>2. Core(b) /\ Bounded(b) /\ LineFits(b) /\ Keeps(s, b) /\ FinalStays(s, b)
    BY <1>1, RetimedIsSound DEF SameCall
<1>3. Obeyed(b)
    BY <1>1 DEF Obeyed, Retimes, InFlight, Playing
<1>4. QED
    BY <1>1, <1>2, <1>3 DEF b

\* commitUtterance of a session whose final waited for nothing but a timer.
LEMMA LateCommitKeeps ==
    ASSUME NEW s \in Session, Core(s), Bounded(s), LineFits(s), Obeyed(s), s.finals # {},
           s.state # "idle", s.state # "thinking" \/ InFlight(s),
           Playing(s) => s.playback.directive = "continue",
           InFlight(s) \/ Closing(s) \/ s.state = "transferring" => Awaited(s)
    PROVE  /\ Becomes(s, CommitUtterance(s))
           /\ CommitUtterance(s).state = s.state \/ Commits(s, CommitUtterance(s))
<1>1. CASE Closing(s) \/ s.state = "transferring" \/ InFlight(s)
  <2>1. CommitUtterance(s) = s
      BY <1>1 DEF CommitUtterance
  <2>2. QED
      BY <1>1, <2>1 DEF Becomes, Sound, Keeps, FinalStays
<1>2. CASE ~(Closing(s) \/ s.state = "transferring" \/ InFlight(s))
    BY <1>2, CommitKeeps DEF Closing
<1>3. QED
    BY <1>1, <1>2

\* A final is answered at once if the caller was known to be silent.
LEMMA FinalKeeps ==
    ASSUME NEW s \in Session, Sound(s), Obeyed(s), Open(s), s.finals # {}
    PROVE  /\ Becomes(s, OnFinal(s))
           /\ OnFinal(s).state = s.state \/ Commits(s, OnFinal(s))
<1> DEFINE t == OnFinal(s)
<1>1. CASE s.state \in {"thinking", "speaking", "transferring"}
    BY <1>1 DEF OnFinal, Becomes, Keeps, FinalStays
<1>2. CASE s.state \notin {"thinking", "speaking", "transferring"} /\ "finalWait" \in s.timers
  <2> DEFINE b == Clear(s, {"finalWait"})
  <2>1. t = CommitUtterance(b)
      BY <1>2 DEF OnFinal
  <2>2. /\ b \in Session /\ SameCall(s, b) /\ Retimes(s, b) /\ b.state = s.state
        /\ b.timers = s.timers \ {"finalWait"}
        /\ Core(b) /\ Bounded(b) /\ LineFits(b) /\ Keeps(s, b) /\ FinalStays(s, b)
        /\ Obeyed(b)
      BY ClearedIs
  <2> HIDE DEF b
  <2>3. Playing(b) => b.playback.directive = "continue"
      BY <1>2, <2>2 DEF Obeyed, Playing, Retimes
  <2>4. InFlight(b) => Awaited(b)
      BY <1>2, <2>2 DEF Sound, Awaited, SameCall, Retimes, InFlight, Playing
  <2>5. b.finals # {} /\ Open(b)
      BY <2>2 DEF SameCall, Open, Closing
  <2>6. /\ Becomes(b, t)
        /\ t.state = b.state \/ Commits(b, t)
      BY <1>2, <2>1, <2>2, <2>3, <2>4, <2>5, LateCommitKeeps DEF Open
  <2>7. Becomes(s, t)
      BY <2>2, <2>6, Through
  <2>8. Commits(b, t) => Commits(s, t)
      BY <2>2 DEF Commits, Keeps
  <2>9. QED
      BY <2>2, <2>6, <2>7, <2>8
<1>3. CASE /\ s.state \notin {"thinking", "speaking", "transferring"}
           /\ "finalWait" \notin s.timers /\ ~s.inSpeech
  <2>1. t = Arm(s, "finalGrace")
      BY <1>3 DEF OnFinal
  <2>2. /\ t \in Session /\ SameCall(s, t) /\ Retimes(s, t) /\ t.state = s.state
        /\ t.timers = s.timers \cup {"finalGrace"}
      BY <2>1 DEF Arm, Session, SameCall, Retimes, Timer
  <2> HIDE DEF t
  <2>3. Core(t) /\ Bounded(t) /\ LineFits(t) /\ Keeps(s, t) /\ FinalStays(s, t)
      BY <2>2, RetimedIsSound DEF SameCall
  <2>4. Awaited(t) /\ Obeyed(t)
      BY <1>3, <2>2 DEF Sound, Awaited, Obeyed, SameCall, Retimes, InFlight, Playing, Open
  <2>5. QED
      BY <2>2, <2>3, <2>4 DEF Becomes, Sound, t
<1>4. CASE /\ s.state \notin {"thinking", "speaking", "transferring"}
           /\ "finalWait" \notin s.timers /\ s.inSpeech
    BY <1>4 DEF OnFinal, Becomes, Keeps, FinalStays
<1>5. QED
    BY <1>1, <1>2, <1>3, <1>4

\* A recognizer that fails is opened again, or the session says goodbye.
LEMMA SttFailureIsQuiet ==
    ASSUME session \in Session, Sound(session), Obeyed(session), SttFails
    PROVE  Quiet(session, session')
<1> DEFINE s == session
           t == session'
<1>1. CASE s.reconnects < MaxSttReconnects /\ t = [s EXCEPT !.reconnects = s.reconnects + 1]
  <2>1. s.reconnects + 1 \in 0 .. MaxSttReconnects
      BY <1>1, VoiceAssumption DEF Session
  <2>2. /\ t \in Session /\ SameCall(s, t) /\ Retimes(s, t) /\ t.state = s.state
        /\ t.timers = s.timers
      BY <1>1, <2>1 DEF Session, SameCall, Retimes
  <2> HIDE DEF t
  <2>3. Core(t) /\ Bounded(t) /\ LineFits(t) /\ Keeps(s, t) /\ FinalStays(s, t)
      BY <2>2, RetimedIsSound DEF SameCall
  <2>4. Awaited(t) /\ Obeyed(t)
      BY <2>2 DEF Sound, Awaited, Obeyed, SameCall, Retimes, InFlight, Playing
  <2>5. QED
      BY <2>2, <2>3, <2>4 DEF Becomes, Sound, Quiet, Leads, GoesOn, t
<1>2. CASE t = Goodbye(s) /\ Open(s)
    BY <1>2, GoodbyeKeeps DEF Sound, Open, Quiet, Leads, GoesOn
<1>3. QED
    BY <1>1, <1>2 DEF SttFails, Step

\* The timers of an utterance.
LEMMA WaitIsQuiet ==
    ASSUME session \in Session, Sound(session), Obeyed(session),
           FinalWaitFires \/ FinalGraceFires
    PROVE  Quiet(session, session')
<1> DEFINE s == session
           t == session'
<1>1. s.timers \cap Waits # {} /\ s.state # "idle"
    BY DEF FinalWaitFires, FinalGraceFires, Fires, Waits, Sound, Awaited
<1>2. Playing(s) => s.playback.directive = "continue"
    BY <1>1 DEF Obeyed
<1>3. s.state # "thinking"
    BY <1>1 DEF Obeyed
<1>4. ASSUME NEW gone \in {{"finalWait"}, {"finalGrace"}}, Clear(s, gone).finals # {},
             t = CommitUtterance(Clear(s, gone))
      PROVE  Quiet(s, t)
  <2> DEFINE b == Clear(s, gone)
  <2>1. /\ b \in Session /\ SameCall(s, b) /\ Retimes(s, b) /\ b.state = s.state
        /\ b.timers = s.timers \ gone
        /\ Core(b) /\ Bounded(b) /\ LineFits(b) /\ Keeps(s, b) /\ FinalStays(s, b)
        /\ Obeyed(b)
      BY ClearedIs
  <2>2. t = CommitUtterance(b) /\ b.finals # {}
      BY <1>4
  <2> HIDE DEF b
  <2>3. Playing(b) => b.playback.directive = "continue"
      BY <1>2, <2>1 DEF Playing, Retimes
  <2>4. InFlight(b) \/ Closing(b) \/ b.state = "transferring" => Awaited(b)
      BY <1>4, <2>1, <2>2
         DEF Sound, Awaited, SameCall, Retimes, InFlight, Playing, Closing
  <2>5. /\ Becomes(b, t)
        /\ t.state = b.state \/ Commits(b, t)
      BY <1>1, <1>3, <2>1, <2>2, <2>3, <2>4, LateCommitKeeps
  <2>6. Becomes(s, t)
      BY <2>1, <2>5, Through
  <2>7. t.state = s.state \/ (t.state = "thinking" /\ s.state \in Live)
      BY <2>1, <2>5 DEF Commits, Session, State, Live
  <2>8. QED
      BY <2>6, <2>7 DEF Quiet, Leads, GoesOn, Live
<1>5. ASSUME NEW gone \in {{"finalWait"}, {"finalGrace"}}, t = Clear(s, gone),
             gone = {"finalWait"} => t.finals = {} /\ t.state # "user_speaking"
      PROVE  Quiet(s, t)
  <2>1. /\ t \in Session /\ SameCall(s, t) /\ Retimes(s, t) /\ t.state = s.state
        /\ t.timers = s.timers \ gone
        /\ Core(t) /\ Bounded(t) /\ LineFits(t) /\ Keeps(s, t) /\ FinalStays(s, t)
        /\ Obeyed(t)
      BY <1>5, ClearedIs
  <2>2. Awaited(t)
      BY <1>1, <1>5, <2>1 DEF Sound, Awaited, SameCall, Retimes, InFlight, Playing
  <2>3. QED
      BY <2>1, <2>2 DEF Becomes, Sound, Quiet, Leads, GoesOn
<1>6. CASE FinalWaitFires
  <2> DEFINE b == Clear(s, {"finalWait"})
  <2>1. t = IF b.finals # {} THEN CommitUtterance(b)
            ELSE IF b.state = "user_speaking"
            THEN Arm([b EXCEPT !.state = "listening"], "silence")
            ELSE b
      BY <1>6 DEF FinalWaitFires, Fires, Step
  <2>2. CASE b.finals # {}
      BY <1>4, <2>1, <2>2
  <2>3. CASE b.finals = {} /\ b.state # "user_speaking"
      BY <1>5, <2>1, <2>3
  <2>4. CASE b.finals = {} /\ b.state = "user_speaking"
    <3>1. /\ b \in Session /\ SameCall(s, b) /\ Retimes(s, b) /\ b.state = s.state
          /\ b.timers = s.timers \ {"finalWait"}
          /\ Core(b) /\ Bounded(b) /\ LineFits(b) /\ Keeps(s, b) /\ FinalStays(s, b)
          /\ Obeyed(b)
        BY ClearedIs
    <3>2. t = Arm([b EXCEPT !.state = "listening"], "silence") /\ b.state = "user_speaking"
        BY <2>1, <2>4
    <3> HIDE DEF b
    <3>3. /\ t \in Session /\ SameCall(b, t) /\ Retimes(b, t) /\ t.state = "listening"
          /\ t.timers = b.timers \cup {"silence"}
        BY <3>1, <3>2, Zenon DEF Arm, Session, State, Timer, SameCall, Retimes
    <3> HIDE DEF t
    <3>4. Core(t) /\ Keeps(b, t) /\ FinalStays(b, t)
      <4>1. ~b.bridging /\ ~Closing(b) /\ ~Closing(t) /\ t.bridging = b.bridging
          BY <3>1, <3>2, <3>3 DEF Core, Closing, SameCall
      <4>2. QED
          BY <3>1, <3>3, <4>1, RetimedKeeps
    <3>5. Bounded(t) /\ LineFits(t)
        BY <3>1, <3>2, <3>3
           DEF Bounded, LineFits, SameCall, Retimes, Playing, Closing
    <3>6. Awaited(t) /\ Obeyed(t)
        BY <3>1, <3>2, <3>3 DEF Awaited, Obeyed, SameCall, Retimes, Playing, InFlight
    <3>7. Becomes(s, t)
        BY <3>1, <3>3, <3>4, <3>5, <3>6, Through DEF Becomes, Sound
    <3>8. QED
        BY <3>1, <3>2, <3>3, <3>7 DEF Quiet, Leads, GoesOn, Live, t
  <2>5. QED
      BY <2>2, <2>3, <2>4
<1>7. CASE FinalGraceFires
  <2> DEFINE b == Clear(s, {"finalGrace"})
  <2>1. t = IF ~b.inSpeech /\ b.finals # {} THEN CommitUtterance(b) ELSE b
      BY <1>7 DEF FinalGraceFires, Fires, Step
  <2>2. {"finalGrace"} # {"finalWait"}
      BY "finalGrace" # "finalWait"
  <2>3. QED
      BY <1>4, <1>5, <2>1, <2>2
<1>8. QED
    BY <1>6, <1>7

\* The timers of the silence and of the call.
LEMMA CeilingIsQuiet ==
    ASSUME session \in Session, Sound(session), Obeyed(session),
           SilenceFires \/ MaxDurationFires
    PROVE  Quiet(session, session')
<1> DEFINE s == session
           t == session'
<1>1. CASE SilenceFires
  <2> DEFINE b == Clear(s, {"silence"})
             c == [b EXCEPT !.reprompts = b.reprompts + 1]
  <2>1. t = IF b.state # "listening" THEN b
            ELSE IF c.reprompts > MaxReprompts THEN Goodbye(c)
            ELSE Play(c, PolicyLine)
      BY <1>1 DEF SilenceFires, Fires, Step
  <2>2. /\ b \in Session /\ SameCall(s, b) /\ Retimes(s, b) /\ b.state = s.state
        /\ b.timers = s.timers \ {"silence"}
        /\ Core(b) /\ Bounded(b) /\ LineFits(b) /\ Keeps(s, b) /\ FinalStays(s, b)
        /\ Obeyed(b)
      BY ClearedIs
  <2>3. s.state # "idle"
      BY <1>1 DEF SilenceFires, Fires, Sound, Awaited
  <2> HIDE DEF b
  <2>4. CASE b.state # "listening"
    <3>1. t = b
        BY <2>1, <2>4
    <3>2. Awaited(b)
        BY <2>2, <2>3, <2>4 DEF Sound, Awaited, SameCall, Retimes, InFlight, Playing
    <3>3. QED
        BY <2>2, <3>1, <3>2 DEF Becomes, Sound, Quiet, Leads, GoesOn
  <2>5. CASE b.state = "listening"
    <3>1. b.reprompts \in 0 .. MaxReprompts
        BY <2>2, <2>5, VoiceAssumption DEF Session, Bounded, Closing
    <3>2. b.reprompts + 1 \in 0 .. MaxReprompts + 1
        BY <3>1, VoiceAssumption
    <3>3. /\ c \in Session /\ Retimes(b, c) /\ c.state = "listening"
          /\ c.reprompts = b.reprompts + 1 /\ c.bridging = b.bridging
          /\ c.failures = b.failures
        BY <2>2, <2>5, <3>2 DEF Session, Retimes
    <3>4. t = IF c.reprompts > MaxReprompts THEN Goodbye(c) ELSE Play(c, PolicyLine)
        BY <2>1, <2>5
    <3> HIDE DEF c
    <3>5. Core(c) /\ Keeps(b, c) /\ FinalStays(b, c)
        BY <2>2, <2>5, <3>3, RetimedKeeps, Zenon DEF Core, Closing
    <3>6. ~Closing(c)
        BY <3>3 DEF Closing
    <3>7. Becomes(c, t) /\ t.state \in {"ending", "speaking"}
      <4>1. CASE c.reprompts > MaxReprompts
          BY <3>3, <3>4, <3>5, <3>6, <4>1, GoodbyeKeeps
      <4>2. CASE ~(c.reprompts > MaxReprompts)
        <5>1. Bounded(c)
            BY <2>2, <2>5, <3>3, <4>2 DEF Bounded, Closing
        <5>2. QED
            BY <3>3, <3>4, <3>5, <4>2, <5>1, PolicyKeeps
      <4>3. QED
          BY <4>1, <4>2
    <3>8. Becomes(b, t)
        BY <2>5, <3>3, <3>5, <3>7, Through
    <3>9. Becomes(s, t)
        BY <2>2, <3>8, Through
    <3>10. QED
        BY <2>2, <2>5, <3>7, <3>9 DEF Quiet, Leads, GoesOn, Closing, Live
  <2>6. QED
      BY <2>4, <2>5
<1>2. CASE MaxDurationFires
  <2> DEFINE b == Clear(s, {"maxDuration"})
  <2>1. t = Goodbye(b) /\ s.state # "idle"
      BY <1>2 DEF MaxDurationFires, Fires, Step, Sound, Awaited
  <2>2. /\ b \in Session /\ SameCall(s, b) /\ Retimes(s, b) /\ b.state = s.state
        /\ b.timers = s.timers \ {"maxDuration"}
        /\ Core(b) /\ Bounded(b) /\ LineFits(b) /\ Keeps(s, b) /\ FinalStays(s, b)
        /\ Obeyed(b)
      BY ClearedIs
  <2> HIDE DEF b
  <2>3. CASE Closing(b)
    <3>1. t = b
        BY <2>1, <2>3 DEF Goodbye
    <3>2. Awaited(b)
        BY <2>3 DEF Awaited, Closing
    <3>3. QED
        BY <2>2, <3>1, <3>2 DEF Becomes, Sound, Quiet, Leads, GoesOn
  <2>4. CASE ~Closing(b)
    <3>1. Becomes(b, t) /\ t.state = "ending"
        BY <2>1, <2>2, <2>4, GoodbyeKeeps
    <3>2. Becomes(s, t)
        BY <2>2, <3>1, Through
    <3>3. QED
        BY <2>2, <2>4, <3>1, <3>2 DEF Quiet, Leads, GoesOn, Closing
  <2>5. QED
      BY <2>3, <2>4
<1>3. QED
    BY <1>1, <1>2

\* The carrier's answer ends the session, or gives it the floor again.
LEMMA BridgeIsQuiet ==
    ASSUME session \in Session, Sound(session), Obeyed(session), NEW ok \in BOOLEAN,
           BridgeAnswers(ok)
    PROVE  Quiet(session, session')
<1> DEFINE s == session
           t == session'
           b == [s EXCEPT !.bridging = FALSE]
           c == [b EXCEPT !.state = "listening"]
<1>1. /\ t = IF ok THEN End(b) ELSE IF Closing(b) THEN b ELSE Play(c, PolicyLine)
      /\ s.bridging
    BY DEF BridgeAnswers, Step
<1>2. /\ b \in Session /\ Retimes(s, b) /\ b.state = s.state /\ b.bridging = FALSE
      /\ b.reprompts = s.reprompts /\ b.timers = s.timers
    BY Zenon DEF Session, Retimes
<1>3. /\ c \in Session /\ Retimes(b, c) /\ c.state = "listening" /\ c.bridging = FALSE
      /\ c.reprompts = b.reprompts
    BY <1>2, Zenon DEF Session, State, Retimes
<1> HIDE DEF b, c
<1>4. s.state \in {"transferring", "ending", "ended"}
    BY <1>1 DEF Sound, Core
<1>5. Core(b) /\ Keeps(s, b) /\ FinalStays(s, b)
    BY <1>2, RetimedKeeps DEF Sound
<1>6. Bounded(b) /\ LineFits(b) /\ Obeyed(b)
    BY <1>2 DEF Sound, Bounded, LineFits, Obeyed, Retimes, Playing, InFlight, Closing
<1>7. CASE ok
  <2>1. Becomes(b, t) /\ t.state = (IF b.state = "ended" THEN "ended" ELSE "ending")
      BY <1>1, <1>2, <1>5, <1>7, EndKeeps
  <2>2. Becomes(s, t)
      BY <1>2, <1>5, <2>1, Through
  <2>3. QED
      BY <1>2, <1>4, <2>1, <2>2 DEF Quiet, Leads, GoesOn, Closing
<1>8. CASE ~ok /\ Closing(b)
  <2>1. t = b
      BY <1>1, <1>8
  <2>2. Awaited(b)
      BY <1>8 DEF Awaited, Closing
  <2>3. QED
      BY <1>2, <1>5, <1>6, <2>1, <2>2 DEF Becomes, Sound, Quiet, Leads, GoesOn
<1>9. CASE ~ok /\ ~Closing(b)
  <2>1. t = Play(c, PolicyLine) /\ s.state = "transferring"
      BY <1>1, <1>2, <1>4, <1>9 DEF Closing
  <2>2. Core(c) /\ Keeps(b, c) /\ FinalStays(b, c)
      BY <1>2, <1>3, <1>5, <2>1, RetimedKeeps DEF Closing
  <2>3. Bounded(c)
      BY <1>2, <1>3, <1>6, <2>1 DEF Bounded, Retimes, Closing
  <2>4. Becomes(c, t) /\ Keeps(c, t) /\ t.state = "speaking"
      BY <1>3, <2>1, <2>2, <2>3, PolicyKeeps
  <2>5. Keeps(s, t)
      BY <1>5, <2>2, <2>4 DEF Keeps
  <2>6. FinalStays(s, t)
      BY <1>5, <2>2, <2>4 DEF Becomes, FinalStays
  <2>7. QED
      BY <2>1, <2>4, <2>5, <2>6 DEF Becomes, Quiet, Leads, Live
<1>10. QED
    BY <1>7, <1>8, <1>9

\* onEnded.
LEMMA EndedIsQuiet ==
    ASSUME session \in Session, Sound(session), Obeyed(session), Ended
    PROVE  Quiet(session, session')
<1> DEFINE s == session
           t == session'
<1>1. /\ t = [s EXCEPT !.state = "ended"] /\ s.state = "ending" /\ s.tearingDown
      /\ ~InFlight(s)
    BY DEF Ended, Step
<1>2. /\ t \in Session /\ SameCall(s, t) /\ Retimes(s, t) /\ t.state = "ended"
      /\ t.timers = s.timers
    BY <1>1, Zenon DEF Session, State, SameCall, Retimes
<1> HIDE DEF t
<1>3. Keeps(s, t)
    BY <1>2 DEF Retimes, Keeps, InFlight
<1>4. Delivered(t) /\ FinalStays(s, t)
    BY <1>2, <1>3, SameIsDelivered DEF Sound, Core, Retimes, Keeps
<1>5. ~Playing(t) /\ ~InFlight(t)
    BY <1>1, <1>2 DEF Sound, Core, Retimes, Playing, InFlight
<1>6. Core(t)
    BY <1>1, <1>2, <1>4, <1>5 DEF Sound, Core, SameCall, Retimes, Closing
<1>7. Bounded(t) /\ Awaited(t) /\ LineFits(t) /\ Obeyed(t)
    BY <1>2, <1>5 DEF Bounded, Awaited, LineFits, Obeyed, Closing
<1>8. QED
    BY <1>1, <1>2, <1>3, <1>4, <1>6, <1>7 DEF Becomes, Sound, Quiet, Leads, t

\* A change of the turn in flight, or of the line that plays, that keeps what they are.
LEMMA MarkedIsQuiet ==
    ASSUME session \in Session, Sound(session), Obeyed(session), session' \in Session,
           SameCall(session, session'), Keeps(session, session'),
           session'.state = session.state, session'.timers = session.timers,
           session'.transcript = session.transcript,
           session'.tearingDown = session.tearingDown,
           InFlight(session) => /\ session'.turn.number = session.turn.number
                                /\ session'.turn.aborted /\ session.turn.timedOut
                                      => session'.turn.timedOut
                                /\ session'.turn.aborted
                                      => session.turn.aborted \/ session'.turn.timedOut,
           Playing(session') <=> Playing(session),
           Playing(session) => /\ session'.playback.turn = session.playback.turn
                               /\ session'.playback.next = session.playback.next
                               /\ session'.playback.directive = session.playback.directive
    PROVE  Quiet(session, session')
<1> DEFINE s == session
           t == session'
<1>1. Delivered(t) /\ FinalStays(s, t)
    BY DEF Sound, Core, SameCall, Keeps, Delivered, FinalStays
<1>2. Core(t)
    BY <1>1 DEF Sound, Core, SameCall, Keeps, Closing
<1>3. Bounded(t) /\ LineFits(t)
    BY DEF Sound, Bounded, LineFits, SameCall, Closing
<1>4. Awaited(t) /\ Obeyed(t)
    BY DEF Sound, Awaited, Obeyed, SameCall, Keeps
<1>5. QED
    BY <1>1, <1>2, <1>3, <1>4 DEF Becomes, Sound, Quiet, Leads, GoesOn

\* The deadline of a turn aborts it.
LEMMA TimeoutIsQuiet ==
    ASSUME session \in Session, Sound(session), Obeyed(session), TurnTimesOut
    PROVE  Quiet(session, session')
<1> DEFINE s == session
           t == session'
           gone == [s.turn EXCEPT !.timedOut = TRUE, !.aborted = TRUE]
<1>1. InFlight(s) /\ s.turn \in Turn
    BY DEF TurnTimesOut, InFlight, Session
<1>2. /\ gone \in Turn /\ gone.words = s.turn.words /\ gone.number = s.turn.number
      /\ gone.timedOut = TRUE
    BY <1>1, Zenon DEF Turn
<1>3. t = [s EXCEPT !.turn = gone]
    BY Zenon DEF TurnTimesOut, Step, Session
<1>4. gone # NoTurn
    BY <1>2, Absence
<1> HIDE DEF gone
<1>5. /\ t \in Session /\ SameCall(s, t) /\ t.turn = gone
      /\ t.state = s.state /\ t.timers = s.timers /\ t.tearingDown = s.tearingDown
      /\ t.playback = s.playback /\ t.transcript = s.transcript
    BY <1>2, <1>3 DEF Session, SameCall
<1>6. Keeps(s, t)
    BY <1>1, <1>2, <1>4, <1>5 DEF Keeps, SameCall, InFlight
<1>7. QED
    BY <1>2, <1>5, <1>6, MarkedIsQuiet DEF Playing

\* What the media report of a line: its first chunk, and the end of its synthesis.
LEMMA ReportIsQuiet ==
    ASSUME session \in Session, Sound(session), Obeyed(session), ChunkPlays \/ SynthesisEnds
    PROVE  Quiet(session, session')
<1> DEFINE s == session
           t == session'
<1>1. Playing(s) /\ s.playback \in Playback
    BY DEF ChunkPlays, SynthesisEnds, Playing, Session
<1>2. PICK line \in Playback : /\ t = [s EXCEPT !.playback = line]
                               /\ line.turn = s.playback.turn
                               /\ line.next = s.playback.next
                               /\ line.directive = s.playback.directive
  <2>1. CASE ChunkPlays
    <3> DEFINE line == [s.playback EXCEPT !.acked = TRUE]
    <3>1. /\ line \in Playback /\ line.turn = s.playback.turn
          /\ line.next = s.playback.next /\ line.directive = s.playback.directive
        BY <1>1, Zenon DEF Playback
    <3>2. t = [s EXCEPT !.playback = line]
        BY <2>1 DEF ChunkPlays, Step
    <3>3. QED
        BY <3>1, <3>2, Zenon
  <2>2. CASE SynthesisEnds
    <3> DEFINE line == [s.playback EXCEPT !.synthesized = TRUE]
    <3>1. /\ line \in Playback /\ line.turn = s.playback.turn
          /\ line.next = s.playback.next /\ line.directive = s.playback.directive
        BY <1>1, Zenon DEF Playback
    <3>2. t = [s EXCEPT !.playback = line]
        BY <2>2 DEF SynthesisEnds, Step
    <3>3. QED
        BY <3>1, <3>2, Zenon
  <2>3. QED
      BY <2>1, <2>2
<1>3. /\ t \in Session /\ SameCall(s, t) /\ t.turn = s.turn
      /\ t.state = s.state /\ t.timers = s.timers /\ t.tearingDown = s.tearingDown
      /\ t.playback = line /\ t.transcript = s.transcript
    BY <1>2 DEF Session, SameCall
<1>4. Keeps(s, t)
    BY <1>3 DEF Keeps, SameCall, InFlight
<1>5. Playing(t)
    BY <1>3, Absence DEF Playing
<1>6. QED
    BY <1>1, <1>2, <1>3, <1>4, <1>5, MarkedIsQuiet

\* The end of a line, heard or not.
LEMMA LineEndIsQuiet ==
    ASSUME session \in Session, Sound(session), Obeyed(session),
           PlaybackFinishes \/ SynthesisFails
    PROVE  Quiet(session, session')
<1> DEFINE s == session
           t == session'
<1>1. CASE PlaybackFinishes
  <2>1. /\ Playing(s)
        /\ t = Await(AfterPlayback(SettlePlayback(s, "complete"), s.playback.directive),
                     s.playback.next)
      BY <1>1 DEF PlaybackFinishes, Step
  <2>2. QED
      BY <2>1, PlaybackEndKeeps DEF Heard, Quiet, Leads
<1>2. CASE SynthesisFails
  <2> DEFINE b == SettlePlayback(s, "not_delivered")
             next == s.playback.next
  <2>1. t = Await(JustEnd(b), next)
      BY <1>2 DEF SynthesisFails, Step
  <2>2. /\ b \in Session /\ SameCall(s, b) /\ b.turn = s.turn /\ b.state = s.state
        /\ b.timers = s.timers /\ b.tearingDown = s.tearingDown /\ ~Playing(b)
        /\ Settles(s, b)
      BY SettlePlaybackSets DEF Heard
  <2> HIDE DEF b
  <2>3. Keeps(s, b)
      BY <2>2 DEF SameCall, Keeps, InFlight
  <2>4. Delivered(b) /\ FinalStays(s, b)
      BY <2>2, <2>3, SettledIsDelivered DEF Sound, Core, Keeps
  <2>5. Core(b) /\ Bounded(b)
      BY <2>2, <2>3, <2>4 DEF Sound, Core, Bounded, SameCall, Keeps, Closing
  <2>6. LineFits(b) /\ Obeyed(b)
      BY <2>2, <2>3 DEF LineFits, Obeyed
  <2>7. /\ Becomes(b, End(b))
        /\ End(b).state = IF b.state = "ended" THEN "ended" ELSE "ending"
      BY <2>2, <2>5, EndKeeps
  <2>8. End(End(b)) = End(b)
      BY <2>2 DEF End, Session
  <2>9. s.state # "ended"
      BY <1>2 DEF SynthesisFails, Sound, Core
  <2>10. t \in {b, End(b)} /\ (t = b => Closing(b))
      BY <2>1, <2>7, <2>8 DEF Await, JustEnd, Closing
  <2>11. CASE t = b /\ Closing(b)
    <3>1. Awaited(b)
        BY <2>11 DEF Awaited, Closing
    <3>2. QED
        BY <2>2, <2>3, <2>4, <2>5, <2>6, <2>11, <3>1
           DEF Becomes, Sound, Quiet, Leads, GoesOn
  <2>12. CASE t = End(b)
    <3>1. Becomes(s, t)
        BY <2>2, <2>3, <2>4, <2>7, <2>12, Through
    <3>2. QED
        BY <2>2, <2>7, <2>9, <2>12, <3>1 DEF Quiet, Leads, GoesOn, Closing
  <2>13. QED
      BY <2>10, <2>11, <2>12
<1>3. QED
    BY <1>1, <1>2

-------------------------------------------------------------------------------
(* The events that settle a turn.                                           *)

\* The turn of s is over in b, and nothing else has happened to the words.
TurnIsOver(sessions, s, b) ==
    /\ b \in sessions
    /\ InFlight(s)
    /\ ~InFlight(b)
    /\ b.state = s.state
    /\ b.seen = s.seen
    /\ b.finals = s.finals
    /\ b.turnIndex = s.turnIndex
    /\ FinalStays(s, b)

\* The words of a turn fall into those that are kept for the next, were answered, refused
\* or dropped.
Sorted(words, kept, done, told, lost) ==
    /\ words = kept \cup done \cup told \cup lost
    /\ kept \cap done = {} /\ kept \cap told = {} /\ kept \cap lost = {}
    /\ done \cap told = {} /\ done \cap lost = {}
    /\ told \cap lost = {}

Disposes(s, b) ==
    \E done, told, lost \in SUBSET s.turn.words :
        /\ Sorted(s.turn.words, b.superseded, done, told, lost)
        /\ answered' = answered \cup done
        /\ refused' = refused \cup told
        /\ dropped' = dropped \cup lost

\* The text of a turn is of its words.
LEMMA TextsAre == \A words : \A text \in Texts(words) : text \subseteq words
BY DEF Texts

\* A part of the words goes to one place, and the rest to another.
LEMMA PartsAreSorted ==
    ASSUME NEW words, NEW part \in SUBSET words
    PROVE  /\ Sorted(words, {}, part, {}, words \ part)
           /\ Sorted(words, {}, {}, part, words \ part)
           /\ Sorted(words, part, {}, {}, words \ part)
BY DEF Sorted

\* What a settled turn leaves.
Settlement(s, t) ==
    \E b \in Session :
        TurnIsOver(Session, s, b) /\ Disposes(s, b) /\ Becomes(b, t) /\ GoesOn(b, t)

\* A turn that is over without a reply that is played.
Over(s, words, transcript) ==
    [s EXCEPT !.turn = NoTurn, !.superseded = words, !.transcript = transcript]

\* It leaves a session that goes on.
LEMMA OverIsSettled ==
    ASSUME NEW s \in Session, Sound(s), Obeyed(s), InFlight(s),
           NEW words \in SUBSET Utterances, NEW transcript \in [Turns -> Delivery],
           \A n \in Turns : \/ transcript[n] = s.transcript[n]
                            \/ n = s.turnIndex /\ transcript[n] \in Heard
    PROVE  LET b == Over(s, words, transcript) IN
           /\ TurnIsOver(Session, s, b) /\ Settled(b)
           /\ b.superseded = words /\ b.failures < MaxFailures
<1> DEFINE b == Over(s, words, transcript)
<1>1. /\ b \in Session /\ b.turn = NoTurn /\ b.state = s.state /\ b.inSpeech = s.inSpeech
      /\ b.seen = s.seen /\ b.finals = s.finals /\ b.turnIndex = s.turnIndex
      /\ b.timers = s.timers /\ b.playback = s.playback /\ b.reprompts = s.reprompts
      /\ b.bridging = s.bridging /\ b.tearingDown = s.tearingDown
      /\ b.transcript = transcript /\ b.superseded = words /\ b.failures = s.failures
    BY Zenon DEF Over, Session
<1> HIDE DEF b
<1>2. ~InFlight(b)
    BY <1>1 DEF InFlight
<1>3. Settled(b) /\ FinalStays(s, b)
    BY <1>1, <1>2, TurnSettles
<1>4. s.failures < MaxFailures
    BY DEF Sound, Core
<1>5. QED
    BY <1>1, <1>2, <1>3, <1>4 DEF TurnIsOver, b

\* resumeListening goes on with a call that was not waiting for the turn.
LEMMA ResumeGoesOn ==
    ASSUME NEW b \in Session, Settled(b), b.failures < MaxFailures, b.state # "thinking"
    PROVE  Becomes(b, ResumeListening(b)) /\ GoesOn(b, ResumeListening(b))
<1> DEFINE t == ResumeListening(b)
<1>1. b.failures \in Nat /\ MaxFailures \in Nat
    BY VoiceAssumption DEF Session
<1>2. ~(b.failures >= MaxFailures)
    BY <1>1
<1>3. Becomes(b, t) /\ (Commits(b, t) \/ t.state = b.state)
    BY <1>2, ResumeKeeps
<1>4. QED
    BY <1>3 DEF Commits, GoesOn, Live, Session, State

\* A reply is played by the session that waits for it.
LEMMA ReplyKeeps ==
    ASSUME NEW s \in Session, Sound(s), Obeyed(s), InFlight(s), s.state = "thinking",
           NEW directive \in Directive, NEW b,
           b = [s EXCEPT !.turn = NoTurn, !.failures = 0]
    PROVE  LET t == Play(b, Reply(s.turn.number, directive)) IN
           /\ TurnIsOver(Session, s, b) /\ b.superseded = {}
           /\ Becomes(b, t) /\ GoesOn(b, t)
<1> DEFINE line == Reply(s.turn.number, directive)
           t == Play(b, line)
<1>1. s.turn \in Turn /\ s.turn.number \in Turns
    BY DEF InFlight, Session, Turn
<1>2. /\ line \in Playback /\ line.turn = s.turn.number /\ line.next = "nothing"
    BY Zenon, <1>1, LinesAre DEF Reply, PolicyLine
<1>3. s.turn.number = s.turnIndex /\ s.superseded = {}
    BY DEF Sound, Core
<1> HIDE DEF line
<1>4. 0 \in 0 .. MaxFailures /\ ~(0 >= MaxFailures)
    BY VoiceAssumption
<1>5. /\ b \in Session /\ b.turn = NoTurn /\ b.state = "thinking" /\ b.inSpeech = s.inSpeech
      /\ b.seen = s.seen /\ b.finals = s.finals /\ b.turnIndex = s.turnIndex
      /\ b.timers = s.timers /\ b.playback = s.playback /\ b.reprompts = s.reprompts
      /\ b.bridging = s.bridging /\ b.tearingDown = s.tearingDown
      /\ b.transcript = s.transcript /\ b.superseded = {} /\ b.failures = 0
    BY <1>3, <1>4, Zenon DEF Session
<1>6. ~InFlight(b)
    BY <1>5 DEF InFlight
<1>7. Delivered(b) /\ FinalStays(s, b)
    BY <1>5, <1>6, SameIsDelivered, Zenon DEF Sound, Core
<1>8. TurnIsOver(Session, s, b)
    BY <1>5, <1>6, <1>7 DEF TurnIsOver
<1>9. /\ t \in Session /\ SameCall(b, t) /\ t.turn = b.turn /\ t.tearingDown = b.tearingDown
      /\ t.state = "speaking" /\ t.timers = b.timers \ {"silence"} /\ t.playback = line
      /\ Replaces(b, t, line)
    BY <1>2, <1>5, PlaySets, Zenon
<1> HIDE DEF t
<1>10. ~InFlight(t) /\ Playing(t)
    BY <1>2, <1>5, <1>9, Absence DEF InFlight, Playing
<1>11. Delivered(t) /\ FinalStays(b, t)
  <2>1. ASSUME NEW n \in Turns, n = line.turn
        PROVE  /\ b.transcript[n] \notin Heard
               /\ ~(n > b.turnIndex)
               /\ ~(InFlight(t) /\ n = b.turnIndex)
    <3>1. n = s.turnIndex
        BY <1>2, <1>3, <2>1
    <3>2. s.transcript[n] = "none"
        BY <3>1 DEF Sound, Core, Delivered
    <3>3. ~(n > b.turnIndex)
        BY <1>5, <3>1, IndexIsNatural
    <3>4. QED
        BY <1>5, <1>10, <3>2, <3>3 DEF Heard
  <2>2. line # Silence
      BY <1>2, Absence
  <2>3. t.turnIndex = b.turnIndex
      BY <1>9 DEF SameCall
  <2>4. QED
      BY <1>7, <1>9, <1>10, <2>1, <2>2, <2>3, ReplacedIsDelivered, Zenon
<1>12. Core(t)
    BY <1>5, <1>9, <1>10, <1>11 DEF Sound, Core, SameCall, Closing
<1>13. Bounded(t)
    BY <1>4, <1>5, <1>9 DEF Sound, Bounded, SameCall, Closing
<1>14. Awaited(t) /\ LineFits(t)
    BY <1>2, <1>9, <1>10 DEF Awaited, LineFits
<1>15. Obeyed(t)
    BY <1>5, <1>9, <1>10 DEF Obeyed
<1>16. Keeps(b, t)
    BY <1>6, <1>9, <1>10 DEF Keeps, SameCall
<1>17. QED
    BY <1>5, <1>8, <1>9, <1>11, <1>12, <1>13, <1>14, <1>15, <1>16
       DEF Becomes, Sound, GoesOn, Live, t, line

\* The handler returns.
LEMMA AnswerIsSettled ==
    ASSUME session \in Session, Sound(session), Obeyed(session), NEW directive \in Directive,
           TurnAnswers(directive)
    PROVE  Settlement(session, session')
<1> DEFINE s == session
           t == session'
           over == SettleTurn(s)
           played == [over EXCEPT !.failures = 0]
           unheard == Record(over, s.turn.number, "not_delivered")
           transcript == [s.transcript EXCEPT ![s.turn.number] = "not_delivered"]
<1>1. /\ InFlight(s) /\ refused' = refused
      /\ \E text \in Texts(s.turn.words) :
            answered' = answered \cup text /\ dropped' = dropped \cup (s.turn.words \ text)
      /\ t = IF ~s.turn.aborted /\ over.state = "thinking"
             THEN Play(played, Reply(s.turn.number, directive))
             ELSE IF s.turn.aborted /\ ~s.turn.timedOut THEN ResumeListening(unheard)
             ELSE AfterFailure(unheard)
    BY DEF TurnAnswers
<1>7. ASSUME NEW b, b.superseded = {}
      PROVE  Disposes(s, b)
  <2>1. PICK text \in SUBSET s.turn.words :
            answered' = answered \cup text /\ dropped' = dropped \cup (s.turn.words \ text)
      BY <1>1, TextsAre
  <2>2. Sorted(s.turn.words, b.superseded, text, {}, s.turn.words \ text)
      BY <1>7, PartsAreSorted
  <2>3. refused' = refused \cup {}
      BY <1>1
  <2>4. text \in SUBSET s.turn.words /\ {} \in SUBSET s.turn.words
        /\ s.turn.words \ text \in SUBSET s.turn.words
      OBVIOUS
  <2>5. QED
      BY <2>1, <2>2, <2>3, <2>4, Zenon DEF Disposes
<1>2. s.turn \in Turn /\ s.turn.number \in Turns /\ s.turn.number = s.turnIndex
    BY <1>1 DEF InFlight, Session, Turn, Sound, Core
<1>3. over.state = s.state /\ s.superseded = {} /\ s.turn.number # 0
  <2>1. s.turn.number # 0
      BY <1>2, Absence
  <2>2. QED
      BY <1>1, <2>1 DEF SettleTurn, Session, Sound, Core
<1>4. CASE ~s.turn.aborted /\ s.state = "thinking"
  <2>1. t = Play(played, Reply(s.turn.number, directive))
      BY <1>1, <1>3, <1>4
  <2>2. played = [s EXCEPT !.turn = NoTurn, !.failures = 0]
      BY DEF SettleTurn
  <2> HIDE DEF played
  <2>3. /\ TurnIsOver(Session, s, played) /\ played.superseded = {}
        /\ Becomes(played, t) /\ GoesOn(played, t)
      BY Zenon, <1>1, <1>4, <2>1, <2>2, ReplyKeeps
  <2>4. QED
      BY <1>7, <2>3 DEF Settlement, TurnIsOver
<1>5. CASE ~(~s.turn.aborted /\ s.state = "thinking")
  <2>1. unheard = Over(s, {}, transcript)
      BY <1>3, Zenon DEF Over, Record, SettleTurn, Session
  <2>2. transcript \in [Turns -> Delivery]
      BY <1>2 DEF Session, Delivery
  <2>3. \A n \in Turns : \/ transcript[n] = s.transcript[n]
                         \/ n = s.turnIndex /\ transcript[n] \in Heard
      BY <1>2 DEF Session, Heard
  <2>4. t = IF s.turn.aborted /\ ~s.turn.timedOut THEN ResumeListening(unheard)
            ELSE AfterFailure(unheard)
      BY <1>1, <1>3, <1>5
  <2> HIDE DEF unheard, transcript
  <2>5. /\ TurnIsOver(Session, s, unheard) /\ Settled(unheard)
        /\ unheard.superseded = {} /\ unheard.failures < MaxFailures
      BY <1>1, <2>1, <2>2, <2>3, OverIsSettled
  <2>6. unheard \in Session /\ unheard.state = s.state
      BY <2>5 DEF TurnIsOver
  <2>7. Becomes(unheard, t) /\ GoesOn(unheard, t)
    <3>1. CASE s.turn.aborted /\ ~s.turn.timedOut
      <4>1. s.state # "thinking"
          BY <3>1 DEF Sound, Awaited
      <4>2. QED
          BY <2>4, <2>5, <2>6, <3>1, <4>1, ResumeGoesOn
    <3>2. CASE ~(s.turn.aborted /\ ~s.turn.timedOut)
        BY <2>4, <2>5, <2>6, <3>2, FailureKeeps
    <3>3. QED
        BY <3>1, <3>2
  <2>8. QED
      BY <1>7, <2>5, <2>6, <2>7 DEF Settlement
<1>6. QED
    BY <1>4, <1>5

\* The handler throws, or gives its turn up.
LEMMA LossIsSettled ==
    ASSUME session \in Session, Sound(session), Obeyed(session), TurnFails \/ TurnIsCancelled
    PROVE  Settlement(session, session')
<1> DEFINE s == session
           t == session'
           over == SettleTurn(s)
           words == s.turn.words
<1>1. InFlight(s) /\ answered' = answered \cup {}
    BY DEF TurnFails, TurnIsCancelled
<1>2. s.turn \in Turn /\ words \subseteq Utterances /\ s.superseded = {}
    BY <1>1 DEF InFlight, Session, Turn, Sound, Core
<1>3. /\ over = Over(s, {}, s.transcript)
      /\ \A kept : [over EXCEPT !.superseded = kept] = Over(s, kept, s.transcript)
    BY <1>2, Zenon DEF Over, SettleTurn, Session
<1>4. \/ TurnFails
      \/ /\ TurnIsCancelled /\ s.turn.aborted /\ ~s.turn.timedOut
         /\ \E kept \in SUBSET words :
               /\ IF Closing(over) THEN t = over /\ kept = {}
                  ELSE t = ResumeListening([over EXCEPT !.superseded = kept])
               /\ refused' = refused \cup {} /\ dropped' = dropped \cup (words \ kept)
    BY TextsAre DEF TurnIsCancelled
<1>5. s.transcript \in [Turns -> Delivery]
    BY DEF Session
<1>6. {} \in SUBSET words /\ \A part \in SUBSET words : words \ part \in SUBSET words
    OBVIOUS
<1>7. CASE TurnFails
  <2>1. PICK told \in SUBSET words :
            refused' = refused \cup told /\ dropped' = dropped \cup (words \ told)
    <3>1. PICK text \in SUBSET words :
              LET told == IF Apologises(over) THEN text ELSE {} IN
              refused' = refused \cup told /\ dropped' = dropped \cup (words \ told)
        BY <1>7, TextsAre DEF TurnFails
    <3>2. QED
        BY <3>1
  <2>2. t = AfterFailure(over)
      BY <1>7 DEF TurnFails
  <2> HIDE DEF over, words
  <2>3. /\ TurnIsOver(Session, s, over) /\ Settled(over) /\ over.superseded = {}
        /\ over.failures < MaxFailures
      BY <1>1, <1>3, <1>5, OverIsSettled
  <2>4. over \in Session
      BY <2>3 DEF TurnIsOver
  <2>5. Becomes(over, t) /\ GoesOn(over, t)
      BY <2>2, <2>3, <2>4, FailureKeeps
  <2>6. Sorted(words, over.superseded, {}, told, words \ told)
      BY <2>3, PartsAreSorted
  <2>7. Disposes(s, over)
      BY <1>1, <1>6, <2>1, <2>6 DEF Disposes, words
  <2>8. QED
      BY <2>3, <2>4, <2>5, <2>7 DEF Settlement
<1>8. CASE /\ TurnIsCancelled /\ s.turn.aborted /\ ~s.turn.timedOut
           /\ \E kept \in SUBSET words :
                 /\ IF Closing(over) THEN t = over /\ kept = {}
                    ELSE t = ResumeListening([over EXCEPT !.superseded = kept])
                 /\ refused' = refused \cup {} /\ dropped' = dropped \cup (words \ kept)
  <2>1. PICK kept \in SUBSET words :
            /\ IF Closing(over) THEN t = over /\ kept = {}
               ELSE t = ResumeListening([over EXCEPT !.superseded = kept])
            /\ refused' = refused \cup {} /\ dropped' = dropped \cup (words \ kept)
      BY <1>8
  <2> DEFINE b == Over(s, kept, s.transcript)
  <2>2. IF Closing(over) THEN t = b ELSE t = ResumeListening(b)
      BY <1>3, <2>1
  <2>3. over.state = s.state
      BY DEF SettleTurn, Session
  <2> HIDE DEF over, words, b
  <2>4. kept \in SUBSET Utterances
      BY <1>2, <2>1
  <2>5. /\ TurnIsOver(Session, s, b) /\ Settled(b) /\ b.superseded = kept
        /\ b.failures < MaxFailures
      BY <1>1, <1>5, <2>4, OverIsSettled DEF b
  <2>6. b \in Session /\ b.state = s.state /\ s.state # "thinking"
      BY <1>8, <2>5 DEF TurnIsOver, Sound, Awaited
  <2>7. Becomes(b, t) /\ GoesOn(b, t)
    <3>1. CASE Closing(over)
      <4>1. t = b /\ Closing(b)
          BY <2>2, <2>3, <2>6, <3>1 DEF Closing
      <4>2. Sound(b)
          BY <2>5, <4>1 DEF Settled, Sound, Bounded, Awaited, Closing
      <4>3. QED
          BY <2>5, <2>6, <4>1, <4>2 DEF Becomes, Settled, Keeps, FinalStays, GoesOn
    <3>2. CASE ~Closing(over)
        BY <2>2, <2>5, <2>6, <3>2, ResumeGoesOn
    <3>3. QED
        BY <3>1, <3>2
  <2>8. Sorted(words, b.superseded, {}, {}, words \ kept)
      BY <2>1, <2>5, PartsAreSorted
  <2>9. Disposes(s, b)
      BY <1>1, <1>6, <2>1, <2>8 DEF Disposes, words
  <2>10. QED
      BY <2>5, <2>6, <2>7, <2>9 DEF Settlement
<1>9. QED
    BY <1>4, <1>7, <1>8

-------------------------------------------------------------------------------
(* The words of the caller.                                                 *)

\* Six places hold all that was seen, and none of it twice: as the runs state it,
Spread(seen, places) ==
    /\ seen = UNION {places[i] : i \in 1 .. 6}
    /\ \A i, j \in 1 .. 6 : i # j => places[i] \cap places[j] = {}

\* and place by place.
Split(seen, a, b, c, d, e, f) ==
    /\ seen = a \cup b \cup c \cup d \cup e \cup f
    /\ a \cap b = {} /\ a \cap c = {} /\ a \cap d = {} /\ a \cap e = {} /\ a \cap f = {}
    /\ b \cap c = {} /\ b \cap d = {} /\ b \cap e = {} /\ b \cap f = {}
    /\ c \cap d = {} /\ c \cap e = {} /\ c \cap f = {}
    /\ d \cap e = {} /\ d \cap f = {}
    /\ e \cap f = {}

\* The two are the same.
LEMMA SixPlaces ==
    ASSUME NEW seen, NEW a, NEW b, NEW c, NEW d, NEW e, NEW f
    PROVE  Spread(seen, <<a, b, c, d, e, f>>) <=> Split(seen, a, b, c, d, e, f)
<1> DEFINE places == <<a, b, c, d, e, f>>
<1>1. /\ places[1] = a /\ places[2] = b /\ places[3] = c /\ places[4] = d /\ places[5] = e
      /\ places[6] = f
    OBVIOUS
<1>2. 1 .. 6 = {1, 2, 3, 4, 5, 6}
    OBVIOUS
<1> HIDE DEF places
<1>3. UNION {places[i] : i \in 1 .. 6} = a \cup b \cup c \cup d \cup e \cup f
    BY <1>1, <1>2
<1>4. ASSUME Spread(seen, places)
      PROVE  Split(seen, a, b, c, d, e, f)
    BY <1>1, <1>3, <1>4 DEF Spread, Split
<1>5. ASSUME Split(seen, a, b, c, d, e, f)
      PROVE  Spread(seen, places)
  <2>1. ASSUME NEW i \in 1 .. 6, NEW j \in 1 .. 6, i # j
        PROVE  places[i] \cap places[j] = {}
    <3>1. i \in {1, 2, 3, 4, 5, 6} /\ j \in {1, 2, 3, 4, 5, 6}
        BY <1>2
    <3>2. CASE i = 1
        BY <1>1, <1>5, <2>1, <3>1, <3>2 DEF Split
    <3>3. CASE i = 2
        BY <1>1, <1>5, <2>1, <3>1, <3>3 DEF Split
    <3>4. CASE i = 3
        BY <1>1, <1>5, <2>1, <3>1, <3>4 DEF Split
    <3>5. CASE i = 4
        BY <1>1, <1>5, <2>1, <3>1, <3>5 DEF Split
    <3>6. CASE i = 5
        BY <1>1, <1>5, <2>1, <3>1, <3>6 DEF Split
    <3>7. CASE i = 6
        BY <1>1, <1>5, <2>1, <3>1, <3>7 DEF Split
    <3>8. QED
        BY <3>1, <3>2, <3>3, <3>4, <3>5, <3>6, <3>7
  <2>2. QED
      BY <1>3, <1>5, <2>1 DEF Spread, Split
<1>6. QED
    BY <1>4, <1>5 DEF places

\* EveryWordAccounted, of a session of either engine.
Accounted(s, done, told, lost) ==
    Split(s.seen, s.finals, s.superseded, IF InFlight(s) THEN s.turn.words ELSE {},
          done, told, lost)

\* The property of the run is that of the proofs.
LEMMA WordsAre == EveryWordAccounted <=> Accounted(session, answered, refused, dropped)
<1> DEFINE asked == IF InFlight(session) THEN session.turn.words ELSE {}
           places == <<session.finals, session.superseded, asked, answered, refused, dropped>>
<1>1. EveryWordAccounted <=> Spread(session.seen, places)
    BY Zenon DEF EveryWordAccounted, Spread
<1>2. Accounted(session, answered, refused, dropped)
      <=> Split(session.seen, session.finals, session.superseded, asked, answered, refused,
                dropped)
    BY DEF Accounted
<1> HIDE DEF asked
<1>3. QED
    BY <1>1, <1>2, SixPlaces

\* Words that stay where they are, or begin a turn together, stay accounted for.
LEMMA KeptIsAccounted ==
    ASSUME NEW s, NEW t, NEW done, NEW told, NEW lost, Accounted(s, done, told, lost),
           Keeps(s, t) \/ Commits(s, t)
    PROVE  Accounted(t, done, told, lost)
<1>1. CASE Keeps(s, t)
    BY <1>1 DEF Accounted, Split, Keeps
<1>2. CASE Commits(s, t)
    BY <1>2 DEF Accounted, Split, Commits
<1>3. QED
    BY <1>1, <1>2

\* A word that is heard is held.
LEMMA HeardIsAccounted ==
    ASSUME NEW s, NEW b, NEW u, NEW done, NEW told, NEW lost, Accounted(s, done, told, lost),
           u \notin s.seen, b.seen = s.seen \cup {u}, b.finals = s.finals \cup {u},
           b.superseded = s.superseded, b.turn = s.turn
    PROVE  Accounted(b, done, told, lost)
BY DEF Accounted, Split, InFlight

\* The words of a turn that is over go where they were sorted.
LEMMA OverIsAccounted ==
    ASSUME NEW s, NEW b, NEW done, NEW told, NEW lost, NEW more, NEW sorry, NEW gone,
           Accounted(s, done, told, lost), InFlight(s), s.superseded = {}, ~InFlight(b),
           b.seen = s.seen, b.finals = s.finals,
           Sorted(s.turn.words, b.superseded, more, sorry, gone)
    PROVE  Accounted(b, done \cup more, told \cup sorry, lost \cup gone)
<1> DEFINE words == s.turn.words
           kept == b.superseded
           finals == s.finals
<1>1. Split(s.seen, finals, {}, words, done, told, lost)
    BY DEF Accounted
<1>2. Sorted(words, kept, more, sorry, gone)
    OBVIOUS
<1>3. Accounted(b, done \cup more, told \cup sorry, lost \cup gone)
      <=> Split(s.seen, finals, kept, {}, done \cup more, told \cup sorry, lost \cup gone)
    BY DEF Accounted
<1> HIDE DEF words, kept, finals
<1>4. QED
    BY <1>1, <1>2, <1>3 DEF Split, Sorted

-------------------------------------------------------------------------------
(* The engine in the process.                                               *)

\* A final is held, and may begin a turn.
Hearing(s, t) ==
    \E u \in Utterances : u \notin s.seen /\ Becomes(Hears(s, u), t) /\ GoesOn(Hears(s, u), t)

\* What holds of it between any two events.
Kept ==
    /\ session \in Session
    /\ Sound(session)
    /\ Obeyed(session)
    /\ answered \subseteq Utterances
    /\ refused \subseteq Utterances
    /\ dropped \subseteq Utterances
    /\ Accounted(session, answered, refused, dropped)

\* An event is quiet, hears a final or settles the turn.
LEMMA EventIs ==
    ASSUME Kept, Next
    PROVE  \/ Quiet(session, session') /\ UNCHANGED <<answered, refused, dropped>>
           \/ Hearing(session, session') /\ UNCHANGED <<answered, refused, dropped>>
           \/ Settlement(session, session')
<1> USE DEF Kept
<1>1. CASE Start
    BY <1>1, StartIsQuiet DEF Start, Step
<1>2. CASE Timers
  <2>1. CASE FinalWaitFires \/ FinalGraceFires
      BY <2>1, WaitIsQuiet DEF FinalWaitFires, FinalGraceFires, Fires, Step
  <2>2. CASE SilenceFires \/ MaxDurationFires
      BY <2>2, CeilingIsQuiet DEF SilenceFires, MaxDurationFires, Fires, Step
  <2>3. QED
      BY <1>2, <2>1, <2>2 DEF Timers
<1>3. CASE Caller
  <2>1. CASE SpeechStarts
      BY <2>1, SpeechStartIsQuiet DEF SpeechStarts, Step
  <2>2. CASE SpeechEnds \/ SttEndpoint
      BY <2>2, SpeechEndIsQuiet DEF SpeechEnds, SttEndpoint, Step
  <2>3. CASE BargeIn
      BY <2>3, BargeInIsQuiet DEF BargeIn, Step
  <2>4. ASSUME NEW u \in Utterances, Final(u)
        PROVE  Hearing(session, session') /\ UNCHANGED <<answered, refused, dropped>>
    <3> DEFINE b == Hears(session, u)
               t == session'
    <3>1. /\ Open(session) /\ u \notin session.seen /\ t = OnFinal(b)
          /\ UNCHANGED <<answered, refused, dropped>>
      <4>1. u \in Nat /\ \A v \in session.seen : v < u
          BY <2>4, VoiceAssumption DEF Final
      <4>2. u \notin session.seen
          BY <4>1
      <4>3. QED
          BY <2>4, <4>2 DEF Final, Step, Hears
    <3>2. /\ b \in Session /\ Sound(b) /\ Obeyed(b) /\ b.finals = session.finals \cup {u}
          /\ b.state = session.state
        BY <3>1, HeardIsSound
    <3> HIDE DEF b
    <3>3. Open(b) /\ b.finals # {}
        BY <3>1, <3>2 DEF Open, Closing
    <3>4. Becomes(b, t) /\ (t.state = b.state \/ Commits(b, t))
        BY <3>1, <3>2, <3>3, FinalKeeps
    <3>5. GoesOn(b, t)
        BY <3>2, <3>4 DEF Commits, GoesOn, Live, Session, State
    <3>6. QED
        BY <3>1, <3>4, <3>5 DEF Hearing, b
  <2>5. QED
      BY <1>3, <2>1, <2>2, <2>3, <2>4 DEF Caller
<1>4. CASE Turning
  <2>1. CASE TurnTimesOut
      BY <2>1, TimeoutIsQuiet DEF TurnTimesOut, Step
  <2>2. CASE TurnFails \/ TurnIsCancelled
      BY <2>2, LossIsSettled
  <2>3. ASSUME NEW directive \in Directive, TurnAnswers(directive)
        PROVE  Settlement(session, session')
      BY <2>3, AnswerIsSettled
  <2>4. QED
      BY <1>4, <2>1, <2>2, <2>3 DEF Turning
<1>5. CASE Speaking
  <2>1. CASE ChunkPlays \/ SynthesisEnds
      BY <2>1, ReportIsQuiet DEF ChunkPlays, SynthesisEnds, Step
  <2>2. CASE PlaybackFinishes \/ SynthesisFails
      BY <2>2, LineEndIsQuiet DEF PlaybackFinishes, SynthesisFails, Step
  <2>3. QED
      BY <1>5, <2>1, <2>2 DEF Speaking
<1>6. CASE SttFails
    BY <1>6, SttFailureIsQuiet DEF SttFails, Step
<1>7. CASE EndSession
    BY <1>7, EndIsQuiet DEF EndSession, Step
<1>8. CASE Ended
    BY <1>8, EndedIsQuiet DEF Ended, Step
<1>9. ASSUME NEW ok \in BOOLEAN, BridgeAnswers(ok)
      PROVE  Quiet(session, session') /\ UNCHANGED <<answered, refused, dropped>>
    BY <1>9, BridgeIsQuiet, Zenon DEF BridgeAnswers, Step
<1>10. QED
    BY <1>1, <1>2, <1>3, <1>4, <1>5, <1>6, <1>7, <1>8, <1>9 DEF Next

\* Each keeps the session sound, its deliveries final and its words accounted for.
LEMMA EventKeeps ==
    ASSUME Kept, Next
    PROVE  Kept' /\ FinalStays(session, session')
<1> DEFINE s == session
           t == session'
<1>1. CASE Quiet(s, t) /\ UNCHANGED <<answered, refused, dropped>>
  <2>1. t \in Session /\ Sound(t) /\ Obeyed(t) /\ FinalStays(s, t)
      BY <1>1 DEF Quiet, Becomes
  <2>2. Accounted(t, answered, refused, dropped)
      BY <1>1, KeptIsAccounted DEF Kept, Quiet, Becomes
  <2>3. QED
      BY <1>1, <2>1, <2>2 DEF Kept
<1>2. CASE Hearing(s, t) /\ UNCHANGED <<answered, refused, dropped>>
  <2>1. PICK u \in Utterances : u \notin s.seen /\ Becomes(Hears(s, u), t)
      BY <1>2 DEF Hearing
  <2> DEFINE b == Hears(s, u)
  <2>2. /\ FinalStays(s, b)
        /\ b.seen = s.seen \cup {u} /\ b.finals = s.finals \cup {u}
        /\ b.superseded = s.superseded /\ b.turn = s.turn
      BY <2>1, HeardIsSound DEF Kept
  <2> HIDE DEF b
  <2>3. Accounted(b, answered, refused, dropped)
      BY <2>1, <2>2, HeardIsAccounted DEF Kept
  <2>4. Becomes(b, t)
      BY <2>1 DEF b
  <2>5. Accounted(t, answered, refused, dropped)
      BY <2>3, <2>4, KeptIsAccounted DEF Becomes
  <2>6. t \in Session /\ Sound(t) /\ Obeyed(t) /\ FinalStays(s, t)
      BY <2>2, <2>4 DEF Becomes, FinalStays
  <2>7. QED
      BY <1>2, <2>5, <2>6 DEF Kept
<1>3. CASE Settlement(s, t)
  <2>1. PICK b \in Session : TurnIsOver(Session, s, b) /\ Disposes(s, b) /\ Becomes(b, t)
      BY <1>3 DEF Settlement
  <2>2. Accounted(b, answered', refused', dropped')
    <3>1. PICK done, told, lost \in SUBSET s.turn.words :
              /\ Sorted(s.turn.words, b.superseded, done, told, lost)
              /\ answered' = answered \cup done
              /\ refused' = refused \cup told
              /\ dropped' = dropped \cup lost
        BY <2>1 DEF Disposes
    <3>2. QED
        BY <2>1, <3>1, OverIsAccounted DEF Kept, TurnIsOver, Sound, Core
  <2>3. Accounted(t, answered', refused', dropped')
      BY <2>1, <2>2, KeptIsAccounted DEF Becomes
  <2>4. t \in Session /\ Sound(t) /\ Obeyed(t) /\ FinalStays(s, t)
      BY <2>1 DEF Becomes, TurnIsOver, FinalStays
  <2>5. s.turn.words \subseteq Utterances
      BY <2>1 DEF Kept, TurnIsOver, InFlight, Session, Turn
  <2>6. answered' \subseteq Utterances /\ refused' \subseteq Utterances
        /\ dropped' \subseteq Utterances
      BY <2>1, <2>5 DEF Kept, Disposes
  <2>7. QED
      BY <2>3, <2>4, <2>6 DEF Kept
<1>4. QED
    BY <1>1, <1>2, <1>3, EventIs

\* A new session is sound.
LEMMA KeptAtFirst == Init => Kept
<1> SUFFICES ASSUME Init PROVE Kept
    OBVIOUS
<1>1. IsFiniteSet({}) /\ Cardinality({}) = 0
    BY FS_EmptySet
<1>2. MaxReprompts \in Nat /\ MaxFailures \in Nat \ {0} /\ MaxSttReconnects \in Nat
    BY VoiceAssumption
<1>3. /\ session.state = "idle" /\ session.inSpeech = FALSE /\ session.seen = {}
      /\ session.finals = {} /\ session.superseded = {} /\ session.turn = NoTurn
      /\ session.turnIndex = 0 /\ session.playback = Silence
      /\ session.transcript = [n \in Turns |-> "none"]
      /\ session.timers = {} /\ session.reprompts = 0 /\ session.failures = 0
      /\ session.bridging = FALSE /\ session.tearingDown = FALSE
    BY DEF Init
<1>4. ~InFlight(session) /\ ~Playing(session) /\ ~Closing(session)
    BY <1>3 DEF InFlight, Playing, Closing
<1>5. 0 \in 0 .. MaxReprompts + 1 /\ 0 \in 0 .. MaxFailures /\ 0 \in 0 .. MaxSttReconnects
    BY <1>2
<1>6. session \in Session
    BY <1>5 DEF Init, Session, State, Delivery
<1>7. Delivered(session)
    BY <1>3, <1>4 DEF Delivered
<1>8. Core(session)
  <2>1. session.seen \ session.finals = {}
      BY <1>3
  <2>2. QED
      BY <1>1, <1>3, <1>4, <1>7, <2>1 DEF Core
<1>9. Bounded(session)
    BY <1>2, <1>3 DEF Bounded
<1>10. Awaited(session) /\ LineFits(session) /\ Obeyed(session)
    BY <1>3, <1>4 DEF Awaited, LineFits, Obeyed
<1>11. Accounted(session, answered, refused, dropped)
    BY <1>3, <1>4 DEF Init, Accounted, Split
<1>12. QED
    BY <1>6, <1>8, <1>9, <1>10, <1>11 DEF Init, Kept, Sound

-------------------------------------------------------------------------------
(* The interface of the gateway.                                            *)

\* The phase follows from the state.
LEMMA PhaseIs ==
    ASSUME NEW s, Sound(s), s.state \in State
    PROVE  /\ s.state = "idle" => Phase(s) = "idle"
           /\ s.state \in Live => Phase(s) = "live"
           /\ s.state = "transferring" => Phase(s) = "handoff"
           /\ s.state = "ending" => Phase(s) = "closing"
           /\ s.state = "ended" => Phase(s) = "over"
           /\ s.state \in {"idle", "transferring", "ending", "ended"} \cup Live
<1>1. s.state \in {"idle", "transferring", "ending", "ended"} \cup Live
    BY DEF State, Live
<1>2. CASE s.state = "idle"
    BY <1>1, <1>2 DEF Phase, Live, Open, Closing
<1>3. CASE s.state = "ending"
    BY <1>1, <1>3 DEF Phase, Live, Open, Closing
<1>4. CASE s.state = "ended"
    BY <1>1, <1>4 DEF Phase, Live, Open, Closing
<1>5. CASE s.state = "transferring"
    BY <1>1, <1>5 DEF Phase, Live, Open, Closing
<1>6. CASE s.state \in Live
  <2>1. ~s.bridging
      BY <1>6 DEF Sound, Core, Live
  <2>2. QED
      BY <1>6, <2>1 DEF Phase, Live, Open, Closing
<1>7. QED
    BY <1>1, <1>2, <1>3, <1>4, <1>5, <1>6

\* The interface, of values before and after a step.
Seam(exclusive, phase, turn, busy, phase2, turn2, busy2) ==
    \/ phase = "idle" /\ phase2 = "live" /\ turn2 = turn /\ busy2 = busy
    \/ phase = "live" /\ ~busy /\ turn2 = turn + 1 /\ busy2 = TRUE /\ phase2 = phase
    \/ /\ busy /\ busy2 = FALSE /\ turn2 = turn
       /\ phase2 = phase \/ (phase \in {"live", "handoff"} /\ phase2 = "closing")
    \/ phase = "live" /\ busy /\ turn2 = turn + 1 /\ phase2 = phase /\ busy2 = busy
    \/ /\ phase = "live" /\ (exclusive => ~busy) /\ phase2 = "handoff"
       /\ turn2 = turn /\ busy2 = busy
    \/ phase = "handoff" /\ phase2 = "live" /\ turn2 = turn /\ busy2 = busy
    \/ phase \in {"idle", "live", "handoff"} /\ phase2 = "closing" /\ turn2 = turn /\ busy2 = busy
    \/ phase = "closing" /\ ~busy /\ phase2 = "over" /\ turn2 = turn /\ busy2 = busy
    \/ phase2 = phase /\ turn2 = turn /\ busy2 = busy

\* An event that settles no turn is a step of the interface, or none.
LEMMA QuietIsSeam ==
    ASSUME NEW exclusive, NEW s, Sound(s), s.state \in State, NEW t, Sound(t), t.state \in State,
           Keeps(s, t) \/ Commits(s, t), Leads(exclusive, s, t)
    PROVE  Seam(exclusive, Phase(s), s.turnIndex, InFlight(s), Phase(t), t.turnIndex, InFlight(t))
<1>1. CASE Commits(s, t)
  <2>1. s.state \in Live /\ t.state \in Live
      BY <1>1 DEF Commits, State, Live
  <2>2. Phase(s) = "live" /\ Phase(t) = "live"
      BY <2>1, PhaseIs
  <2>3. ~InFlight(s) /\ InFlight(t) /\ t.turnIndex = s.turnIndex + 1
      BY <1>1 DEF Commits
  <2>4. InFlight(t) = TRUE
      BY <2>3 DEF InFlight
  <2>5. QED
      BY <2>2, <2>3, <2>4, Zenon DEF Seam
<1>2. CASE Keeps(s, t)
  <2>1. t.turnIndex = s.turnIndex /\ InFlight(t) = InFlight(s)
      BY <1>2 DEF Keeps, InFlight
  <2>2. CASE t.state = s.state
    <3>1. Phase(t) = Phase(s)
        BY <2>2, PhaseIs
    <3>2. QED
        BY <2>1, <3>1 DEF Seam
  <2>3. CASE t.state = "ending" /\ ~Closing(s)
    <3>1. Phase(t) = "closing" /\ Phase(s) \in {"idle", "live", "handoff"}
        BY <2>3, PhaseIs DEF Closing
    <3>2. QED
        BY <2>1, <3>1 DEF Seam
  <2>4. CASE {s.state, t.state} \subseteq Live
    <3>1. Phase(t) = Phase(s)
        BY <2>4, PhaseIs
    <3>2. QED
        BY <2>1, <3>1 DEF Seam
  <2>5. CASE s.state = "idle" /\ t.state \in Live
    <3>1. Phase(s) = "idle" /\ Phase(t) = "live"
        BY <2>5, PhaseIs
    <3>2. QED
        BY <2>1, <3>1 DEF Seam
  <2>6. CASE s.state = "transferring" /\ t.state \in Live
    <3>1. Phase(s) = "handoff" /\ Phase(t) = "live"
        BY <2>6, PhaseIs
    <3>2. QED
        BY <2>1, <3>1 DEF Seam
  <2>7. CASE s.state \in Live /\ t.state = "transferring" /\ (exclusive => ~InFlight(s))
    <3>1. Phase(s) = "live" /\ Phase(t) = "handoff"
        BY <2>7, PhaseIs
    <3>2. QED
        BY <2>1, <2>7, <3>1 DEF Seam
  <2>8. CASE s.state = "ending" /\ t.state = "ended" /\ ~InFlight(s)
    <3>1. Phase(s) = "closing" /\ Phase(t) = "over"
        BY <2>8, PhaseIs
    <3>2. QED
        BY <2>1, <2>8, <3>1 DEF Seam
  <2>9. QED
      BY <2>2, <2>3, <2>4, <2>5, <2>6, <2>7, <2>8 DEF Leads, GoesOn
<1>3. QED
    BY <1>1, <1>2

\* So is one that does.
LEMMA SettledIsSeam ==
    ASSUME NEW exclusive, NEW s, Sound(s), s.state \in State, NEW t, Sound(t), t.state \in State,
           NEW b, InFlight(s), ~InFlight(b), b.state = s.state, b.turnIndex = s.turnIndex,
           Keeps(b, t) \/ Commits(b, t), GoesOn(b, t)
    PROVE  Seam(exclusive, Phase(s), s.turnIndex, InFlight(s), Phase(t), t.turnIndex, InFlight(t))
<1>1. InFlight(s) /\ InFlight(s) = TRUE /\ ~InFlight(b) /\ b.state = s.state
      /\ b.turnIndex = s.turnIndex
    BY DEF InFlight
<1>2. CASE Commits(b, t)
  <2>1. s.state \in Live /\ t.state \in Live
      BY <1>1, <1>2 DEF Commits, State, Live
  <2>2. Phase(s) = "live" /\ Phase(t) = "live"
      BY <2>1, PhaseIs
  <2>3. InFlight(t) /\ InFlight(t) = TRUE /\ t.turnIndex = s.turnIndex + 1
      BY <1>1, <1>2 DEF Commits, InFlight
  <2>4. QED
      BY <1>1, <2>2, <2>3 DEF Seam
<1>3. CASE Keeps(b, t)
  <2>1. t.turnIndex = s.turnIndex /\ InFlight(t) = FALSE
      BY <1>1, <1>3 DEF Keeps, InFlight
  <2>2. Phase(t) = Phase(s) \/ (Phase(s) \in {"live", "handoff"} /\ Phase(t) = "closing")
    <3>1. s.state # "idle"
        BY <1>1 DEF Sound, Awaited
    <3>2. CASE t.state = s.state
        BY <3>2, PhaseIs
    <3>3. CASE t.state = "ending" /\ ~Closing(s)
        BY <3>1, <3>3, PhaseIs DEF Closing
    <3>4. CASE {s.state, t.state} \subseteq Live
        BY <3>4, PhaseIs
    <3>5. QED
        BY <1>1, <3>2, <3>3, <3>4 DEF GoesOn, Closing
  <2>3. QED
      BY <1>1, <2>1, <2>2, Zenon DEF Seam
<1>4. QED
    BY <1>2, <1>3, Zenon

\* Every event is.
LEMMA EventIsSeam ==
    ASSUME Kept, Next
    PROVE  Seam(TRUE, Phase(session), session.turnIndex, InFlight(session),
                Phase(session'), (session').turnIndex, InFlight(session'))
<1> DEFINE s == session
           t == session'
<1>0. Sound(s) /\ s.state \in State
    BY DEF Kept, Session
<1>1. CASE Quiet(s, t)
    BY <1>0, <1>1, QuietIsSeam, Zenon DEF Quiet, Becomes, Session
<1>2. CASE Hearing(s, t)
  <2>1. PICK u \in Utterances : u \notin s.seen /\ Becomes(Hears(s, u), t)
                                /\ GoesOn(Hears(s, u), t)
      BY <1>2 DEF Hearing
  <2> DEFINE b == Hears(s, u)
  <2>2. /\ b \in Session /\ Sound(b) /\ b.turn = s.turn /\ b.state = s.state
        /\ b.turnIndex = s.turnIndex
      BY <2>1, HeardIsSound DEF Kept
  <2>3. Becomes(b, t) /\ GoesOn(b, t)
      BY <2>1
  <2> HIDE DEF b
  <2>4. Seam(TRUE, Phase(b), b.turnIndex, InFlight(b), Phase(t), t.turnIndex, InFlight(t))
      BY <1>0, <2>2, <2>3, QuietIsSeam, Zenon DEF Becomes, Leads, Session
  <2>5. Phase(b) = Phase(s)
      BY <1>0, <2>2, PhaseIs
  <2>6. InFlight(b) = InFlight(s)
      BY <2>2 DEF InFlight
  <2>7. QED
      BY <2>2, <2>4, <2>5, <2>6, Zenon
<1>3. CASE Settlement(s, t)
  <2>1. PICK b \in Session : TurnIsOver(Session, s, b) /\ Becomes(b, t) /\ GoesOn(b, t)
      BY <1>3 DEF Settlement
  <2>2. QED
      BY <1>0, <2>1, SettledIsSeam, Zenon DEF TurnIsOver, Becomes, Session
<1>4. QED
    BY <1>1, <1>2, <1>3, EventIs, Zenon

-------------------------------------------------------------------------------
(* What holds of the runs.                                                  *)

MCNext == InProcess \/ Pipecat \/ Worker \/ Website

MCVars == <<engine, vars, remoteVars, gateVars, pageVars>>

\* The session of the process is as it was, or an event has happened.
LEMMA SessionStep ==
    ASSUME [MCNext]_MCVars
    PROVE  Next \/ UNCHANGED vars
BY DEF MCNext, MCVars, InProcess, Pipecat, Worker, Website

\* The session in the process is sound, and its words are accounted for, in every run
\* (packages/voice/voice-session.ts).
THEOREM SessionIsKept == MCSpec => []Kept
<1>1. MCInit => Kept
    BY KeptAtFirst DEF MCInit
<1>2. Kept /\ [MCNext]_MCVars => Kept'
  <2> SUFFICES ASSUME Kept, [MCNext]_MCVars PROVE Kept'
      OBVIOUS
  <2>1. CASE Next
      BY <2>1, EventKeeps
  <2>2. CASE UNCHANGED vars
      BY <2>2 DEF vars, Kept
  <2>3. QED
      BY <2>1, <2>2, SessionStep
<1>3. QED
    BY <1>1, <1>2, PTL DEF MCSpec, MCNext, MCVars

\* A delivery of a reply stands, and an ended session leaves none without one
\* (recordDelivery, settlePlayback).
THEOREM DeliveryStands == MCSpec => DeliveryIsFinal
<1> DEFINE A == /\ \A n \in Turns :
                      session.transcript[n] \in {"complete", "interrupted", "not_delivered"}
                      => session'.transcript[n] = session.transcript[n]
                /\ session'.state = "ended"
                      => \A n \in Turns : session'.transcript[n] # "playing"
<1>1. Kept /\ [MCNext]_MCVars => [A]_vars
  <2> SUFFICES ASSUME Kept, [MCNext]_MCVars, ~(UNCHANGED vars) PROVE A
      OBVIOUS
  <2>1. Next
      BY SessionStep
  <2>2. Kept' /\ FinalStays(session, session')
      BY <2>1, EventKeeps
  <2>3. Sound(session')
      BY <2>2 DEF Kept
  <2>4. ASSUME session'.state = "ended", NEW n \in Turns
        PROVE  session'.transcript[n] # "playing"
      BY <2>3, <2>4 DEF Sound, Core, Delivered
  <2>5. QED
      BY <2>2, <2>4 DEF FinalStays, Heard
<1> HIDE DEF A
<1>2. DeliveryIsFinal <=> [][A]_vars
    BY DEF DeliveryIsFinal, A
<1>3. QED
    BY <1>1, <1>2, SessionIsKept, PTL DEF MCSpec, MCNext, MCVars

\* The engine in the process implements what the gateway relies on (media-session.ts).
THEOREM SessionImplements == MCSpec => ImplementsInterface
<1>1. MCInit => Interface!Init
  <2> SUFFICES ASSUME MCInit PROVE Interface!Init
      OBVIOUS
  <2>1. session \in Session /\ Sound(session) /\ session.state = "idle"
        /\ session.turnIndex = 0 /\ session.turn = NoTurn
      BY KeptAtFirst DEF MCInit, Init, Kept
  <2>2. Phase(session) = "idle" /\ InFlight(session) = FALSE
      BY <2>1, PhaseIs DEF InFlight, State
  <2>3. QED
      BY <2>1, <2>2 DEF Interface!Init
<1>2. Kept /\ [MCNext]_MCVars => [Interface!Next]_(Interface!vars)
  <2> SUFFICES ASSUME Kept, [MCNext]_MCVars PROVE [Interface!Next]_(Interface!vars)
      OBVIOUS
  <2> DEFINE p == Phase(session)
             i == session.turnIndex
             b == InFlight(session)
  <2>1. CASE Next
    <3>1. Seam(TRUE, p, i, b, p', i', b')
        BY <2>1, EventIsSeam, Zenon
    <3>2. QED
        BY <3>1
           DEF Seam, Interface!Next, Interface!vars, Interface!Start, Interface!BeginTurn,
               Interface!SettleTurn, Interface!SettleAndBegin, Interface!HandOff,
               Interface!HandOffFails, Interface!End, Interface!Ended
  <2>2. CASE UNCHANGED vars
      BY <2>2 DEF vars, Interface!vars, Phase, InFlight, Open, Closing
  <2>3. QED
      BY <2>1, <2>2, SessionStep
<1>3. QED
    BY <1>1, <1>2, SessionIsKept, PTL
       DEF MCSpec, MCNext, MCVars, ImplementsInterface, Interface!Spec

-------------------------------------------------------------------------------
(* The widget's voice loop.                                                 *)

\* The session of the page, with its counts.
PageVoice ==
    [provider : {"halo", "browser"}, state : {"idle", "listening", "processing", "speaking"},
     gotFinal : BOOLEAN, silent : Nat, errors : Nat,
     watchdog : BOOLEAN, retry : BOOLEAN, asking : BOOLEAN,
     engine : {"off", "on", "thinking", "done"}, stale : BOOLEAN,
     playback : {"off", "fetching", "playing"}, tail : BOOLEAN, over : BOOLEAN]

\* Nothing is about to capture.
Calm(v) ==
    /\ ~v.watchdog /\ ~v.retry /\ ~v.asking
    /\ v.engine \notin {"on", "thinking"}

\* A listen has an end, a result is taken once, and a reply that is played over a listen
\* is known to be.
Loops(v) ==
    /\ v.state = "listening" => v.watchdog \/ v.retry \/ v.asking
    /\ v.state = "speaking" => v.playback # "off"
    /\ v.watchdog => ~v.gotFinal
    /\ v.state = "listening" /\ v.engine # "off" => ~v.gotFinal
    /\ v.state = "idle" => Calm(v) /\ v.engine = "off"
    /\ v.state = "processing" => Calm(v) /\ v.gotFinal
    /\ v.state = "speaking" /\ ~v.over => Calm(v) /\ v.gotFinal
    /\ v.playback # "off" /\ ~v.over => v.state = "speaking"
    /\ v.engine # "off" => ~v.retry /\ ~v.asking

\* Nothing runs, and nothing is played.
AtRest(v) == v.state = "idle" /\ Calm(v) /\ v.engine = "off" /\ v.playback = "off"

\* teardownRecognition.
LEMMA TeardownSets ==
    ASSUME NEW v \in PageVoice
    PROVE  LET t == Page!Teardown(v) IN
           /\ t \in PageVoice /\ Calm(t) /\ t.engine = "off"
           /\ t.state = v.state /\ t.gotFinal = v.gotFinal /\ t.playback = v.playback
           /\ t.over = v.over /\ t.provider = v.provider
BY Zenon DEF Page!Teardown, Page!LateCallbacks, PageVoice, Calm

\* cancelSpeech.
LEMMA CancelSets ==
    ASSUME NEW v \in PageVoice
    PROVE  LET t == Page!CancelSpeech(v) IN
           /\ t \in PageVoice /\ t.playback = "off"
           /\ t.state = v.state /\ t.gotFinal = v.gotFinal /\ t.watchdog = v.watchdog
           /\ t.retry = v.retry /\ t.asking = v.asking /\ t.engine = v.engine
           /\ t.over = v.over /\ t.provider = v.provider
BY Zenon DEF Page!CancelSpeech, Page!LateCallbacks, PageVoice

\* listen() begins afresh; it is no dead end.
LEMMA ListenLoops ==
    ASSUME NEW v \in PageVoice, v.playback # "off" => v.over
    PROVE  Page!Listen(v) \in PageVoice /\ Loops(Page!Listen(v))
<1> DEFINE b == Page!Teardown(v)
           t == Page!Listen(v)
<1>1. /\ b \in PageVoice /\ Calm(b) /\ b.playback = v.playback /\ b.over = v.over
    BY TeardownSets
<1>2. t = [b EXCEPT !.state = "listening", !.gotFinal = FALSE, !.watchdog = TRUE,
                    !.engine = "on"]
    BY DEF Page!Listen
<1> HIDE DEF b, t
<1>3. /\ t \in PageVoice /\ t.state = "listening" /\ t.gotFinal = FALSE /\ t.watchdog = TRUE
      /\ t.engine = "on" /\ t.playback = b.playback /\ t.over = b.over
      /\ t.retry = b.retry /\ t.asking = b.asking
    BY <1>1, <1>2, Zenon DEF PageVoice
<1>4. QED
    BY <1>1, <1>3 DEF Loops, Calm, t

\* stop() leaves nothing running.
LEMMA StopLoops ==
    ASSUME NEW v \in PageVoice
    PROVE  Page!Stop(v) \in PageVoice /\ Loops(Page!Stop(v)) /\ AtRest(Page!Stop(v))
<1> DEFINE b == Page!Teardown(v)
           c == Page!CancelSpeech(b)
           t == Page!Stop(v)
<1>1. b \in PageVoice /\ Calm(b) /\ b.engine = "off"
    BY TeardownSets
<1> HIDE DEF b
<1>2. /\ c \in PageVoice /\ c.playback = "off" /\ c.watchdog = b.watchdog
      /\ c.retry = b.retry /\ c.asking = b.asking /\ c.engine = b.engine
    BY <1>1, CancelSets
<1>3. t = [c EXCEPT !.state = "idle"]
    BY DEF Page!Stop, b
<1> HIDE DEF c, t
<1>4. /\ t \in PageVoice /\ t.state = "idle" /\ t.playback = "off" /\ t.watchdog = c.watchdog
      /\ t.retry = c.retry /\ t.asking = c.asking /\ t.engine = c.engine
    BY <1>2, <1>3 DEF PageVoice
<1>5. QED
    BY <1>1, <1>2, <1>4 DEF Loops, Calm, AtRest, t

\* handleTap of a session that loops.
LEMMA TapLoops ==
    ASSUME NEW v \in PageVoice, Loops(v)
    PROVE  Page!HandleTap(v) \in PageVoice /\ Loops(Page!HandleTap(v))
<1> DEFINE t == Page!HandleTap(v)
<1>1. CASE v.state = "idle"
  <2> DEFINE fresh == [v EXCEPT !.silent = 0, !.errors = 0]
  <2>1. t = IF v.provider = "browser"
            THEN [fresh EXCEPT !.state = "listening", !.asking = TRUE]
            ELSE Page!Listen(fresh)
      BY <1>1 DEF Page!HandleTap, Page!Start
  <2>2. /\ fresh \in PageVoice /\ fresh.state = v.state /\ fresh.gotFinal = v.gotFinal
        /\ fresh.watchdog = v.watchdog /\ fresh.retry = v.retry /\ fresh.asking = v.asking
        /\ fresh.engine = v.engine /\ fresh.playback = v.playback /\ fresh.over = v.over
      BY Zenon DEF PageVoice
  <2> HIDE DEF fresh
  <2>3. CASE v.provider = "browser"
    <3>1. t = [fresh EXCEPT !.state = "listening", !.asking = TRUE]
        BY <2>1, <2>3
    <3> HIDE DEF t
    <3>2. /\ t \in PageVoice /\ t.state = "listening" /\ t.asking = TRUE
          /\ t.watchdog = v.watchdog /\ t.retry = v.retry /\ t.engine = v.engine
          /\ t.playback = v.playback /\ t.over = v.over /\ t.gotFinal = v.gotFinal
        BY <2>2, <3>1, Zenon DEF PageVoice
    <3>3. QED
        BY <1>1, <3>2 DEF Loops, Calm, t
  <2>4. CASE v.provider # "browser"
    <3>1. fresh.playback # "off" => fresh.over
        BY <1>1, <2>2 DEF Loops
    <3>2. QED
        BY <2>1, <2>2, <2>4, <3>1, ListenLoops
  <2>5. QED
      BY <2>3, <2>4
<1>2. CASE v.state = "speaking"
  <2> DEFINE b == Page!CancelSpeech(v)
             c == [b EXCEPT !.silent = 0]
  <2>1. t = Page!Listen(c)
      BY <1>2 DEF Page!HandleTap, Page!Interrupt
  <2>2. b \in PageVoice /\ b.playback = "off"
      BY CancelSets
  <2> HIDE DEF b
  <2>3. c \in PageVoice /\ c.playback = "off"
      BY <2>2 DEF PageVoice
  <2>4. QED
      BY <2>1, <2>3, ListenLoops, Zenon
<1>3. CASE v.state \in {"listening", "processing"}
  <2>1. t = Page!Stop(v)
      BY <1>3 DEF Page!HandleTap
  <2>2. QED
      BY <2>1, StopLoops
<1>4. QED
    BY <1>1, <1>2, <1>3 DEF PageVoice

\* handleTap takes up no message.
LEMMA TapIsNoTurn ==
    ASSUME NEW v \in PageVoice
    PROVE  Page!HandleTap(v).state # "processing"
<1>1. \A u \in PageVoice : Page!Listen(u).state = "listening"
    BY TeardownSets DEF Page!Listen, PageVoice
<1>2. CASE v.state = "idle"
  <2> DEFINE fresh == [v EXCEPT !.silent = 0, !.errors = 0]
  <2>1. fresh \in PageVoice
      BY Zenon DEF PageVoice
  <2>2. \/ Page!HandleTap(v) = [fresh EXCEPT !.state = "listening", !.asking = TRUE]
        \/ Page!HandleTap(v) = Page!Listen(fresh)
      BY <1>2 DEF Page!HandleTap, Page!Start
  <2>3. QED
      BY <1>1, <2>1, <2>2, Zenon DEF PageVoice
<1>3. CASE v.state = "speaking"
  <2> DEFINE b == Page!CancelSpeech(v)
  <2>1. Page!HandleTap(v) = Page!Listen([b EXCEPT !.silent = 0])
      BY <1>3 DEF Page!HandleTap, Page!Interrupt
  <2>2. b \in PageVoice
      BY CancelSets
  <2> HIDE DEF b
  <2>3. [b EXCEPT !.silent = 0] \in PageVoice
      BY <2>2 DEF PageVoice
  <2>4. QED
      BY <1>1, <2>1, <2>3
<1>4. CASE v.state \in {"listening", "processing"}
  <2>1. Page!HandleTap(v) = Page!Stop(v)
      BY <1>4 DEF Page!HandleTap
  <2>2. QED
      BY <2>1, StopLoops DEF AtRest
<1>5. QED
    BY <1>2, <1>3, <1>4 DEF PageVoice

\* handleSilence listens again, or gives up.
LEMMA SilenceLoops ==
    ASSUME NEW v \in PageVoice, ~v.gotFinal, v.playback # "off" => v.over
    PROVE  LET t == Page!HandleSilence(v) IN
           t \in PageVoice /\ Loops(t) /\ t.state # "processing"
<1> DEFINE again == [v EXCEPT !.silent = v.silent + 1]
           t == Page!HandleSilence(v)
<1>1. /\ again \in PageVoice /\ again.playback = v.playback /\ again.over = v.over
    BY DEF PageVoice
<1>2. MaxSilent \in Nat /\ again.silent \in Nat
    BY <1>1, WidgetAssumption DEF PageVoice
<1>3. CASE again.silent < MaxSilent
  <2>1. t = Page!Listen(again)
      BY <1>2, <1>3 DEF Page!HandleSilence
  <2>2. t.state = "listening"
      BY <1>1, <2>1, TeardownSets DEF Page!Listen, PageVoice
  <2>3. QED
      BY <1>1, <2>1, <2>2, ListenLoops, Zenon
<1>4. CASE ~(again.silent < MaxSilent)
  <2> DEFINE b == Page!Teardown(again)
  <2>1. t = [b EXCEPT !.state = "idle"]
      BY <1>2, <1>4 DEF Page!HandleSilence
  <2>2. /\ b \in PageVoice /\ Calm(b) /\ b.engine = "off" /\ b.playback = v.playback
        /\ b.over = v.over
      BY <1>1, TeardownSets, Zenon
  <2> HIDE DEF b, t
  <2>3. /\ t \in PageVoice /\ t.state = "idle" /\ t.watchdog = b.watchdog
        /\ t.retry = b.retry /\ t.asking = b.asking /\ t.engine = b.engine
        /\ t.playback = b.playback /\ t.over = b.over
      BY <2>1, <2>2 DEF PageVoice
  <2>4. QED
      BY <2>2, <2>3 DEF Loops, Calm, t
<1>5. QED
    BY <1>3, <1>4

\* A recognition that fails ends the listen, tries again or leaves the reply to be heard.
LEMMA ErrorLoops ==
    ASSUME NEW v \in PageVoice, NEW error \in {"fatal", "no_speech", "transient"},
           Calm(v), v.state # "idle", ~v.gotFinal => (v.playback # "off" => v.over),
           v.state = "listening" => ~v.gotFinal, v.state = "processing" => v.gotFinal,
           v.state = "speaking" => v.playback # "off" /\ (v.over \/ v.gotFinal),
           v.playback # "off" /\ ~v.over => v.state = "speaking"
    PROVE  LET t == Page!HandleError(v, error) IN
           t \in PageVoice /\ Loops(t) /\ (t.state = "processing" => v.state = "processing")
<1> DEFINE again == [v EXCEPT !.errors = v.errors + 1]
           t == Page!HandleError(v, error)
<1>1. /\ again \in PageVoice /\ Calm(again) /\ again.state = v.state
      /\ again.gotFinal = v.gotFinal /\ again.playback = v.playback /\ again.over = v.over
    BY DEF PageVoice, Calm
<1>2. MaxRetries \in Nat /\ again.errors \in Nat
    BY <1>1, WidgetAssumption DEF PageVoice
<1>3. CASE error = "fatal"
  <2>1. t = Page!Stop(v)
      BY <1>3 DEF Page!HandleError
  <2>2. QED
      BY <2>1, StopLoops DEF AtRest
<1>4. CASE error = "no_speech"
  <2>1. t = Page!HandleSilence(v)
      BY <1>4 DEF Page!HandleError
  <2>2. CASE v.gotFinal
    <3>1. t = v
        BY <2>1, <2>2 DEF Page!HandleSilence
    <3>2. QED
        BY <2>2, <3>1 DEF Loops, Calm
  <2>3. CASE ~v.gotFinal
      BY <2>1, <2>3, SilenceLoops
  <2>4. QED
      BY <2>2, <2>3
<1>5. CASE error = "transient"
  <2>1. t = IF again.errors > MaxRetries THEN Page!Stop(again)
            ELSE IF v.state = "listening" THEN Page!RetryLater(again) ELSE again
      BY <1>2, <1>5 DEF Page!HandleError
  <2> HIDE DEF again
  <2>2. CASE again.errors > MaxRetries
      BY <1>1, <2>1, <2>2, StopLoops DEF AtRest
  <2>3. CASE ~(again.errors > MaxRetries) /\ v.state = "listening"
    <3> DEFINE b == Page!Teardown(again)
    <3>1. t = [b EXCEPT !.retry = TRUE]
        BY <2>1, <2>3 DEF Page!RetryLater
    <3>2. /\ b \in PageVoice /\ Calm(b) /\ b.engine = "off" /\ b.state = v.state
          /\ b.gotFinal = v.gotFinal /\ b.playback = v.playback /\ b.over = v.over
        BY <1>1, TeardownSets
    <3> HIDE DEF b, t
    <3>3. /\ t \in PageVoice /\ t.state = b.state /\ t.gotFinal = b.gotFinal /\ t.retry = TRUE
          /\ t.watchdog = b.watchdog /\ t.engine = b.engine
          /\ t.playback = b.playback /\ t.over = b.over
        BY <3>1, <3>2, Zenon DEF PageVoice
    <3>4. QED
        BY <2>3, <3>2, <3>3 DEF Loops, Calm, t
  <2>4. CASE ~(again.errors > MaxRetries) /\ v.state # "listening"
    <3>1. t = again
        BY <2>1, <2>4
    <3>2. QED
        BY <1>1, <2>4, <3>1 DEF Loops, Calm
  <2>5. QED
      BY <2>2, <2>3, <2>4
<1>6. QED
    BY <1>3, <1>4, <1>5

\* The reply is spoken by a session that is not idle, over a listen if there is one.
LEMMA ReplyLoops ==
    ASSUME NEW v \in PageVoice, Loops(v)
    PROVE  LET t == Page!SpeakReply(v) IN
           /\ t \in PageVoice /\ Loops(t) /\ t.state # "processing"
           /\ AtRest(v) => t = v
           /\ v.state = "idle" => t.state = "idle"
<1> DEFINE b == Page!CancelSpeech(v)
           fetched == IF v.provider = "halo" THEN "fetching" ELSE "playing"
           under == v.state = "listening" \/ (v.state = "speaking" /\ v.over)
           t == Page!SpeakReply(v)
<1>1. CASE v.state = "idle"
    BY <1>1 DEF Page!SpeakReply
<1>2. CASE v.state # "idle"
  <2>1. t = [b EXCEPT !.state = "speaking", !.playback = fetched, !.over = under]
      BY <1>2 DEF Page!SpeakReply
  <2>2. /\ b \in PageVoice /\ b.gotFinal = v.gotFinal /\ b.watchdog = v.watchdog
        /\ b.retry = v.retry /\ b.asking = v.asking /\ b.engine = v.engine
      BY CancelSets
  <2>3. under \in BOOLEAN /\ fetched \in {"fetching", "playing"}
      OBVIOUS
  <2>4. ~under => Calm(v) /\ v.gotFinal
      BY <1>2 DEF Loops, PageVoice
  <2> HIDE DEF b, t, under, fetched
  <2>5. /\ t \in PageVoice /\ t.state = "speaking" /\ t.playback = fetched /\ t.over = under
        /\ t.gotFinal = b.gotFinal /\ t.watchdog = b.watchdog
        /\ t.retry = b.retry /\ t.asking = b.asking /\ t.engine = b.engine
      BY <2>1, <2>2, <2>3, Zenon DEF PageVoice
  <2>6. QED
      BY <1>2, <2>2, <2>3, <2>4, <2>5 DEF Loops, Calm, AtRest, t
<1>3. QED
    BY <1>1, <1>2

\* What a callback may do: it takes up no message, and wakes nothing that is at rest.
LoopsOn(v, t) ==
    /\ t \in PageVoice
    /\ Loops(t)
    /\ t.state = "processing" => v.state = "processing"
    /\ v.state = "idle" => t.state = "idle"
    /\ AtRest(v) => AtRest(t)

\* The callbacks of the recognition.
LEMMA RecognitionLoops ==
    ASSUME voice \in PageVoice, Loops(voice),
           Page!Transcribes \/ Page!EngineEnds \/ Page!EngineFails \/ Page!StaleCallback
    PROVE  LoopsOn(voice, voice')
<1> DEFINE v == voice
           t == voice'
<1>1. CASE Page!Transcribes
  <2>1. t = [v EXCEPT !.engine = "thinking"] /\ v.engine = "on"
      BY <1>1 DEF Page!Transcribes
  <2>2. /\ t \in PageVoice /\ t.engine = "thinking" /\ t.state = v.state
        /\ t.gotFinal = v.gotFinal /\ t.watchdog = v.watchdog /\ t.retry = v.retry
        /\ t.asking = v.asking /\ t.playback = v.playback /\ t.over = v.over
      BY <2>1 DEF PageVoice
  <2> HIDE DEF t
  <2>3. QED
      BY <2>1, <2>2 DEF LoopsOn, Loops, Calm, AtRest, t
<1>2. CASE Page!EngineEnds
  <2> DEFINE b == [v EXCEPT !.engine = "off"]
             quiet == [b EXCEPT !.watchdog = FALSE]
  <2>1. v.engine # "off" /\ t = Page!OnEnd(b, TRUE)
      BY <1>2 DEF Page!EngineEnds
  <2>2. t = IF b.state = "listening" THEN Page!HandleSilence(quiet) ELSE quiet
      BY <2>1 DEF Page!OnEnd, Page!Drives
  <2>3. /\ quiet \in PageVoice /\ quiet.engine = "off" /\ quiet.state = v.state
        /\ quiet.gotFinal = v.gotFinal /\ quiet.watchdog = FALSE /\ quiet.retry = v.retry
        /\ quiet.asking = v.asking /\ quiet.playback = v.playback /\ quiet.over = v.over
        /\ b.state = v.state
      BY Zenon DEF PageVoice
  <2> HIDE DEF b, quiet, t
  <2>4. ~AtRest(v)
      BY <2>1 DEF AtRest
  <2>5. CASE v.state = "listening"
    <3>1. ~quiet.gotFinal /\ (quiet.playback # "off" => quiet.over)
        BY <2>1, <2>3, <2>5 DEF Loops
    <3>2. QED
        BY <2>2, <2>3, <2>4, <2>5, <3>1, SilenceLoops DEF LoopsOn, t
  <2>6. CASE v.state # "listening"
      BY <2>2, <2>3, <2>4, <2>6 DEF LoopsOn, Loops, Calm, t
  <2>7. QED
      BY <2>5, <2>6
<1>3. CASE Page!EngineFails
  <2>1. PICK error \in {"fatal", "no_speech", "transient"} :
             t = Page!OnError([v EXCEPT !.engine = IF Page!Browser THEN "done" ELSE "off"],
                              TRUE, error)
      BY <1>3, Zenon DEF Page!EngineFails
  <2> DEFINE engine2 == IF Page!Browser THEN "done" ELSE "off"
             b == [v EXCEPT !.engine = engine2]
             quiet == [b EXCEPT !.watchdog = FALSE]
  <2>2. v.engine # "off"
      BY <1>3 DEF Page!EngineFails
  <2>3. t = Page!HandleError(quiet, error)
      BY <2>1 DEF Page!OnError, Page!Drives
  <2>4. engine2 \in {"done", "off"}
      OBVIOUS
  <2> HIDE DEF engine2
  <2>5. /\ quiet \in PageVoice /\ quiet.engine = engine2 /\ quiet.state = v.state
        /\ quiet.gotFinal = v.gotFinal /\ quiet.watchdog = FALSE /\ quiet.retry = v.retry
        /\ quiet.asking = v.asking /\ quiet.playback = v.playback /\ quiet.over = v.over
      BY <2>4, Zenon DEF PageVoice
  <2> HIDE DEF quiet, t
  <2>6. /\ Calm(quiet) /\ quiet.state # "idle"
        /\ ~quiet.gotFinal => (quiet.playback # "off" => quiet.over)
        /\ quiet.state = "listening" => ~quiet.gotFinal
        /\ quiet.state = "processing" => quiet.gotFinal
        /\ quiet.state = "speaking" => quiet.playback # "off" /\ (quiet.over \/ quiet.gotFinal)
        /\ quiet.playback # "off" /\ ~quiet.over => quiet.state = "speaking"
      BY <2>2, <2>4, <2>5 DEF Loops, Calm, PageVoice
  <2>7. QED
      BY <2>2, <2>3, <2>5, <2>6, ErrorLoops DEF LoopsOn, AtRest, t
<1>4. CASE Page!StaleCallback
  <2>1. t = [v EXCEPT !.stale = FALSE]
      BY <1>4 DEF Page!StaleCallback, Page!OnEnd, Page!OnError, Page!Drives
  <2>2. /\ t \in PageVoice /\ t.engine = v.engine /\ t.state = v.state
        /\ t.gotFinal = v.gotFinal /\ t.watchdog = v.watchdog /\ t.retry = v.retry
        /\ t.asking = v.asking /\ t.playback = v.playback /\ t.over = v.over
      BY <2>1, Zenon DEF PageVoice
  <2> HIDE DEF t
  <2>3. QED
      BY <2>2 DEF LoopsOn, Loops, Calm, AtRest, t
<1>5. QED
    BY <1>1, <1>2, <1>3, <1>4

\* A retry or a permission that is due to a session no longer listening is dropped.
LEMMA DueLoops ==
    ASSUME NEW v \in PageVoice, Loops(v), NEW b \in PageVoice, NEW t, v.retry \/ v.asking,
           b.state = v.state, b.gotFinal = v.gotFinal, b.watchdog = v.watchdog,
           b.engine = v.engine, b.playback = v.playback, b.over = v.over,
           b.retry => v.retry, b.asking => v.asking,
           \/ v.state # "listening" /\ t = b
           \/ v.state = "listening" /\ (t = Page!Listen(b) \/ t = Page!Stop(b))
    PROVE  LoopsOn(v, t)
<1>1. ~AtRest(v)
    BY DEF AtRest, Calm
<1>2. CASE v.state # "listening" /\ t = b
    BY <1>1, <1>2 DEF LoopsOn, Loops, Calm
<1>3. CASE t = Page!Listen(b) /\ v.state = "listening"
  <2>1. b.playback # "off" => b.over
      BY <1>3 DEF Loops
  <2>2. t.state = "listening"
      BY <1>3, TeardownSets DEF Page!Listen, PageVoice
  <2>3. QED
      BY <1>1, <1>3, <2>1, <2>2, ListenLoops DEF LoopsOn
<1>4. CASE t = Page!Stop(b) /\ v.state = "listening"
    BY <1>1, <1>4, StopLoops DEF LoopsOn, AtRest
<1>5. QED
    BY <1>2, <1>3, <1>4

\* The timers and the permission prompt.
LEMMA TimerLoops ==
    ASSUME voice \in PageVoice, Loops(voice),
           Page!WatchdogFires \/ Page!RetryFires \/ Page!PromptAnswered
    PROVE  LoopsOn(voice, voice')
<1> DEFINE v == voice
           t == voice'
<1>1. CASE Page!WatchdogFires
  <2> DEFINE b == Page!Teardown(v)
  <2>1. v.watchdog /\ t = Page!HandleSilence(b)
      BY <1>1 DEF Page!WatchdogFires
  <2>2. /\ b \in PageVoice /\ b.gotFinal = v.gotFinal /\ b.playback = v.playback
        /\ b.over = v.over
      BY TeardownSets
  <2> HIDE DEF b
  <2>3. ~b.gotFinal /\ (b.playback # "off" => b.over) /\ ~AtRest(v) /\ v.state # "idle"
      BY <2>1, <2>2 DEF Loops, Calm, AtRest
  <2>4. QED
      BY <2>1, <2>2, <2>3, SilenceLoops DEF LoopsOn
<1>2. CASE Page!RetryFires
  <2> DEFINE b == [v EXCEPT !.retry = FALSE]
  <2>1. v.retry /\ t = IF v.state = "listening" THEN Page!Listen(b) ELSE b
      BY <1>2 DEF Page!RetryFires
  <2>2. /\ b \in PageVoice /\ b.state = v.state /\ b.gotFinal = v.gotFinal
        /\ b.watchdog = v.watchdog /\ b.engine = v.engine /\ b.playback = v.playback
        /\ b.over = v.over /\ b.retry = FALSE /\ b.asking = v.asking
      BY Zenon DEF PageVoice
  <2> HIDE DEF b
  <2>3. QED
      BY <2>1, <2>2, DueLoops
<1>3. CASE Page!PromptAnswered
  <2> DEFINE b == [v EXCEPT !.asking = FALSE]
  <2>1. /\ v.asking
        /\ \/ v.state = "listening" /\ t \in {Page!Listen(b), Page!Stop(b)}
           \/ v.state # "listening" /\ t = b
      BY <1>3 DEF Page!PromptAnswered
  <2>2. /\ b \in PageVoice /\ b.state = v.state /\ b.gotFinal = v.gotFinal
        /\ b.watchdog = v.watchdog /\ b.engine = v.engine /\ b.playback = v.playback
        /\ b.over = v.over /\ b.retry = v.retry /\ b.asking = FALSE
      BY Zenon DEF PageVoice
  <2> HIDE DEF b
  <2>3. QED
      BY <2>1, <2>2, DueLoops
<1>4. QED
    BY <1>1, <1>2, <1>3

\* The reply's audio.
LEMMA AudioLoops ==
    ASSUME voice \in PageVoice, Loops(voice),
           Page!Synthesized \/ Page!PlaybackEnds \/ Page!CancelledSpeechEnds
    PROVE  LoopsOn(voice, voice')
<1> DEFINE v == voice
           t == voice'
<1>1. CASE Page!Synthesized
  <2> DEFINE b == [v EXCEPT !.playback = "playing"]
  <2>1. v.playback = "fetching" /\ t \in {b, Page!Stop(v)}
      BY <1>1 DEF Page!Synthesized
  <2>2. /\ b \in PageVoice /\ b.state = v.state /\ b.gotFinal = v.gotFinal
        /\ b.watchdog = v.watchdog /\ b.engine = v.engine /\ b.playback = "playing"
        /\ b.over = v.over /\ b.retry = v.retry /\ b.asking = v.asking
      BY DEF PageVoice
  <2> HIDE DEF b
  <2>3. CASE t = b
      BY <2>1, <2>2, <2>3 DEF LoopsOn, Loops, Calm, AtRest
  <2>4. CASE t = Page!Stop(v)
      BY <2>4, StopLoops DEF LoopsOn, AtRest
  <2>5. QED
      BY <2>1, <2>3, <2>4
<1>2. CASE Page!PlaybackEnds
  <2> DEFINE b == [v EXCEPT !.playback = "off"]
             c == [b EXCEPT !.silent = 0]
  <2>1. v.playback = "playing" /\ t = IF b.state = "speaking" THEN Page!Listen(c) ELSE b
      BY <1>2 DEF Page!PlaybackEnds, Page!SpeechEnded, Page!Resumes
  <2>2. /\ b \in PageVoice /\ b.state = v.state /\ b.gotFinal = v.gotFinal
        /\ b.watchdog = v.watchdog /\ b.engine = v.engine /\ b.playback = "off"
        /\ b.over = v.over /\ b.retry = v.retry /\ b.asking = v.asking
      BY DEF PageVoice
  <2>3. c \in PageVoice /\ c.playback = "off"
      BY Zenon DEF PageVoice
  <2> HIDE DEF b, c
  <2>4. ~AtRest(v)
      BY <2>1 DEF AtRest
  <2>5. CASE v.state = "speaking"
    <3>1. t = Page!Listen(c)
        BY <2>1, <2>2, <2>5
    <3>2. t.state = "listening"
        BY <2>3, <3>1, TeardownSets DEF Page!Listen, PageVoice
    <3>3. QED
        BY <2>3, <2>4, <2>5, <3>1, <3>2, ListenLoops DEF LoopsOn
  <2>6. CASE v.state # "speaking"
      BY <2>1, <2>2, <2>4, <2>6 DEF LoopsOn, Loops, Calm
  <2>7. QED
      BY <2>5, <2>6
<1>3. CASE Page!CancelledSpeechEnds
  <2>1. t = [v EXCEPT !.tail = FALSE]
      BY <1>3 DEF Page!CancelledSpeechEnds, Page!SpeechEnded, Page!Resumes
  <2>2. /\ t \in PageVoice /\ t.engine = v.engine /\ t.state = v.state
        /\ t.gotFinal = v.gotFinal /\ t.watchdog = v.watchdog /\ t.retry = v.retry
        /\ t.asking = v.asking /\ t.playback = v.playback /\ t.over = v.over
      BY <2>1, Zenon DEF PageVoice
  <2> HIDE DEF t
  <2>3. QED
      BY <2>2 DEF LoopsOn, Loops, Calm, AtRest, t
<1>4. QED
    BY <1>1, <1>2, <1>3

-------------------------------------------------------------------------------
(* The page: the loop with the messages, the live call and the panel.       *)

\* The messages in flight.
PageSend == [id : Nat, channel : {"chat", "voice"}, phase : {"start", "ask"},
             retried : BOOLEAN]

\* The panel and the conversation.
PageWidget ==
    [open : BOOLEAN, sending : BOOLEAN, token : BOOLEAN, liveUnavailable : BOOLEAN,
     messages : Nat, late : BOOLEAN]

\* The state of the page has its type.
PageTyped ==
    /\ voice \in PageVoice
    /\ widget \in PageWidget
    /\ sends \subseteq PageSend
    /\ call \in Page!Call

\* A session that waits for a reply has asked for one.
Answered == voice.state = "processing" => \E s \in sends : s.channel = "voice"

\* The microphone is taken by a call that was not hung up.
Held(c) ==
    /\ c.ended => ~c.stream /\ c.phase \in {"mic", "resume"}
    /\ c.phase \in {"none", "offer", "mic"} => ~c.stream

\* What is left of a call behind a closed panel: at most an await that will find it over.
Gone(c) == (c.phase = "none" \/ (c.phase \in {"mic", "resume"} /\ c.ended)) /\ ~c.stream

\* Behind a closed panel nothing runs.
Shut == ~widget.open /\ ~widget.late => AtRest(voice) /\ Gone(call)

\* The session rests while a call is set up or goes on.
Alone == call.phase # "none" => voice.state = "idle"

PageKept == PageTyped /\ Loops(voice) /\ Answered /\ Held(call) /\ Shut /\ Alone

\* stop() of the live call gives the microphone back.
LEMMA HangUpReleases ==
    ASSUME NEW c \in Page!Call, Held(c)
    PROVE  LET d == Page!HangUp(c) IN
           d \in Page!Call /\ Held(d) /\ (c.phase # "offer" => Gone(d))
<1> DEFINE d == Page!HangUp(c)
<1>1. CASE c.phase \in {"none", "offer"}
  <2>1. d = c
      BY <1>1 DEF Page!HangUp
  <2>2. QED
      BY <1>1, <2>1 DEF Held, Gone
<1>2. CASE c.phase \in {"mic", "resume"}
  <2>1. d = [c EXCEPT !.ended = TRUE, !.stream = FALSE]
      BY <1>2 DEF Page!HangUp
  <2>2. QED
      BY <1>2, <2>1, Zenon DEF Held, Gone, Page!Call
<1>3. CASE c.phase \in {"socket", "live"}
  <2>1. d = Page!NoCall
      BY <1>3 DEF Page!HangUp
  <2>2. QED
      BY <2>1 DEF Held, Gone, Page!Call, Page!NoCall
<1>4. QED
    BY <1>1, <1>2, <1>3 DEF Page!Call

\* The page begins with nothing running.
LEMMA PageKeptAtFirst ==
    ASSUME Page!Init
    PROVE  PageKept
<1> DEFINE First ==
               [provider : Providers, state : {"idle"}, gotFinal : {FALSE}, silent : {0},
                errors : {0}, watchdog : {FALSE}, retry : {FALSE}, asking : {FALSE},
                engine : {"off"}, stale : {FALSE}, playback : {"off"}, tail : {FALSE},
                over : {FALSE}]
<1>1. /\ voice \in First
      /\ widget \in [open : {FALSE}, sending : {FALSE}, token : BOOLEAN,
                     liveUnavailable : BOOLEAN, messages : {0}, late : {FALSE}]
      /\ sends = {}
    BY Zenon DEF Page!Init
<1>2. voice \in PageVoice
  <2>1. voice = [provider |-> voice.provider, state |-> "idle", gotFinal |-> FALSE, silent |-> 0,
                 errors |-> 0, watchdog |-> FALSE, retry |-> FALSE, asking |-> FALSE,
                 engine |-> "off", stale |-> FALSE, playback |-> "off", tail |-> FALSE,
                 over |-> FALSE]
      BY <1>1, Zenon
  <2>2. PICK provider \in {"halo", "browser"} : provider = voice.provider
      BY <1>1, WidgetAssumption, Zenon
  <2>3. [provider |-> provider, state |-> "idle", gotFinal |-> FALSE, silent |-> 0,
         errors |-> 0, watchdog |-> FALSE, retry |-> FALSE, asking |-> FALSE,
         engine |-> "off", stale |-> FALSE, playback |-> "off", tail |-> FALSE,
         over |-> FALSE] \in PageVoice
      BY DEF PageVoice
  <2>4. QED
      BY <2>1, <2>2, <2>3, Zenon
<1>4. AtRest(voice) /\ ~voice.gotFinal
    BY <1>1, Zenon DEF AtRest, Calm
<1>5. widget \in PageWidget
  <2>1. widget = [open |-> FALSE, sending |-> FALSE, token |-> widget.token,
                  liveUnavailable |-> widget.liveUnavailable, messages |-> 0, late |-> FALSE]
      BY <1>1, Zenon
  <2>2. PICK token \in BOOLEAN, unavailable \in BOOLEAN :
             token = widget.token /\ unavailable = widget.liveUnavailable
      BY <1>1
  <2>3. [open |-> FALSE, sending |-> FALSE, token |-> token,
         liveUnavailable |-> unavailable, messages |-> 0, late |-> FALSE] \in PageWidget
      BY DEF PageWidget
  <2>4. QED
      BY <2>1, <2>2, <2>3, Zenon
<1>3. /\ call \in Page!Call /\ Held(call) /\ Gone(call)
    BY DEF Page!Init, Page!NoCall, Page!Call, Held, Gone
<1>6. QED
    BY <1>1, <1>2, <1>3, <1>4, <1>5 DEF PageKept, PageTyped, Loops, Calm, AtRest, Answered, Shut, Alone

\* A callback of the session touches nothing else.
LEMMA CallbackKeeps ==
    ASSUME PageKept, LoopsOn(voice, voice'), UNCHANGED <<widget, sends, call>>
    PROVE  PageKept'
BY DEF PageKept, PageTyped, LoopsOn, Answered, Shut, Alone

\* A message that is taken up is in flight, on the voice channel if it was spoken.
LEMMA BeginSendAdds ==
    ASSUME PageTyped, NEW channel \in {"chat", "voice"}, Page!BeginSend(channel)
    PROVE  /\ widget' \in PageWidget /\ widget'.open = widget.open /\ widget'.late = widget.late
           /\ sends' \subseteq PageSend
           /\ \E s \in sends' : s.channel = channel
           /\ sends \subseteq sends'
<1> DEFINE s == [id |-> widget.messages + 1, channel |-> channel, retried |-> FALSE,
                 phase |-> IF widget.token THEN "ask" ELSE "start"]
<1>1. /\ widget' = [widget EXCEPT !.sending = TRUE, !.messages = widget.messages + 1]
      /\ sends' = sends \cup {s}
    BY DEF Page!BeginSend
<1>2. widget.messages \in Nat /\ widget \in PageWidget /\ sends \subseteq PageSend
    BY DEF PageTyped, PageWidget
<1>3. widget' \in PageWidget /\ widget'.open = widget.open /\ widget'.late = widget.late
  <2> DEFINE n == widget.messages + 1
  <2>1. n \in Nat /\ widget' = [widget EXCEPT !.sending = TRUE, !.messages = n]
      BY <1>1, <1>2
  <2> HIDE DEF n
  <2>2. QED
      BY <1>2, <2>1, Zenon DEF PageWidget
<1>4. s \in PageSend /\ s.channel = channel
    BY <1>2 DEF PageSend
<1> HIDE DEF s
<1>5. QED
    BY <1>1, <1>2, <1>3, <1>4

\* What is heard is sent, by a session that waits for the answer from then on.
LEMMA HearsKeeps ==
    ASSUME PageKept, Page!Hears
    PROVE  PageKept'
<1> DEFINE engine2 == IF Page!Browser THEN "done" ELSE "off"
           v == voice
           t == voice'
<1>1. /\ PageTyped /\ v \in PageVoice /\ Loops(v) /\ Answered /\ Held(call) /\ Shut /\ Alone
      /\ v.engine \in {"on", "thinking"} /\ call' = call
    BY DEF PageKept, PageTyped, Page!Hears
<1>2. engine2 \in {"done", "off"}
    OBVIOUS
<1>3. ~AtRest(v) /\ ~v.retry /\ ~v.asking
    BY <1>1 DEF AtRest, Loops
<1>7. call.phase = "none"
    BY <1>1, Zenon DEF Loops, Alone
<1>4. CASE v.state = "listening"
  <2>1. /\ t = [[v EXCEPT !.engine = engine2]
                    EXCEPT !.gotFinal = TRUE, !.silent = 0, !.errors = 0,
                           !.watchdog = FALSE, !.state = "processing"]
        /\ Page!BeginSend("voice")
      BY <1>4 DEF Page!Hears
  <2> HIDE DEF engine2
  <2>2. /\ t \in PageVoice /\ t.engine = engine2 /\ t.state = "processing"
        /\ t.gotFinal = TRUE /\ t.watchdog = FALSE /\ t.retry = v.retry /\ t.asking = v.asking
        /\ t.playback = v.playback /\ t.over = v.over
      BY <1>1, <1>2, <2>1, Zenon DEF PageVoice
  <2> HIDE DEF t
  <2>3. Loops(t)
      BY <1>1, <1>2, <1>3, <1>4, <2>2 DEF Loops, Calm
  <2>4. /\ widget' \in PageWidget /\ widget'.open = widget.open /\ widget'.late = widget.late
        /\ sends' \subseteq PageSend /\ \E s \in sends' : s.channel = "voice"
      BY <1>1, <2>1, BeginSendAdds
  <2>5. QED
      BY <1>1, <1>3, <1>7, <2>2, <2>3, <2>4 DEF PageKept, PageTyped, Answered, Shut, Alone, t
<1>5. CASE v.state # "listening"
  <2>1. t = [v EXCEPT !.engine = engine2] /\ UNCHANGED <<widget, sends>>
      BY <1>5 DEF Page!Hears
  <2> HIDE DEF engine2
  <2>2. /\ t \in PageVoice /\ t.engine = engine2 /\ t.state = v.state
        /\ t.gotFinal = v.gotFinal /\ t.watchdog = v.watchdog /\ t.retry = v.retry
        /\ t.asking = v.asking /\ t.playback = v.playback /\ t.over = v.over
      BY <1>1, <1>2, <2>1 DEF PageVoice
  <2> HIDE DEF t
  <2>3. LoopsOn(v, t)
      BY <1>1, <1>2, <1>3, <1>5, <2>2 DEF LoopsOn, Loops, Calm
  <2>4. QED
      BY <1>1, <2>1, <2>3, CallbackKeeps DEF t
<1>6. QED
    BY <1>4, <1>5

\* A message that moves on is still in flight, and one that settles is waited for no more.
LEMMA MessageKeeps ==
    ASSUME PageKept, NEW s \in sends,
           \/ Page!ConversationStarts(s) \/ Page!ReplyArrives(s)
           \/ Page!StartsFresh(s) \/ Page!SendFails(s)
    PROVE  PageKept'
<1>1. /\ voice \in PageVoice /\ Loops(voice) /\ Answered /\ Held(call) /\ Shut /\ Alone
      /\ widget \in PageWidget /\ sends \subseteq PageSend /\ call \in Page!Call
      /\ s \in PageSend
    BY DEF PageKept, PageTyped
<1>2. CASE Page!ConversationStarts(s) \/ Page!StartsFresh(s)
  <2> DEFINE u == IF Page!ConversationStarts(s) THEN [s EXCEPT !.phase = "ask"]
                  ELSE [s EXCEPT !.phase = "start", !.retried = TRUE]
  <2>1. /\ sends' = (sends \ {s}) \cup {u}
        /\ \/ widget' = [widget EXCEPT !.token = TRUE]
           \/ widget' = [widget EXCEPT !.token = FALSE]
        /\ UNCHANGED <<voice, call>>
      BY <1>2 DEF Page!ConversationStarts, Page!StartsFresh
  <2>2. u \in PageSend /\ u.channel = s.channel
      BY <1>1, Zenon DEF PageSend
  <2> HIDE DEF u
  <2>3. widget' \in PageWidget /\ widget'.open = widget.open /\ widget'.late = widget.late
      BY <1>1, <2>1, Zenon DEF PageWidget
  <2>4. sends' \subseteq PageSend
      BY <1>1, <2>1, <2>2
  <2>5. (\E x \in sends : x.channel = "voice") => \E x \in sends' : x.channel = "voice"
      BY <2>1, <2>2
  <2>6. QED
      BY <1>1, <2>1, <2>3, <2>4, <2>5 DEF PageKept, PageTyped, Answered, Shut, Alone
<1>3. CASE Page!ReplyArrives(s) \/ Page!SendFails(s)
  <2>1. /\ sends' = sends \ {s}
        /\ widget' = [widget EXCEPT !.sending = FALSE]
        /\ call' = call
        /\ voice' = Page!SpeakReply(voice) \/ voice' = Page!Stop(voice)
      BY <1>3 DEF Page!ReplyArrives, Page!SendFails, Page!StopsOnFailure
  <2>2. /\ voice' \in PageVoice /\ Loops(voice') /\ voice'.state # "processing"
        /\ AtRest(voice) => AtRest(voice')
        /\ voice.state = "idle" => voice'.state = "idle"
      BY <1>1, <2>1, ReplyLoops, StopLoops DEF AtRest
  <2>3. widget' \in PageWidget /\ widget'.open = widget.open /\ widget'.late = widget.late
      BY <1>1, <2>1, Zenon DEF PageWidget
  <2>4. QED
      BY <1>1, <2>1, <2>2, <2>3 DEF PageKept, PageTyped, Answered, Shut, Alone
<1>4. QED
    BY <1>2, <1>3

\* The call is set up by a page that is open, or finds itself hung up.
LEMMA CallKeeps ==
    ASSUME PageKept,
           \/ Page!OfferArrives \/ Page!OfferFails \/ Page!Granted \/ Page!Resumed
           \/ Page!SocketOpens \/ Page!CallFails
    PROVE  PageKept'
<1>1. /\ voice \in PageVoice /\ Loops(voice) /\ Answered /\ Held(call) /\ Shut /\ Alone
      /\ widget \in PageWidget /\ sends \subseteq PageSend /\ call \in Page!Call
    BY DEF PageKept, PageTyped
<1>2. /\ Page!NoCall \in Page!Call /\ Held(Page!NoCall) /\ Gone(Page!NoCall)
      /\ Page!NoCall.phase = "none"
    BY DEF Page!NoCall, Page!Call, Held, Gone
<1>3. CASE Page!OfferFails
  <2>1. /\ call.phase = "offer" /\ call' = Page!NoCall /\ sends' = sends
        /\ widget' = [widget EXCEPT !.liveUnavailable = TRUE]
        /\ voice' = Page!HandleTap(voice)
      BY <1>3 DEF Page!OfferFails
  <2>2. widget.open \/ widget.late
      BY <1>1, <2>1 DEF Shut, Gone
  <2>3. widget' \in PageWidget /\ widget'.open = widget.open /\ widget'.late = widget.late
      BY <1>1, <2>1, Zenon DEF PageWidget
  <2>4. voice' \in PageVoice /\ Loops(voice')
      BY <1>1, <2>1, TapLoops
  <2>5. voice'.state # "processing"
      BY <1>1, <2>1, TapIsNoTurn
  <2>6. QED
      BY <1>1, <1>2, <2>1, <2>2, <2>3, <2>4, <2>5 DEF PageKept, PageTyped, Answered, Shut, Alone
<1>4. CASE ~Page!OfferFails
  <2>1. UNCHANGED <<voice, widget, sends>>
      BY <1>4 DEF Page!OfferArrives, Page!Granted, Page!Resumed, Page!SocketOpens,
                  Page!CallFails
  <2> DEFINE Goes == call' = Page!NoCall \/ (call' \in Page!Call /\ Held(call') /\ ~Gone(call))
  <2>2. ASSUME Page!OfferArrives PROVE Goes
    <3>1. call.phase = "offer" /\ call' \in {[call EXCEPT !.phase = "mic"], Page!NoCall}
        BY <2>2 DEF Page!OfferArrives
    <3>2. QED
        BY <1>1, <3>1 DEF Page!Call, Held, Gone
  <2>3. ASSUME Page!Granted PROVE Goes
    <3>1. /\ call.phase = "mic"
          /\ call' = IF ~call.ended THEN [call EXCEPT !.phase = "resume", !.stream = TRUE]
                     ELSE Page!NoCall
        BY <2>3 DEF Page!Granted, Page!StillWanted
    <3>2. QED
        BY <1>1, <3>1, Zenon DEF Page!Call, Held, Gone
  <2>4. ASSUME Page!Resumed PROVE Goes
    <3>1. /\ call.phase = "resume"
          /\ call' = IF ~call.ended THEN [call EXCEPT !.phase = "socket"] ELSE Page!NoCall
        BY <2>4 DEF Page!Resumed, Page!StillWanted
    <3>2. QED
        BY <1>1, <3>1 DEF Page!Call, Held, Gone
  <2>5. ASSUME Page!SocketOpens PROVE Goes
    <3>1. call.phase = "socket" /\ call' = [call EXCEPT !.phase = "live"]
        BY <2>5 DEF Page!SocketOpens
    <3>2. QED
        BY <1>1, <3>1 DEF Page!Call, Held, Gone
  <2>6. ASSUME Page!CallFails PROVE Goes
      BY <2>6 DEF Page!CallFails
  <2>7. Goes
      BY <1>4, <2>2, <2>3, <2>4, <2>5, <2>6
  <2>8. Alone'
      BY <1>1, <1>2, <2>1, <2>7 DEF Alone, Gone, Held
  <2>9. QED
      BY <1>1, <1>2, <2>1, <2>7, <2>8 DEF PageKept, PageTyped, Answered, Shut
<1>5. QED
    BY <1>3, <1>4

\* What the visitor does to an open page, which is put to rest when he closes it.
LEMMA VisitorKeeps ==
    ASSUME PageKept, Page!MicTap \/ Page!Type \/ Page!OpenPanel \/ Page!ClosePanel
    PROVE  PageKept'
<1>1. /\ voice \in PageVoice /\ Loops(voice) /\ Answered /\ Held(call) /\ Shut /\ Alone
      /\ widget \in PageWidget /\ sends \subseteq PageSend /\ call \in Page!Call /\ PageTyped
    BY DEF PageKept, PageTyped
<1>2. /\ Page!HangUp(call) \in Page!Call /\ Held(Page!HangUp(call))
      /\ call.phase # "offer" => Gone(Page!HangUp(call))
    BY <1>1, HangUpReleases
<1>3. /\ Page!Stop(voice) \in PageVoice /\ Loops(Page!Stop(voice)) /\ AtRest(Page!Stop(voice))
    BY <1>1, StopLoops
<1>4. CASE Page!MicTap
  <2>1. widget.open /\ UNCHANGED <<widget, sends>>
      BY <1>4 DEF Page!MicTap
  <2>2. \/ call' = Page!HangUp(call) /\ voice' = voice
        \/ /\ call' = call /\ voice' = Page!HandleTap(voice)
           /\ ~Page!CallStarting /\ ~Page!CallUp
        \/ call' = [Page!NoCall EXCEPT !.phase = "offer"] /\ voice' = voice /\ voice.state = "idle"
      BY <1>4 DEF Page!MicTap
  <2>3. call' \in Page!Call /\ Held(call')
      BY <1>1, <1>2, <2>2, Zenon DEF Page!NoCall, Page!Call, Held
  <2>4. /\ voice' \in PageVoice /\ Loops(voice')
        /\ voice' = voice \/ voice'.state # "processing"
      BY <1>1, <2>2, TapLoops, TapIsNoTurn
  <2>6. Alone'
    <3>1. CASE call' = Page!HangUp(call) /\ voice' = voice
        BY <1>1, <3>1 DEF Alone, Page!HangUp
    <3>2. CASE call' = call /\ ~Page!CallStarting /\ ~Page!CallUp
        BY <1>1, <3>2 DEF Alone, Held, Page!CallStarting, Page!CallUp, Page!Call
    <3>3. CASE voice' = voice /\ voice.state = "idle"
        BY <3>3 DEF Alone
    <3>4. QED
        BY <2>2, <3>1, <3>2, <3>3
  <2>5. QED
      BY <1>1, <2>1, <2>3, <2>4, <2>6 DEF PageKept, PageTyped, Answered, Shut, Alone
<1>5. CASE Page!Type
  <2>1. /\ widget.open /\ voice' = Page!Stop(voice) /\ call' = Page!HangUp(call)
        /\ Page!BeginSend("chat")
      BY <1>5 DEF Page!Type
  <2>2. /\ widget' \in PageWidget /\ widget'.open = widget.open /\ sends' \subseteq PageSend
      BY <1>1, <2>1, BeginSendAdds, Zenon
  <2>3. QED
      BY <1>2, <1>3, <2>1, <2>2 DEF PageKept, PageTyped, Answered, Shut, Alone, AtRest
<1>6. CASE Page!OpenPanel
  <2>1. widget' = [widget EXCEPT !.open = TRUE] /\ UNCHANGED <<voice, sends, call>>
      BY <1>6 DEF Page!OpenPanel
  <2>2. widget' \in PageWidget /\ widget'.open
      BY <1>1, <2>1, Zenon DEF PageWidget
  <2>3. QED
      BY <1>1, <2>1, <2>2 DEF PageKept, PageTyped, Answered, Shut, Alone
<1>7. CASE Page!ClosePanel
  <2>1. /\ voice' = Page!Stop(voice) /\ call' = Page!HangUp(call) /\ sends' = sends
        /\ widget' = [widget EXCEPT !.open = FALSE, !.late = call.phase = "offer"]
      BY <1>7 DEF Page!ClosePanel
  <2>2. widget' \in PageWidget /\ widget'.late = (call.phase = "offer")
      BY <1>1, <2>1, Zenon DEF PageWidget
  <2>3. QED
      BY <1>1, <1>2, <1>3, <2>1, <2>2, Zenon DEF PageKept, PageTyped, Answered, Shut, Alone, AtRest
<1>8. QED
    BY <1>4, <1>5, <1>6, <1>7

\* A step of the page keeps it.
LEMMA PageKeeps ==
    ASSUME PageKept, Page!Next
    PROVE  PageKept'
<1>0. PageTyped /\ voice \in PageVoice /\ Loops(voice)
    BY DEF PageKept, PageTyped
<1>1. CASE Page!Transcribes \/ Page!EngineEnds \/ Page!EngineFails \/ Page!StaleCallback
  <2>1. LoopsOn(voice, voice')
      BY <1>0, <1>1, RecognitionLoops
  <2>2. UNCHANGED <<widget, sends, call>>
      BY <1>1, Zenon
         DEF Page!Transcribes, Page!EngineEnds, Page!EngineFails, Page!StaleCallback
  <2>3. QED
      BY <2>1, <2>2, CallbackKeeps
<1>2. CASE Page!WatchdogFires \/ Page!RetryFires \/ Page!PromptAnswered
  <2>1. LoopsOn(voice, voice')
      BY <1>0, <1>2, TimerLoops
  <2>2. UNCHANGED <<widget, sends, call>>
      BY <1>2 DEF Page!WatchdogFires, Page!RetryFires, Page!PromptAnswered
  <2>3. QED
      BY <2>1, <2>2, CallbackKeeps
<1>3. CASE Page!Synthesized \/ Page!PlaybackEnds \/ Page!CancelledSpeechEnds
  <2>1. LoopsOn(voice, voice')
      BY <1>0, <1>3, AudioLoops
  <2>2. UNCHANGED <<widget, sends, call>>
      BY <1>3, Zenon DEF Page!Synthesized, Page!PlaybackEnds, Page!CancelledSpeechEnds
  <2>3. QED
      BY <2>1, <2>2, CallbackKeeps
<1>4. CASE Page!Hears
    BY <1>4, HearsKeeps
<1>5. CASE \E s \in sends : \/ Page!ConversationStarts(s) \/ Page!ReplyArrives(s)
                          \/ Page!StartsFresh(s) \/ Page!SendFails(s)
    BY <1>5, MessageKeeps
<1>6. CASE \/ Page!OfferArrives \/ Page!OfferFails \/ Page!Granted \/ Page!Resumed
           \/ Page!SocketOpens \/ Page!CallFails
    BY <1>6, CallKeeps
<1>7. CASE Page!MicTap \/ Page!Type \/ Page!OpenPanel \/ Page!ClosePanel
    BY <1>7, VisitorKeeps
<1>8. QED
    BY <1>1, <1>2, <1>3, <1>4, <1>5, <1>6, <1>7 DEF Page!Next

\* The widget's loop is sound in every run, with the call it prefers and the panel it is in
\* (widget/src/voice-session.ts, live-call.ts, widget.ts).
THEOREM PageIsKept == MCSpec => []PageKept
<1>1. MCInit => PageKept
    BY PageKeptAtFirst DEF MCInit
<1>2. PageKept /\ [MCNext]_MCVars => PageKept'
  <2> SUFFICES ASSUME PageKept, [MCNext]_MCVars PROVE PageKept'
      OBVIOUS
  <2>1. Page!Next \/ UNCHANGED pageVars
      BY DEF MCNext, MCVars, InProcess, Pipecat, Worker, Website
  <2>2. CASE Page!Next
      BY <2>2, PageKeeps
  <2>3. CASE UNCHANGED pageVars
      BY <2>3 DEF pageVars, PageKept, PageTyped, Answered, Shut, Alone
  <2>4. QED
      BY <2>1, <2>2, <2>3
<1>3. QED
    BY <1>1, <1>2, PTL DEF MCSpec, MCNext, MCVars

\* The turn-by-turn session and the live call never have the microphone of the page both, no
\* call keeps it that was hung up while it was set up, a closed panel has released it unless
\* it was closed while the offer of live voice was awaited, and a reply for which the session
\* waited is not heard (widget/src/voice-session.ts, live-call.ts, widget.ts).
THEOREM MicrophoneHasOneUse == MCSpec => []MicHasOneUse
<1>1. PageKept => MicHasOneUse
  <2> SUFFICES ASSUME PageKept PROVE MicHasOneUse
      OBVIOUS
  <2>1. Page!AwaitedReplyIsNotHeard
      BY DEF PageKept, PageTyped, Loops, Calm, Page!AwaitedReplyIsNotHeard
  <2>2. Page!MicIsReleased
      BY DEF PageKept, Shut, AtRest, Held, Gone, Page!MicIsReleased
  <2>3. Page!OneMicrophone
    <3>1. ASSUME call.stream PROVE voice.engine = "off"
        BY <3>1 DEF PageKept, PageTyped, Held, Alone, Loops
    <3>2. QED
        BY <3>1 DEF Page!OneMicrophone
  <2>4. QED
      BY <2>1, <2>2, <2>3 DEF MicHasOneUse
<1>2. QED
    BY <1>1, PageIsKept, PTL

\* The hands-free loop has no dead end (widget/src/voice-session.ts).
THEOREM LoopHasNoDeadEnd == MCSpec => []Page!NoDeadEnd
<1>1. PageKept => Page!NoDeadEnd
    BY DEF PageKept, Loops, Answered, Page!NoDeadEnd
<1>2. QED
    BY <1>1, PageIsKept, PTL

-------------------------------------------------------------------------------
(* The worker of the Pipecat engine.                                        *)

GateContext == Nat \X Nat

\* What is on its way to the carrier.
GateItem == [kind : {"audio", "mark"}, context : GateContext] \cup [kind : {"clear"}, line : Nat]

GateAudio == [kind : {"audio"}, context : GateContext]

GateSent == [kind : {"audio", "mark"}, context : GateContext]

GatePlayback ==
    [chunk : Nat, awaiting : BOOLEAN, bound : GateContext, audio : BOOLEAN,
     firstAudio : BOOLEAN, woken : BOOLEAN, settled : BOOLEAN]

\* The points a task may be suspended at while its frame waits to be sent.
Owing ==
    [loop |-> {"acking", "erring", "failing", "givingUp", "completing"},
     system |-> {"started", "cutting"}, reader |-> {"cutting"}, data |-> {"first"}]

Resting ==
    [loop |-> {"idle", "synthesis", "playout"},
     system |-> {"free"}, reader |-> {"free"}, data |-> {"free"}]

Tasks == {"loop", "system", "data", "reader"}

Cutters == {"system", "reader"}

Places ==
    {"free", "idle", "synthesis", "playout", "acking", "erring", "failing", "givingUp",
     "completing", "started", "cutting", "first"}

GateWorker ==
    [closed : BOOLEAN, active : Nat, queue : Seq(Nat), interruptedIds : SUBSET Nat,
     playback : GatePlayback, at : [Tasks -> Places], cutting : [Cutters -> Nat],
     sending : Seq(Tasks),
     mark : [state : {"none", "waiting", "confirmed", "dropped"}, context : GateContext],
     pipeline : Seq([kind : {"speak"}, context : GateContext] \cup [kind : {"cut"}, line : Nat]),
     synthesis : [context : GateContext, emitted : BOOLEAN], late : GateContext,
     held : Seq(GateAudio), sink : Seq(GateAudio), outgoing : Seq(GateItem), stopped : SUBSET Nat]

\* Nothing of a line is in a queue of items.
Mute(q, l) == \A i \in 1 .. Len(q) : q[i].kind = "audio" => q[i].context[1] # l

\* A line that is over, of the d that the loop has taken, or will be as soon as the loop looks.
Dead(s, d, l) ==
    /\ l # 0 /\ l <= d
    /\ l = s.active => s.playback.settled \/ l \in s.interruptedIds

\* Nothing more of a line is on its way.
Hushed(s, l) == Mute(s.sink, l) /\ Mute(s.held, l)

\* What the carrier was told, or will be told, to drop is not sent again.
Quieted(s, d, Z) ==
    /\ \A l \in Z : Dead(s, d, l) /\ Hushed(s, l) /\ Mute(s.outgoing, l)
    /\ \A i \in 1 .. Len(s.outgoing) : s.outgoing[i].kind = "clear" =>
          /\ Dead(s, d, s.outgoing[i].line) /\ Hushed(s, s.outgoing[i].line)
          /\ \A j \in i + 1 .. Len(s.outgoing) :
                s.outgoing[j].kind = "audio" => s.outgoing[j].context[1] # s.outgoing[i].line

\* Only lines that are over are cut.
Doomed(s, d) ==
    /\ \A i \in 1 .. Len(s.pipeline) : s.pipeline[i].kind = "cut" => Dead(s, d, s.pipeline[i].line)
    /\ \A u \in Cutters : s.at[u] = "cutting" => Dead(s, d, s.cutting[u])

\* Audio is attributed to the line that is spoken.
Bound(s) ==
    s.playback.bound # Gate!Nothing => s.playback.bound[1] = s.active /\ ~s.playback.awaiting

\* A cut follows whatever is to be spoken.
Covered(s) ==
    \A i \in 1 .. Len(s.pipeline) : s.pipeline[i].kind = "speak" =>
        \E j \in i + 1 .. Len(s.pipeline) : s.pipeline[j].kind = "cut"

\* What no cut follows in the pipeline is the chunk that is awaited.
Ahead(s) ==
    \A i \in 1 .. Len(s.pipeline) : s.pipeline[i].kind = "speak" =>
        \/ \E j \in i + 1 .. Len(s.pipeline) : s.pipeline[j].kind = "cut"
        \/ /\ i = Len(s.pipeline) /\ s.pipeline[i].context[1] = s.active
           /\ s.playback.awaiting /\ ~s.playback.woken
           /\ s.at["loop"] \in {"synthesis", "erring", "failing"}

\* A line that was cut wakes the loop, or will when the report is sent.
Wakes(s) ==
    s.active \in s.interruptedIds /\ s.at["loop"] = "synthesis" =>
        \/ s.playback.woken
        \/ \E u \in Cutters : s.at[u] = "cutting" /\ s.cutting[u] = s.active

\* The tasks that wait for the socket, but for one that goes on, each once.
Queued(s, u) ==
    /\ \A i, j \in 1 .. Len(s.sending) : s.sending[i] = s.sending[j] => i = j
    /\ \A i \in 1 .. Len(s.sending) : s.sending[i] # u
    /\ \A v \in Tasks \ {u} :
          \/ s.at[v] \in Resting[v] /\ \A i \in 1 .. Len(s.sending) : s.sending[i] # v
          \/ s.at[v] \in Owing[v] /\ \E i \in 1 .. Len(s.sending) : s.sending[i] = v

\* The lines are taken in the order they were sent.
InOrder(s, n) ==
    /\ Len(s.queue) <= n
    /\ \A i \in 1 .. Len(s.queue) : s.queue[i] = n - Len(s.queue) + i

GateFits(s, d, Z) ==
    /\ s \in GateWorker /\ d \in Nat /\ s.active <= d
    /\ Quieted(s, d, Z) /\ Doomed(s, d) /\ Bound(s) /\ Ahead(s) /\ Wakes(s)

\* The loop is at a line, or between two lines, when nothing is attributed.
Rests(s) ==
    /\ s.at["loop"] = "idle" => s.active = 0 /\ s.playback.bound = Gate!Nothing
    /\ s.at["loop"] # "idle" => s.active # 0

GateSound(s, d, Z) == GateFits(s, d, Z) /\ Queued(s, "nobody") /\ Rests(s)

GatePeers ==
    [spoken : Nat, carrier : Seq(GateSent), echoes : SUBSET GateContext, silenced : SUBSET Nat,
     cut : SUBSET Nat]

GateKept ==
    /\ peers \in GatePeers
    /\ InOrder(worker, peers.spoken)
    /\ GateSound(worker, peers.spoken - Len(worker.queue), peers.silenced)
    /\ \A l \in peers.silenced : Mute(peers.carrier, l)

\* A line that is over stays so: the loop never goes back to it.
Aged(s, d, t, e) ==
    /\ d <= e
    /\ \/ /\ t.active = s.active /\ s.interruptedIds \subseteq t.interruptedIds
          /\ s.playback.settled => t.playback.settled
       \/ t.active = 0
       \/ t.active > d

\* A line that is over stays so.
LEMMA DeadStays ==
    ASSUME NEW s \in GateWorker, NEW t \in GateWorker, NEW d \in Nat, NEW e \in Nat,
           Aged(s, d, t, e), NEW l \in Nat, Dead(s, d, l)
    PROVE  Dead(t, e, l)
BY SMTT(30) DEF Aged, Dead, GateWorker

\* The items of the carrier are told apart.
LEMMA ItemHas ==
    ASSUME NEW x \in GateItem
    PROVE  /\ x.kind = "clear" => x.line \in Nat
           /\ x.kind \in {"audio", "mark"} => x.context \in GateContext
BY DEF GateItem

\* Behind the gate there is audio only.
LEMMA AudioIsItem ==
    ASSUME NEW q \in Seq(GateAudio)
    PROVE  /\ q \in Seq(GateItem)
           /\ q # <<>> => Head(q) \in GateItem /\ Head(q).kind = "audio"
<1>1. GateAudio \subseteq GateItem /\ \A x \in GateAudio : x.kind = "audio"
    BY DEF GateAudio, GateItem
<1>2. Len(q) \in Nat /\ \A i \in 1 .. Len(q) : q[i] \in GateItem
    BY <1>1
<1>3. q \in Seq(GateItem)
    BY <1>2
<1>4. q # <<>> => Head(q) \in GateAudio
    OBVIOUS
<1>5. QED
    BY <1>1, <1>3, <1>4

\* The carrier is given audio and marks.
LEMMA SentIsItem ==
    ASSUME NEW q \in Seq(GateSent)
    PROVE  /\ q \in Seq(GateItem)
           /\ \A i \in 1 .. Len(q) : q[i].context \in GateContext
           /\ q # <<>> => Head(q).context \in GateContext
<1>1. GateSent \subseteq GateItem /\ \A x \in GateSent : x.context \in GateContext
    BY DEF GateSent, GateItem
<1>2. Len(q) \in Nat /\ \A i \in 1 .. Len(q) : q[i] \in GateItem /\ q[i] \in GateSent
    BY <1>1
<1>3. q \in Seq(GateItem)
    BY <1>2
<1>4. q # <<>> => Head(q) \in GateSent
    OBVIOUS
<1>5. QED
    BY <1>1, <1>2, <1>3, <1>4

\* The items of the pipeline are told apart.
LEMMA PipelineHas ==
    ASSUME NEW s \in GateWorker, NEW i \in 1 .. Len(s.pipeline)
    PROVE  /\ s.pipeline[i].kind \in {"speak", "cut"}
           /\ s.pipeline[i].kind = "cut" => s.pipeline[i].line \in Nat
           /\ s.pipeline[i].kind = "speak" => s.pipeline[i].context \in GateContext
<1> DEFINE x == s.pipeline[i]
<1>1. x \in [kind : {"speak"}, context : GateContext] \cup [kind : {"cut"}, line : Nat]
    BY DEF GateWorker
<1> HIDE DEF x
<1>2. QED
    BY <1>1 DEF x

\* A cut at the end covers what is before it.
LEMMA CutAppended ==
    ASSUME NEW s \in GateWorker, NEW t \in GateWorker, NEW l \in Nat,
           t.pipeline = Append(s.pipeline, [kind |-> "cut", line |-> l])
    PROVE  /\ Covered(t)
           /\ \A i \in 1 .. Len(t.pipeline) : t.pipeline[i].kind = "cut" =>
                 \/ \E j \in 1 .. Len(s.pipeline) : s.pipeline[j] = t.pipeline[i]
                 \/ t.pipeline[i].line = l
<1> DEFINE x == [kind |-> "cut", line |-> l]
           q == s.pipeline
           r == t.pipeline
<1>1. x.kind = "cut" /\ x.line = l /\ r = Append(q, x)
    OBVIOUS
<1>2. q \in Seq([kind : {"speak"}, context : GateContext] \cup [kind : {"cut"}, line : Nat])
    BY DEF GateWorker
<1> HIDE DEF x, q, r
<1>3. /\ Len(q) \in Nat /\ Len(r) = Len(q) + 1 /\ r[Len(r)] = x
      /\ \A i \in 1 .. Len(q) : r[i] = q[i]
    BY <1>1, <1>2
<1>4. ASSUME NEW i \in 1 .. Len(r), r[i].kind = "speak"
      PROVE  \E j \in i + 1 .. Len(r) : r[j].kind = "cut"
  <2>1. i # Len(r)
      BY <1>1, <1>3, <1>4
  <2>2. Len(r) \in i + 1 .. Len(r)
      BY <1>3, <2>1
  <2>3. QED
      BY <1>1, <1>3, <2>2, Zenon
<1>5. ASSUME NEW i \in 1 .. Len(r), r[i].kind = "cut"
      PROVE  (\E j \in 1 .. Len(q) : q[j] = r[i]) \/ r[i].line = l
  <2>1. i = Len(r) \/ i \in 1 .. Len(q)
      BY <1>3
  <2>2. QED
      BY <1>1, <1>3, <2>1
<1>6. QED
    BY <1>4, <1>5 DEF Covered, q, r

\* A queue of items that gains, loses or takes over an item.
LEMMA MuteQueues ==
    ASSUME NEW q \in Seq(GateItem), NEW l \in Nat, Mute(q, l)
    PROVE  /\ \A x \in GateItem : (x.kind = "audio" => x.context[1] # l) => Mute(Append(q, x), l)
           /\ q # <<>> => Mute(Tail(q), l)
           /\ \A r \in Seq(GateItem) : Mute(r, l) => Mute(q \o r, l)
           /\ q # <<>> => (Head(q).kind = "audio" => Head(q).context[1] # l)
BY DEF Mute

\* An empty queue holds nothing.
LEMMA MuteEmpty ==
    ASSUME NEW l PROVE Mute(<<>>, l)
BY DEF Mute

\* A line ages, and nothing is sent.
LEMMA QuietStays ==
    ASSUME NEW s \in GateWorker, NEW t \in GateWorker, NEW d \in Nat, NEW e \in Nat,
           Aged(s, d, t, e), NEW Z \in SUBSET Nat, Quieted(s, d, Z),
           t.sink = s.sink, t.held = s.held,
           \/ t.outgoing = s.outgoing
           \/ t.outgoing = <<>>
           \/ \E x \in GateItem : x.kind = "mark" /\ t.outgoing = Append(s.outgoing, x)
    PROVE  Quieted(t, e, Z)
<1> DEFINE o == s.outgoing
           p == t.outgoing
<1>1. o \in Seq(GateItem) /\ p \in Seq(GateItem)
    BY DEF GateWorker
<1>2. \A l \in Nat : Hushed(s, l) => Hushed(t, l)
    BY DEF Hushed
<1>3. ASSUME NEW l \in Z PROVE Mute(p, l)
  <2>1. Mute(o, l) /\ l \in Nat
      BY DEF Quieted
  <2>2. p = o \/ p = <<>> \/ \E x \in GateItem : x.kind = "mark" /\ p = Append(o, x)
      OBVIOUS
  <2> HIDE DEF o, p
  <2>3. CASE p = o \/ p = <<>>
      BY <2>1, <2>3, MuteEmpty
  <2>4. ASSUME NEW x \in GateItem, x.kind = "mark", p = Append(o, x) PROVE Mute(p, l)
    <3>1. x.kind = "audio" => x.context[1] # l
        BY <2>4
    <3>2. QED
        BY <1>1, <2>1, <2>4, <3>1, MuteQueues
  <2>5. QED
      BY <2>2, <2>3, <2>4
<1>4. \A i \in 1 .. Len(p) : p[i].kind # "mark" => i \in 1 .. Len(o) /\ p[i] = o[i]
  <2>1. p = o \/ p = <<>> \/ \E x \in GateItem : x.kind = "mark" /\ p = Append(o, x)
      OBVIOUS
  <2> HIDE DEF o, p
  <2>2. CASE p = o \/ p = <<>>
      BY <2>2
  <2>3. ASSUME NEW x \in GateItem, x.kind = "mark", p = Append(o, x)
        PROVE  \A i \in 1 .. Len(p) : p[i].kind # "mark" => i \in 1 .. Len(o) /\ p[i] = o[i]
    <3>1. /\ Len(o) \in Nat /\ Len(p) = Len(o) + 1 /\ p[Len(p)] = x
          /\ \A i \in 1 .. Len(o) : p[i] = o[i]
        BY <1>1, <2>3
    <3>2. QED
        BY <2>3, <3>1
  <2>4. QED
      BY <2>1, <2>2, <2>3
<1>5. \A x \in GateItem : x.kind = "clear" => x.line \in Nat
    BY ItemHas
<1> HIDE DEF o, p
<1>6. ASSUME NEW i \in 1 .. Len(p), p[i].kind = "clear"
      PROVE  /\ Dead(t, e, p[i].line) /\ Hushed(t, p[i].line)
             /\ \A j \in i + 1 .. Len(p) :
                   p[j].kind = "audio" => p[j].context[1] # p[i].line
  <2>1. i \in 1 .. Len(o) /\ p[i] = o[i] /\ p[i].line \in Nat
      BY <1>1, <1>4, <1>5, <1>6
  <2>2. /\ Dead(s, d, p[i].line) /\ Hushed(s, p[i].line)
        /\ \A j \in i + 1 .. Len(o) :
                   o[j].kind = "audio" => o[j].context[1] # p[i].line
      BY <1>6, <2>1 DEF Quieted, o
  <2>3. \A j \in i + 1 .. Len(p) : p[j].kind = "audio" => j \in i + 1 .. Len(o) /\ p[j] = o[j]
      BY <1>1, <1>4
  <2>4. QED
      BY <1>2, <2>1, <2>2, <2>3, DeadStays, Zenon
<1>7. \A l \in Z : Dead(t, e, l) /\ Hushed(t, l)
    BY <1>2, DeadStays DEF Quieted
<1>8. QED
    BY <1>3, <1>6, <1>7 DEF Quieted, p

\* The cuts on their way are of lines that are over, if the new ones are.
LEMMA DoomStays ==
    ASSUME NEW s \in GateWorker, NEW t \in GateWorker, NEW d \in Nat, NEW e \in Nat,
           Aged(s, d, t, e), Doomed(s, d),
           \A i \in 1 .. Len(t.pipeline) : t.pipeline[i].kind = "cut" =>
              \/ \E j \in 1 .. Len(s.pipeline) : s.pipeline[j] = t.pipeline[i]
              \/ Dead(t, e, t.pipeline[i].line),
           \A u \in Cutters : t.at[u] = "cutting" =>
              \/ s.at[u] = "cutting" /\ t.cutting[u] = s.cutting[u]
              \/ Dead(t, e, t.cutting[u])
    PROVE  Doomed(t, e)
<1>1. ASSUME NEW i \in 1 .. Len(t.pipeline), t.pipeline[i].kind = "cut"
      PROVE  Dead(t, e, t.pipeline[i].line)
  <2>1. CASE \E j \in 1 .. Len(s.pipeline) : s.pipeline[j] = t.pipeline[i]
    <3>1. PICK j \in 1 .. Len(s.pipeline) : s.pipeline[j] = t.pipeline[i]
        BY <2>1
    <3>2. Dead(s, d, t.pipeline[i].line)
        BY <1>1, <3>1 DEF Doomed
    <3>3. t.pipeline[i].line \in Nat
        BY <1>1, PipelineHas
    <3>4. QED
        BY <3>2, <3>3, DeadStays
  <2>2. QED
      BY <1>1, <2>1
<1>2. ASSUME NEW u \in Cutters, t.at[u] = "cutting"
      PROVE  Dead(t, e, t.cutting[u])
  <2>1. CASE s.at[u] = "cutting" /\ t.cutting[u] = s.cutting[u]
    <3>1. Dead(s, d, t.cutting[u]) /\ t.cutting[u] \in Nat
        BY <2>1, Zenon DEF Doomed, GateWorker
    <3>2. QED
        BY <3>1, DeadStays
  <2>2. QED
      BY <1>2, <2>1
<1>3. QED
    BY <1>1, <1>2 DEF Doomed

\* The frames of the tasks: one is added, a task goes on, or is where it owes none.
LEMMA QueuedSends ==
    ASSUME NEW s \in GateWorker, NEW t \in GateWorker, NEW u \in Tasks, Queued(s, u),
           NEW pc \in Owing[u],
           t.sending = Append(s.sending, u), t.at = [s.at EXCEPT ![u] = pc]
    PROVE  Queued(t, "nobody")
<1> DEFINE q == s.sending
           r == t.sending
<1>1. /\ q \in Seq(Tasks) /\ r = Append(q, u)
      /\ \A i \in 1 .. Len(q) : q[i] # u
      /\ \A i, j \in 1 .. Len(q) : q[i] = q[j] => i = j
    BY Zenon DEF GateWorker, Queued
<1>2. t.at[u] = pc /\ \A v \in Tasks \ {u} : t.at[v] = s.at[v]
    BY DEF GateWorker
<1>3. \A v \in Tasks \ {u} :
          \/ s.at[v] \in Resting[v] /\ \A i \in 1 .. Len(q) : q[i] # v
          \/ s.at[v] \in Owing[v] /\ \E i \in 1 .. Len(q) : q[i] = v
    BY DEF Queued
<1> HIDE DEF q, r
<1>4. /\ Len(r) = Len(q) + 1 /\ r[Len(r)] = u /\ r \in Seq(Tasks)
      /\ \A i \in 1 .. Len(q) : r[i] = q[i]
    BY <1>1
<1>5. \A i, j \in 1 .. Len(r) : r[i] = r[j] => i = j
    BY <1>1, <1>4
<1>6. \A i \in 1 .. Len(r) : r[i] # "nobody"
    BY <1>4 DEF Tasks
<1>7. ASSUME NEW v \in Tasks
      PROVE  \/ t.at[v] \in Resting[v] /\ \A i \in 1 .. Len(r) : r[i] # v
             \/ t.at[v] \in Owing[v] /\ \E i \in 1 .. Len(r) : r[i] = v
  <2>1. CASE v = u
      BY <1>1, <1>2, <1>4, <2>1
  <2>2. CASE v # u
    <3>1. t.at[v] = s.at[v]
        BY <1>2, <2>2
    <3>2. CASE s.at[v] \in Resting[v] /\ \A i \in 1 .. Len(q) : q[i] # v
        BY <1>1, <1>4, <2>2, <3>1, <3>2
    <3>3. CASE s.at[v] \in Owing[v] /\ \E i \in 1 .. Len(q) : q[i] = v
        BY <1>1, <1>4, <2>2, <3>1, <3>3
    <3>4. QED
        BY <1>3, <2>2, <3>2, <3>3
  <2>3. QED
      BY <2>1, <2>2
<1>8. QED
    BY <1>5, <1>6, <1>7 DEF Queued, r

\* The task that went on comes to rest.
LEMMA QueuedRests ==
    ASSUME NEW s \in GateWorker, NEW t \in GateWorker, NEW u \in Tasks, Queued(s, u),
           NEW pc \in Resting[u],
           t.sending = s.sending, t.at = [s.at EXCEPT ![u] = pc]
    PROVE  Queued(t, "nobody")
<1>1. t.at[u] = pc /\ \A v \in Tasks \ {u} : t.at[v] = s.at[v]
    BY DEF GateWorker
<1>2. \A i \in 1 .. Len(s.sending) : s.sending[i] \in Tasks
    BY DEF GateWorker
<1>3. QED
    BY <1>1, <1>2 DEF Queued, Tasks

\* The tasks wait for the socket as they did.
LEMMA QueuedStays ==
    ASSUME NEW s, NEW t, NEW u, Queued(s, u), t.sending = s.sending, t.at = s.at
    PROVE  Queued(t, u)
BY DEF Queued

\* A task that owes no frame may be left out.
LEMMA QueuedWhileFree ==
    ASSUME NEW s, NEW u \in Tasks, Queued(s, "nobody"), s.at[u] \in Resting[u]
    PROVE  Queued(s, u)
BY DEF Queued, Tasks, Resting, Owing

\* The task whose frame was taken goes on.
LEMMA QueuedTakes ==
    ASSUME NEW s \in GateWorker, NEW t \in GateWorker, Queued(s, "nobody"), s.sending # <<>>,
           t.sending = Tail(s.sending), t.at = s.at
    PROVE  LET u == Head(s.sending) IN
           u \in Tasks /\ s.at[u] \in Owing[u] /\ Queued(t, u)
<1> DEFINE q == s.sending
           r == t.sending
           u == Head(q)
<1>1. /\ q \in Seq(Tasks) /\ q # <<>> /\ r = Tail(q) /\ t.at = s.at
      /\ \A i, j \in 1 .. Len(q) : q[i] = q[j] => i = j
      /\ \A v \in Tasks :
          \/ s.at[v] \in Resting[v] /\ \A i \in 1 .. Len(q) : q[i] # v
          \/ s.at[v] \in Owing[v] /\ \E i \in 1 .. Len(q) : q[i] = v
    BY Zenon DEF GateWorker, Queued, Tasks
<1> HIDE DEF q, r
<1>2. /\ Len(q) \in Nat \ {0} /\ Len(r) = Len(q) - 1 /\ u = q[1] /\ u \in Tasks
      /\ \A i \in 1 .. Len(r) : r[i] = q[i + 1]
    BY <1>1
<1>3. \A i \in 1 .. Len(r) : r[i] # u
    BY <1>1, <1>2
<1>4. \A i, j \in 1 .. Len(r) : r[i] = r[j] => i = j
    BY <1>1, <1>2
<1>5. ASSUME NEW v \in Tasks \ {u}
      PROVE  \/ t.at[v] \in Resting[v] /\ \A i \in 1 .. Len(r) : r[i] # v
             \/ t.at[v] \in Owing[v] /\ \E i \in 1 .. Len(r) : r[i] = v
  <2>1. CASE s.at[v] \in Resting[v] /\ \A i \in 1 .. Len(q) : q[i] # v
      BY <1>1, <1>2, <2>1
  <2>2. CASE s.at[v] \in Owing[v] /\ \E i \in 1 .. Len(q) : q[i] = v
    <3>1. PICK i \in 1 .. Len(q) : q[i] = v
        BY <2>2
    <3>2. i # 1 /\ i - 1 \in 1 .. Len(r) /\ r[i - 1] = v
        BY <1>2, <3>1
    <3>3. QED
        BY <1>1, <2>2, <3>2, Zenon
  <2>3. QED
      BY <1>1, <2>1, <2>2
<1>6. s.at[u] \in Owing[u]
    BY <1>1, <1>2
<1>7. QED
    BY <1>2, <1>3, <1>4, <1>5, <1>6 DEF Queued, r, q

\* _interrupt_playback of the line that is spoken.
LEMMA Interrupts ==
    ASSUME NEW s \in GateWorker, NEW d \in Nat, NEW Z \in SUBSET Nat, GateFits(s, d, Z), Rests(s),
           NEW u \in Cutters, Queued(s, u), s.at[u] = "free", s.active # 0
    PROVE  LET t == Gate!InterruptPlayback(s, u, s.active) IN
           GateSound(t, d, Z) /\ t.queue = s.queue
<1> DEFINE l == s.active
           mark2 == [s.mark EXCEPT !.state = IF s.mark.state = "waiting" THEN "dropped"
                                              ELSE s.mark.state]
           cut == [s EXCEPT !.interruptedIds = s.interruptedIds \cup {l}, !.outgoing = <<>>,
                            !.mark = mark2]
           t == Gate!InterruptPlayback(s, u, l)
<1>1. l \in Nat /\ l <= d /\ Quieted(s, d, Z) /\ Doomed(s, d) /\ Bound(s) /\ Ahead(s) /\ Wakes(s)
    BY DEF GateFits, GateWorker
<1>2. mark2 \in [state : {"none", "waiting", "confirmed", "dropped"}, context : GateContext]
    BY Zenon DEF GateWorker
<1>3. Gate!CutLocally(s, l) = cut
    BY DEF Gate!CutLocally, Gate!DropBufferedAudio
<1> HIDE DEF mark2
<1>9. s.interruptedIds \cup {l} \in SUBSET Nat /\ <<>> \in Seq(GateItem)
    BY <1>1 DEF GateWorker
<1>4. /\ cut \in GateWorker /\ cut.active = l /\ cut.interruptedIds = s.interruptedIds \cup {l}
      /\ cut.playback = s.playback /\ cut.at = s.at /\ cut.cutting = s.cutting
      /\ cut.sending = s.sending /\ cut.pipeline = s.pipeline /\ cut.queue = s.queue
      /\ cut.held = s.held /\ cut.sink = s.sink /\ cut.outgoing = <<>>
    BY <1>1, <1>2, <1>9, Zenon DEF GateWorker
<1> HIDE DEF cut
<1>5. CASE s.playback.settled
  <2> DEFINE x == [kind |-> "cut", line |-> l]
             b == [s.playback EXCEPT !.woken = TRUE]
  <2>1. t = [cut EXCEPT !.playback = b, !.pipeline = Append(cut.pipeline, x)]
      BY <1>3, <1>4, <1>5, Zenon DEF Gate!InterruptPlayback, Gate!CutSynthesis, GateWorker
  <2>2. /\ b \in GatePlayback /\ b.woken /\ b.settled /\ b.bound = s.playback.bound
        /\ b.awaiting = s.playback.awaiting
      BY <1>5, Zenon DEF GateWorker, GatePlayback
  <2>3. /\ x \in [kind : {"cut"}, line : Nat] /\ x.kind = "cut" /\ x.line = l
      BY <1>1
  <2> HIDE DEF b, x
  <2>4. Append(cut.pipeline, x) \in
            Seq([kind : {"speak"}, context : GateContext] \cup [kind : {"cut"}, line : Nat])
      BY <1>4, <2>3 DEF GateWorker
  <2> HIDE DEF t
  <2>5. /\ t \in GateWorker /\ t.active = l /\ t.interruptedIds = s.interruptedIds \cup {l}
        /\ t.playback = b /\ t.at = s.at /\ t.cutting = s.cutting
        /\ t.sending = s.sending /\ t.pipeline = Append(s.pipeline, x) /\ t.queue = s.queue
        /\ t.held = s.held /\ t.sink = s.sink /\ t.outgoing = <<>>
      BY <1>4, <2>1, <2>2, <2>4, Zenon DEF GateWorker
  <2>6. Aged(s, d, t, d)
      BY <2>2, <2>5 DEF Aged
  <2>7. Quieted(t, d, Z)
      BY <1>1, <2>5, <2>6, QuietStays
  <2>8. Dead(t, d, l)
      BY <1>1, <2>5 DEF Dead
  <2>9. t.pipeline = Append(s.pipeline, [kind |-> "cut", line |-> l])
      BY <2>5 DEF x
  <2>10. /\ Covered(t)
         /\ \A i \in 1 .. Len(t.pipeline) : t.pipeline[i].kind = "cut" =>
                 \/ \E j \in 1 .. Len(s.pipeline) : s.pipeline[j] = t.pipeline[i]
                 \/ t.pipeline[i].line = l
      BY <1>1, <2>5, <2>9, CutAppended
  <2>11. Doomed(t, d)
    <3>1. \A i \in 1 .. Len(t.pipeline) : t.pipeline[i].kind = "cut" =>
                 \/ \E j \in 1 .. Len(s.pipeline) : s.pipeline[j] = t.pipeline[i]
                 \/ Dead(t, d, t.pipeline[i].line)
        BY <2>8, <2>10
    <3>2. \A v \in Cutters : t.at[v] = "cutting" =>
                 \/ s.at[v] = "cutting" /\ t.cutting[v] = s.cutting[v]
                 \/ Dead(t, d, t.cutting[v])
        BY <2>5
    <3>3. t \in GateWorker /\ Doomed(s, d)
        BY <1>1, <2>5
    <3>4. QED
        BY <2>6, <3>1, <3>2, <3>3, DoomStays
  <2>12. Ahead(t)
      BY <2>10 DEF Ahead, Covered
  <2>13. Bound(t) /\ Wakes(t) /\ Rests(t)
      BY <1>1, <2>2, <2>5 DEF Bound, Wakes, Rests
  <2>14. Queued(t, "nobody")
    <3>1. u \in Tasks /\ s.at[u] \in Resting[u] /\ t.at = [s.at EXCEPT ![u] = s.at[u]]
        BY <2>5 DEF Cutters, Tasks, Resting, GateWorker
    <3>2. QED
        BY <2>5, <3>1, QueuedRests
  <2>15. QED
      BY <1>1, <2>5, <2>7, <2>11, <2>12, <2>13, <2>14 DEF GateSound, GateFits, t
<1>6. CASE ~s.playback.settled
  <2> DEFINE cutting2 == [s.cutting EXCEPT ![u] = l]
             at2 == [s.at EXCEPT ![u] = "cutting"]
  <2>1. t = [cut EXCEPT !.cutting = cutting2, !.stopped = cut.stopped \cup {l},
                        !.sending = Append(s.sending, u), !.at = at2]
      BY <1>3, <1>4, <1>6, Zenon
         DEF Gate!InterruptPlayback, Gate!Report, Gate!Send, GateWorker
  <2>2. /\ cutting2 \in [Cutters -> Nat] /\ cutting2[u] = l
        /\ \A v \in Cutters \ {u} : cutting2[v] = s.cutting[v]
      BY <1>1 DEF GateWorker
  <2>3. /\ at2 \in [Tasks -> Places] /\ at2[u] = "cutting"
        /\ \A v \in Tasks \ {u} : at2[v] = s.at[v]
      BY DEF GateWorker, Cutters, Tasks, Places
  <2>4. u \in Tasks /\ "cutting" \in Owing[u] /\ u # "loop" /\ "loop" \in Tasks
      BY DEF Cutters, Tasks, Owing
  <2>5. Append(s.sending, u) \in Seq(Tasks) /\ cut.stopped \cup {l} \in SUBSET Nat
      BY <1>1, <1>4, <2>4 DEF GateWorker
  <2> HIDE DEF t, cutting2, at2
  <2>6. /\ t \in GateWorker /\ t.active = l /\ t.interruptedIds = s.interruptedIds \cup {l}
        /\ t.playback = s.playback /\ t.at = at2 /\ t.cutting = cutting2
        /\ t.sending = Append(s.sending, u) /\ t.pipeline = s.pipeline /\ t.queue = s.queue
        /\ t.held = s.held /\ t.sink = s.sink /\ t.outgoing = <<>>
      BY <1>4, <2>1, <2>2, <2>3, <2>5, Zenon DEF GateWorker
  <2>7. Aged(s, d, t, d)
      BY <2>6 DEF Aged
  <2>8. Quieted(t, d, Z)
      BY <1>1, <2>6, <2>7, QuietStays
  <2>9. Dead(t, d, l)
      BY <1>1, <2>6 DEF Dead
  <2>10. Doomed(t, d)
    <3>1. \A v \in Cutters : t.at[v] = "cutting" =>
              \/ s.at[v] = "cutting" /\ t.cutting[v] = s.cutting[v]
              \/ Dead(t, d, t.cutting[v])
        BY <2>2, <2>3, <2>6, <2>9 DEF Cutters, Tasks
    <3>2. QED
        BY <1>1, <2>6, <2>7, <3>1, DoomStays, Zenon
  <2>11. t.at["loop"] = s.at["loop"]
      BY <2>3, <2>4, <2>6
  <2>12. Ahead(t) /\ Bound(t) /\ Rests(t)
      BY <1>1, <2>6, <2>11 DEF Ahead, Bound, Rests
  <2>13. Wakes(t)
      BY <2>2, <2>3, <2>6 DEF Wakes
  <2>14. t.at = [s.at EXCEPT ![u] = "cutting"]
      BY <2>6 DEF at2
  <2>15. Queued(t, "nobody")
      BY <2>4, <2>6, <2>14, QueuedSends
  <2>16. QED
      BY <1>1, <2>6, <2>8, <2>10, <2>12, <2>13, <2>15 DEF GateSound, GateFits, t
<1>7. QED
    BY <1>5, <1>6 DEF GateWorker, GatePlayback

\* The synthesis of a line is cut.
LEMMA CutSynthesisSets ==
    ASSUME NEW s \in GateWorker, NEW l \in Nat
    PROVE  LET t == Gate!CutSynthesis(s, l) IN
           /\ t \in GateWorker /\ t.active = s.active /\ t.interruptedIds = s.interruptedIds
           /\ t.at = s.at /\ t.cutting = s.cutting /\ t.sending = s.sending /\ t.queue = s.queue
           /\ t.held = s.held /\ t.sink = s.sink /\ t.outgoing = s.outgoing
           /\ t.pipeline = Append(s.pipeline, [kind |-> "cut", line |-> l])
           /\ t.playback.bound = s.playback.bound /\ t.playback.awaiting = s.playback.awaiting
           /\ t.playback.settled = s.playback.settled
           /\ s.playback.woken \/ l = s.active => t.playback.woken
<1> DEFINE x == [kind |-> "cut", line |-> l]
           w == s.playback.woken \/ l = s.active
           b == [s.playback EXCEPT !.woken = w]
           t == Gate!CutSynthesis(s, l)
<1>1. t = [s EXCEPT !.playback = b, !.pipeline = Append(s.pipeline, x)]
    BY DEF Gate!CutSynthesis
<1>2. x \in [kind : {"cut"}, line : Nat]
    OBVIOUS
<1>3. w \in BOOLEAN /\ (s.playback.woken \/ l = s.active => w)
    OBVIOUS
<1> HIDE DEF w, x
<1>4. /\ b \in GatePlayback /\ b.woken = w /\ b.settled = s.playback.settled
      /\ b.bound = s.playback.bound /\ b.awaiting = s.playback.awaiting
    BY <1>3, Zenon DEF GateWorker, GatePlayback
<1>5. Append(s.pipeline, x) \in
            Seq([kind : {"speak"}, context : GateContext] \cup [kind : {"cut"}, line : Nat])
    BY <1>2 DEF GateWorker
<1> HIDE DEF b, t
<1>6. /\ t \in GateWorker /\ t.active = s.active /\ t.interruptedIds = s.interruptedIds
      /\ t.at = s.at /\ t.cutting = s.cutting /\ t.sending = s.sending /\ t.queue = s.queue
      /\ t.held = s.held /\ t.sink = s.sink /\ t.outgoing = s.outgoing
      /\ t.pipeline = Append(s.pipeline, x) /\ t.playback = b
    BY <1>1, <1>4, <1>5, Zenon DEF GateWorker
<1>7. QED
    BY <1>3, <1>4, <1>6 DEF t, x

\* A cut of the synthesis keeps what is sound, of a line that is over.
LEMMA SynthesisIsCut ==
    ASSUME NEW s \in GateWorker, NEW l \in Nat, NEW d \in Nat, NEW Z \in SUBSET Nat,
           s.active <= d, Quieted(s, d, Z), Doomed(s, d), Bound(s), Dead(s, d, l)
    PROVE  LET t == Gate!CutSynthesis(s, l) IN
           /\ t \in GateWorker /\ t.active <= d
           /\ Quieted(t, d, Z) /\ Doomed(t, d) /\ Bound(t) /\ Covered(t) /\ Ahead(t)
<1> DEFINE t == Gate!CutSynthesis(s, l)
<1>1. /\ t \in GateWorker /\ t.active = s.active /\ t.interruptedIds = s.interruptedIds
      /\ t.at = s.at /\ t.cutting = s.cutting
      /\ t.held = s.held /\ t.sink = s.sink /\ t.outgoing = s.outgoing
      /\ t.pipeline = Append(s.pipeline, [kind |-> "cut", line |-> l])
      /\ t.playback.bound = s.playback.bound /\ t.playback.awaiting = s.playback.awaiting
      /\ t.playback.settled = s.playback.settled
    BY CutSynthesisSets
<1> HIDE DEF t
<1>2. Aged(s, d, t, d)
    BY <1>1 DEF Aged
<1>3. Quieted(t, d, Z)
    BY <1>1, <1>2, QuietStays, Zenon
<1>4. Dead(t, d, l)
    BY <1>1, <1>2, DeadStays
<1>5. /\ Covered(t)
      /\ \A i \in 1 .. Len(t.pipeline) : t.pipeline[i].kind = "cut" =>
                 \/ \E j \in 1 .. Len(s.pipeline) : s.pipeline[j] = t.pipeline[i]
                 \/ t.pipeline[i].line = l
    BY <1>1, CutAppended
<1>6. Doomed(t, d)
  <2>1. \A i \in 1 .. Len(t.pipeline) : t.pipeline[i].kind = "cut" =>
                 \/ \E j \in 1 .. Len(s.pipeline) : s.pipeline[j] = t.pipeline[i]
                 \/ Dead(t, d, t.pipeline[i].line)
      BY <1>4, <1>5, Zenon
  <2>2. \A v \in Cutters : t.at[v] = "cutting" =>
                 \/ s.at[v] = "cutting" /\ t.cutting[v] = s.cutting[v]
                 \/ Dead(t, d, t.cutting[v])
      BY <1>1
  <2>3. t \in GateWorker
      BY <1>1
  <2>4. QED
      BY <1>2, <2>1, <2>2, <2>3, DoomStays, Zenon
<1>7. Ahead(t) /\ Bound(t)
    BY <1>1, <1>5, Zenon DEF Ahead, Covered, Bound
<1>8. QED
    BY <1>1, <1>3, <1>5, <1>6, <1>7 DEF t

\* _interrupt_playback after its report.
LEMMA CutIsReported ==
    ASSUME NEW s \in GateWorker, NEW d \in Nat, NEW Z \in SUBSET Nat, GateFits(s, d, Z), Rests(s),
           NEW u \in Cutters, Queued(s, u), s.at[u] = "cutting"
    PROVE  LET t == Gate!Reported(s, u) IN GateSound(t, d, Z) /\ t.queue = s.queue
<1> DEFINE l == s.cutting[u]
           w == s.playback.settled \/ l = s.active
           b == [s.playback EXCEPT !.settled = w]
           cutting2 == [s.cutting EXCEPT ![u] = 0]
           at2 == [s.at EXCEPT ![u] = "free"]
           c == [s EXCEPT !.playback = b, !.cutting = cutting2, !.at = at2]
           t == Gate!Reported(s, u)
<1>1. /\ Quieted(s, d, Z) /\ Doomed(s, d) /\ Bound(s) /\ Ahead(s) /\ Wakes(s)
      /\ l \in Nat /\ s.active <= d /\ Dead(s, d, l)
    BY DEF GateFits, GateWorker, Doomed
<1>2. t = Gate!CutSynthesis(c, l)
    BY DEF Gate!Reported, Gate!NoLine
<1>3. w \in BOOLEAN /\ (s.playback.settled => w)
    OBVIOUS
<1> HIDE DEF w
<1>4. /\ b \in GatePlayback /\ b.settled = w /\ b.woken = s.playback.woken
      /\ b.bound = s.playback.bound /\ b.awaiting = s.playback.awaiting
    BY <1>3, Zenon DEF GateWorker, GatePlayback
<1>5. /\ cutting2 \in [Cutters -> Nat]
      /\ \A v \in Cutters \ {u} : cutting2[v] = s.cutting[v]
    BY DEF GateWorker
<1>6. /\ at2 \in [Tasks -> Places] /\ at2[u] = "free"
      /\ \A v \in Tasks \ {u} : at2[v] = s.at[v]
    BY DEF GateWorker, Cutters, Tasks, Places
<1>7. u \in Tasks /\ "free" \in Resting[u] /\ u # "loop" /\ "loop" \in Tasks
    BY DEF Cutters, Tasks, Resting
<1> HIDE DEF b, cutting2, at2, t
<1>8. /\ c \in GateWorker /\ c.active = s.active /\ c.interruptedIds = s.interruptedIds
      /\ c.playback = b /\ c.at = at2 /\ c.cutting = cutting2
      /\ c.sending = s.sending /\ c.pipeline = s.pipeline /\ c.queue = s.queue
      /\ c.held = s.held /\ c.sink = s.sink /\ c.outgoing = s.outgoing
    BY <1>4, <1>5, <1>6, Zenon DEF GateWorker
<1> HIDE DEF c
<1>9. Aged(s, d, c, d)
    BY <1>3, <1>4, <1>8 DEF Aged
<1>10. Quieted(c, d, Z) /\ Dead(c, d, l)
    BY <1>1, <1>8, <1>9, QuietStays, DeadStays
<1>11. Doomed(c, d)
  <2>1. \A v \in Cutters : c.at[v] = "cutting" =>
                 \/ s.at[v] = "cutting" /\ c.cutting[v] = s.cutting[v]
                 \/ Dead(c, d, c.cutting[v])
      BY <1>5, <1>6, <1>8 DEF Cutters, Tasks
  <2>2. \A i \in 1 .. Len(c.pipeline) : c.pipeline[i].kind = "cut" =>
                 \/ \E j \in 1 .. Len(s.pipeline) : s.pipeline[j] = c.pipeline[i]
                 \/ Dead(c, d, c.pipeline[i].line)
      BY <1>8
  <2>3. c \in GateWorker /\ Doomed(s, d)
      BY <1>1, <1>8
  <2>4. QED
      BY <1>9, <2>1, <2>2, <2>3, DoomStays
<1>12. Bound(c)
    BY <1>1, <1>4, <1>8 DEF Bound
<1>13. /\ t \in GateWorker /\ t.active <= d
       /\ Quieted(t, d, Z) /\ Doomed(t, d) /\ Bound(t) /\ Ahead(t)
    BY <1>1, <1>2, <1>8, <1>10, <1>11, <1>12, SynthesisIsCut
<1>14. /\ t.active = s.active /\ t.interruptedIds = s.interruptedIds /\ t.queue = s.queue
       /\ t.at = at2 /\ t.cutting = cutting2 /\ t.sending = s.sending
       /\ t.playback.bound = s.playback.bound
       /\ s.playback.woken \/ l = s.active => t.playback.woken
  <2>1. /\ t.active = c.active /\ t.interruptedIds = c.interruptedIds /\ t.queue = c.queue
        /\ t.at = c.at /\ t.cutting = c.cutting /\ t.sending = c.sending
        /\ t.playback.bound = c.playback.bound
        /\ c.playback.woken \/ l = c.active => t.playback.woken
      BY <1>1, <1>2, <1>8, CutSynthesisSets, Zenon
  <2>2. c.playback.woken = s.playback.woken /\ c.playback.bound = s.playback.bound
      BY <1>4, <1>8
  <2>3. QED
      BY <1>8, <2>1, <2>2
<1>15. Wakes(t)
  <2> SUFFICES ASSUME t.active \in t.interruptedIds, t.at["loop"] = "synthesis", ~t.playback.woken
               PROVE  \E v \in Cutters : t.at[v] = "cutting" /\ t.cutting[v] = t.active
      BY DEF Wakes
  <2>1. s.active \in s.interruptedIds /\ s.at["loop"] = "synthesis" /\ ~s.playback.woken
        /\ l # s.active
      BY <1>6, <1>7, <1>14
  <2>2. PICK v \in Cutters : s.at[v] = "cutting" /\ s.cutting[v] = s.active
      BY <1>1, <2>1 DEF Wakes
  <2>3. v # u /\ v \in Tasks
      BY <2>1, <2>2 DEF Cutters, Tasks
  <2>4. QED
      BY <1>5, <1>6, <1>14, <2>2, <2>3
<1>16. Rests(t)
    BY <1>6, <1>7, <1>14 DEF Rests
<1>17. Queued(t, "nobody")
  <2>1. t.at = [s.at EXCEPT ![u] = "free"]
      BY <1>14 DEF at2
  <2>2. QED
      BY <1>7, <1>13, <1>14, <2>1, QueuedRests
<1>18. QED
    BY <1>13, <1>14, <1>15, <1>16, <1>17 DEF GateSound, GateFits, t

\* The loop is free for the next line.
LEMMA LoopIsFree ==
    ASSUME NEW s \in GateWorker, NEW d \in Nat, NEW Z \in SUBSET Nat,
           Quieted(s, d, Z), Doomed(s, d), Covered(s), Queued(s, "loop")
    PROVE  LET t == Gate!NextLine(s) IN GateSound(t, d, Z) /\ t.queue = s.queue
<1> DEFINE at2 == [s.at EXCEPT !["loop"] = "idle"]
           t == Gate!NextLine(s)
<1>1. t = [s EXCEPT !.active = 0, !.playback = Gate!NewPlayback, !.at = at2]
    BY DEF Gate!NextLine, Gate!NoLine, GateWorker
<1>2. /\ Gate!NewPlayback \in GatePlayback /\ Gate!NewPlayback.bound = Gate!Nothing
      /\ ~Gate!NewPlayback.awaiting
    BY DEF Gate!NewPlayback, Gate!Nothing, Gate!NoLine, GatePlayback, GateContext
<1>3. /\ at2 \in [Tasks -> Places] /\ at2["loop"] = "idle"
      /\ \A v \in Tasks \ {"loop"} : at2[v] = s.at[v]
    BY DEF GateWorker, Tasks, Places
<1>4. "loop" \in Tasks /\ "idle" \in Resting["loop"]
    BY DEF Tasks, Resting
<1> HIDE DEF at2, t
<1>5. /\ t \in GateWorker /\ t.active = 0 /\ t.playback = Gate!NewPlayback /\ t.at = at2
      /\ t.interruptedIds = s.interruptedIds /\ t.cutting = s.cutting
      /\ t.sending = s.sending /\ t.pipeline = s.pipeline /\ t.queue = s.queue
      /\ t.held = s.held /\ t.sink = s.sink /\ t.outgoing = s.outgoing
    BY <1>1, <1>2, <1>3, Zenon DEF GateWorker
<1>6. Aged(s, d, t, d)
    BY <1>5 DEF Aged
<1>7. Quieted(t, d, Z)
    BY <1>5, <1>6, QuietStays
<1>8. Doomed(t, d)
  <2>1. \A v \in Cutters : t.at[v] = "cutting" =>
                 \/ s.at[v] = "cutting" /\ t.cutting[v] = s.cutting[v]
                 \/ Dead(t, d, t.cutting[v])
      BY <1>3, <1>5 DEF Cutters, Tasks
  <2>2. \A i \in 1 .. Len(t.pipeline) : t.pipeline[i].kind = "cut" =>
                 \/ \E j \in 1 .. Len(s.pipeline) : s.pipeline[j] = t.pipeline[i]
                 \/ Dead(t, d, t.pipeline[i].line)
      BY <1>5
  <2>3. QED
      BY <1>5, <1>6, <2>1, <2>2, DoomStays
<1>9. Bound(t) /\ Ahead(t) /\ Rests(t)
    BY <1>2, <1>3, <1>4, <1>5 DEF Bound, Ahead, Covered, Rests
<1>10. Wakes(t)
    BY <1>3, <1>5 DEF Wakes
<1>11. Queued(t, "nobody")
  <2>1. t.at = [s.at EXCEPT !["loop"] = "idle"]
      BY <1>5 DEF at2
  <2>2. QED
      BY <1>4, <1>5, <2>1, QueuedRests
<1>12. QED
    BY <1>5, <1>7, <1>8, <1>9, <1>10, <1>11 DEF GateSound, GateFits, t

\* The loop sends a frame: pc is where it will go on, and it awaits no chunk then.
LEMMA LoopSends ==
    ASSUME NEW s \in GateWorker, NEW d \in Nat, NEW Z \in SUBSET Nat,
           GateFits(s, d, Z), Queued(s, "loop"), s.active # 0, NEW pc \in Owing["loop"],
           Covered(s) \/ (pc \in {"erring", "failing"} /\ s.at["loop"] # "idle"),
           NEW t, t = Gate!Send(s, "loop", pc) \/ t = Gate!Send(Gate!Report(s, s.active), "loop", pc)
    PROVE  GateSound(t, d, Z) /\ t.queue = s.queue
<1> DEFINE at2 == [s.at EXCEPT !["loop"] = pc]
           sending2 == Append(s.sending, "loop")
<1>1. /\ Quieted(s, d, Z) /\ Doomed(s, d) /\ Bound(s) /\ Ahead(s)
      /\ s.active \in Nat /\ s.active <= d
    BY DEF GateFits, GateWorker
<1>2. PICK stopped2 \in SUBSET Nat :
            t = [s EXCEPT !.sending = sending2, !.at = at2, !.stopped = stopped2]
  <2>1. s.stopped \in SUBSET Nat /\ s.stopped \cup {s.active} \in SUBSET Nat
      BY <1>1 DEF GateWorker
  <2>2. CASE t = Gate!Send(s, "loop", pc)
    <3>1. t = [s EXCEPT !.sending = sending2, !.at = at2, !.stopped = s.stopped]
        BY <2>2, Zenon DEF Gate!Send, GateWorker
    <3>2. QED
        BY Zenon, <2>1, <3>1
  <2>3. CASE t = Gate!Send(Gate!Report(s, s.active), "loop", pc)
    <3>1. t = [s EXCEPT !.sending = sending2, !.at = at2, !.stopped = s.stopped \cup {s.active}]
        BY <2>3, Zenon DEF Gate!Send, Gate!Report, GateWorker
    <3>2. QED
        BY Zenon, <2>1, <3>1
  <2>4. QED
      BY Zenon, <2>2, <2>3
<1>3. "loop" \in Tasks /\ pc \in Places /\ pc \notin {"synthesis", "idle"}
    BY DEF Tasks, Owing, Places
<1>4. /\ at2 \in [Tasks -> Places] /\ at2["loop"] = pc
      /\ \A v \in Tasks \ {"loop"} : at2[v] = s.at[v]
    BY <1>3 DEF GateWorker
<1>5. sending2 \in Seq(Tasks)
    BY <1>3 DEF GateWorker
<1> HIDE DEF at2, sending2
<1>6. /\ t \in GateWorker /\ t.active = s.active /\ t.playback = s.playback /\ t.at = at2
      /\ t.interruptedIds = s.interruptedIds /\ t.cutting = s.cutting
      /\ t.sending = sending2 /\ t.pipeline = s.pipeline /\ t.queue = s.queue
      /\ t.held = s.held /\ t.sink = s.sink /\ t.outgoing = s.outgoing
    BY <1>2, <1>4, <1>5, Zenon DEF GateWorker
<1>7. Aged(s, d, t, d)
    BY <1>6 DEF Aged
<1>8. Quieted(t, d, Z)
    BY <1>1, <1>6, <1>7, QuietStays
<1>9. Doomed(t, d)
  <2>1. \A v \in Cutters : t.at[v] = "cutting" =>
                 \/ s.at[v] = "cutting" /\ t.cutting[v] = s.cutting[v]
                 \/ Dead(t, d, t.cutting[v])
      BY <1>4, <1>6 DEF Cutters, Tasks
  <2>2. \A i \in 1 .. Len(t.pipeline) : t.pipeline[i].kind = "cut" =>
                 \/ \E j \in 1 .. Len(s.pipeline) : s.pipeline[j] = t.pipeline[i]
                 \/ Dead(t, d, t.pipeline[i].line)
      BY <1>6
  <2>3. t \in GateWorker /\ Doomed(s, d)
      BY <1>1, <1>6
  <2>4. QED
      BY <1>7, <2>1, <2>2, <2>3, DoomStays
<1>10. Bound(t) /\ Wakes(t) /\ Rests(t)
    BY <1>1, <1>3, <1>4, <1>6 DEF Bound, Wakes, Rests
<1>11. Ahead(t)
  <2>1. CASE Covered(s)
      BY <1>6, <2>1 DEF Ahead, Covered
  <2>2. CASE pc \in {"erring", "failing"}
      BY <1>1, <1>4, <1>6, <2>2 DEF Ahead
  <2>3. QED
      BY <2>1, <2>2
<1>12. Queued(t, "nobody")
  <2>1. t.at = [s.at EXCEPT !["loop"] = pc] /\ t.sending = Append(s.sending, "loop")
      BY <1>6 DEF at2, sending2
  <2>2. QED
      BY <1>3, <1>6, <2>1, QueuedSends
<1>13. QED
    BY <1>1, <1>6, <1>8, <1>9, <1>10, <1>11, <1>12 DEF GateSound, GateFits

\* The end of _play_chunks.
LEMMA Finishes ==
    ASSUME NEW s \in GateWorker, NEW d \in Nat, NEW Z \in SUBSET Nat,
           GateFits(s, d, Z), Covered(s), Queued(s, "loop"), s.active # 0
    PROVE  LET t == Gate!Finish(s, s.active) IN GateSound(t, d, Z) /\ t.queue = s.queue
<1> DEFINE l == s.active
           b == [s EXCEPT !.interruptedIds = s.interruptedIds \ {l}]
           t == Gate!Finish(s, l)
<1>1. CASE ~s.playback.settled /\ l \notin s.interruptedIds
  <2>1. t = Gate!Send(Gate!Report(s, l), "loop", "completing")
      BY <1>1 DEF Gate!Finish
  <2>2. "completing" \in Owing["loop"]
      BY DEF Owing
  <2>3. QED
      BY <2>1, <2>2, LoopSends
<1>2. CASE ~(~s.playback.settled /\ l \notin s.interruptedIds)
  \* The line that is over is left at once, so that it need not be marked any more.
  <2> DEFINE x == [b EXCEPT !.active = 0]
  <2>1. t = Gate!NextLine(b)
      BY <1>2 DEF Gate!Finish
  <2>2. Gate!NextLine(b) = Gate!NextLine(x)
      BY Zenon DEF Gate!NextLine, Gate!NoLine, GateWorker
  <2>3. s.interruptedIds \ {l} \in SUBSET Nat
      BY DEF GateWorker
  <2>4. /\ x \in GateWorker /\ x.active = 0 /\ x.pipeline = s.pipeline /\ x.at = s.at
        /\ x.cutting = s.cutting /\ x.sending = s.sending /\ x.queue = s.queue
        /\ x.held = s.held /\ x.sink = s.sink /\ x.outgoing = s.outgoing
      BY <2>3, Zenon DEF GateWorker
  <2> HIDE DEF x
  <2>5. Aged(s, d, x, d)
      BY <2>4 DEF Aged
  <2>6. Quieted(s, d, Z) /\ Doomed(s, d)
      BY DEF GateFits
  <2>7. Quieted(x, d, Z)
      BY <2>4, <2>5, <2>6, QuietStays
  <2>8. Doomed(x, d)
    <3>1. \A v \in Cutters : x.at[v] = "cutting" =>
                 \/ s.at[v] = "cutting" /\ x.cutting[v] = s.cutting[v]
                 \/ Dead(x, d, x.cutting[v])
        BY <2>4
    <3>2. \A i \in 1 .. Len(x.pipeline) : x.pipeline[i].kind = "cut" =>
                 \/ \E j \in 1 .. Len(s.pipeline) : s.pipeline[j] = x.pipeline[i]
                 \/ Dead(x, d, x.pipeline[i].line)
        BY <2>4
    <3>3. QED
        BY <2>4, <2>5, <2>6, <3>1, <3>2, DoomStays
  <2>9. Covered(x) /\ Queued(x, "loop")
      BY <2>4, QueuedStays DEF Covered
  <2>10. QED
      BY <2>1, <2>2, <2>4, <2>7, <2>8, <2>9, LoopIsFree
<1>3. QED
    BY <1>1, <1>2

\* A chunk is armed, or the line was cut.
LEMMA Arms ==
    ASSUME NEW s \in GateWorker, NEW d \in Nat, NEW Z \in SUBSET Nat,
           GateFits(s, d, Z), Covered(s), Queued(s, "loop"), s.active # 0, NEW i \in Nat
    PROVE  LET t == Gate!Arm(s, s.active, i) IN GateSound(t, d, Z) /\ t.queue = s.queue
<1> DEFINE l == s.active
           x == [kind |-> "speak", context |-> <<l, i>>]
           b == [s.playback EXCEPT !.chunk = i, !.awaiting = TRUE, !.bound = Gate!Nothing,
                                   !.audio = FALSE, !.woken = FALSE]
           at2 == [s.at EXCEPT !["loop"] = "synthesis"]
           pipeline2 == Append(s.pipeline, x)
           t == Gate!Arm(s, l, i)
<1>1. /\ Quieted(s, d, Z) /\ Doomed(s, d) /\ Bound(s) /\ l \in Nat /\ l <= d
    BY DEF GateFits, GateWorker
<1>2. CASE l \in s.interruptedIds
  <2>1. t = Gate!Finish(s, l)
      BY <1>2 DEF Gate!Arm
  <2>2. QED
      BY <2>1, Finishes
<1>3. CASE l \notin s.interruptedIds
  <2>1. t = [s EXCEPT !.playback = b, !.pipeline = pipeline2, !.at = at2]
      BY <1>3 DEF Gate!Arm
  <2>2. /\ b \in GatePlayback /\ b.awaiting /\ ~b.woken /\ b.bound = Gate!Nothing
        /\ b.settled = s.playback.settled
      BY ZenonT(60) DEF GateWorker, GatePlayback, Gate!Nothing, Gate!NoLine, GateContext
  <2>3. /\ at2 \in [Tasks -> Places] /\ at2["loop"] = "synthesis"
        /\ \A v \in Tasks \ {"loop"} : at2[v] = s.at[v]
      BY DEF GateWorker, Tasks, Places
  <2>4. /\ x \in [kind : {"speak"}, context : GateContext] /\ x.kind = "speak"
        /\ x.context[1] = l
      BY <1>1 DEF GateContext
  <2>5. s.pipeline \in
            Seq([kind : {"speak"}, context : GateContext] \cup [kind : {"cut"}, line : Nat])
      BY DEF GateWorker
  <2>6. "loop" \in Tasks /\ "synthesis" \in Resting["loop"]
      BY DEF Tasks, Resting
  <2> HIDE DEF x
  <2>7. /\ pipeline2 \in
              Seq([kind : {"speak"}, context : GateContext] \cup [kind : {"cut"}, line : Nat])
        /\ Len(pipeline2) = Len(s.pipeline) + 1 /\ Len(s.pipeline) \in Nat
        /\ pipeline2[Len(pipeline2)] = x
        /\ \A j \in 1 .. Len(s.pipeline) : pipeline2[j] = s.pipeline[j]
      BY <2>4, <2>5
  <2> HIDE DEF b, at2, pipeline2, t
  <2>8. /\ t \in GateWorker /\ t.active = l /\ t.playback = b /\ t.at = at2
        /\ t.interruptedIds = s.interruptedIds /\ t.cutting = s.cutting
        /\ t.sending = s.sending /\ t.pipeline = pipeline2 /\ t.queue = s.queue
        /\ t.held = s.held /\ t.sink = s.sink /\ t.outgoing = s.outgoing
      BY <2>1, <2>2, <2>3, <2>7, Zenon DEF GateWorker
  <2>9. Aged(s, d, t, d)
      BY <2>2, <2>8 DEF Aged
  <2>10. Quieted(t, d, Z)
      BY <1>1, <2>8, <2>9, QuietStays
  <2>11. Doomed(t, d)
    <3>1. \A v \in Cutters : t.at[v] = "cutting" =>
                 \/ s.at[v] = "cutting" /\ t.cutting[v] = s.cutting[v]
                 \/ Dead(t, d, t.cutting[v])
        BY <2>3, <2>8 DEF Cutters, Tasks
    <3>2. \A j \in 1 .. Len(t.pipeline) : t.pipeline[j].kind = "cut" =>
                 \/ \E k \in 1 .. Len(s.pipeline) : s.pipeline[k] = t.pipeline[j]
                 \/ Dead(t, d, t.pipeline[j].line)
      <4>1. ASSUME NEW j \in 1 .. Len(t.pipeline), t.pipeline[j].kind = "cut"
            PROVE  \E k \in 1 .. Len(s.pipeline) : s.pipeline[k] = t.pipeline[j]
        <5>1. j # Len(pipeline2)
            BY <2>4, <2>7, <2>8, <4>1
        <5>2. j \in 1 .. Len(s.pipeline)
            BY <2>7, <2>8, <5>1
        <5>3. QED
            BY <2>7, <2>8, <5>2
      <4>2. QED
          BY <4>1
    <3>3. t \in GateWorker /\ Doomed(s, d)
        BY <1>1, <2>8
    <3>4. QED
        BY <2>9, <3>1, <3>2, <3>3, DoomStays
  <2>12. Ahead(t)
    <3>1. ASSUME NEW j \in 1 .. Len(t.pipeline), t.pipeline[j].kind = "speak", j # Len(t.pipeline)
          PROVE  \E k \in j + 1 .. Len(t.pipeline) : t.pipeline[k].kind = "cut"
      <4>1. j \in 1 .. Len(s.pipeline) /\ s.pipeline[j].kind = "speak"
          BY <2>7, <2>8, <3>1
      <4>2. PICK k \in j + 1 .. Len(s.pipeline) : s.pipeline[k].kind = "cut"
          BY <4>1 DEF Covered
      <4>3. k \in 1 .. Len(s.pipeline) /\ k \in j + 1 .. Len(t.pipeline)
          BY <2>7, <2>8, <4>1, <4>2
      <4>4. QED
          BY <2>7, <2>8, <4>2, <4>3
    <3>2. /\ t.pipeline[Len(t.pipeline)].context[1] = t.active
          /\ t.playback.awaiting /\ ~t.playback.woken /\ t.at["loop"] = "synthesis"
        BY <2>2, <2>3, <2>4, <2>7, <2>8
    <3>3. QED
        BY <3>1, <3>2 DEF Ahead
  <2>13. Bound(t) /\ Wakes(t) /\ Rests(t)
      BY <1>3, <2>2, <2>3, <2>8 DEF Bound, Wakes, Rests
  <2>14. Queued(t, "nobody")
    <3>1. t.at = [s.at EXCEPT !["loop"] = "synthesis"]
        BY <2>8 DEF at2
    <3>2. QED
        BY <2>6, <2>8, <3>1, QueuedRests
  <2>15. QED
      BY <1>1, <2>8, <2>10, <2>11, <2>12, <2>13, <2>14 DEF GateSound, GateFits, t
<1>4. QED
    BY <1>2, <1>3

\* A sound worker whose loop is not at a chunk has a cut behind whatever is to be spoken.
LEMMA LoopIsCovered ==
    ASSUME NEW s, Ahead(s), s.at["loop"] \notin {"synthesis", "erring", "failing"} \/ s.playback.woken
    PROVE  Covered(s)
BY DEF Ahead, Covered

\* The socket has taken the loop's frame.
LEMMA LoopGoesOn ==
    ASSUME NEW s \in GateWorker, NEW d \in Nat, NEW Z \in SUBSET Nat,
           GateFits(s, d, Z), Queued(s, "loop"), s.at["loop"] \in Owing["loop"],
           s.active # 0
    PROVE  LET t == Gate!LoopReported(s) IN GateSound(t, d, Z) /\ t.queue = s.queue
<1> DEFINE l == s.active
           i == s.playback.chunk
           b == [s.playback EXCEPT !.settled = TRUE]
           settled == [s EXCEPT !.playback = b]
           t == Gate!LoopReported(s)
<1>1. /\ Quieted(s, d, Z) /\ Doomed(s, d) /\ Bound(s) /\ Ahead(s) /\ l \in Nat /\ l <= d
      /\ i \in Nat
    BY DEF GateFits, GateWorker, GatePlayback
<1>2. /\ b \in GatePlayback /\ b.settled /\ b.woken = s.playback.woken
      /\ b.bound = s.playback.bound /\ b.awaiting = s.playback.awaiting
    BY Zenon DEF GateWorker, GatePlayback
<1>3. CASE s.at["loop"] = "acking"
  <2>1. t = IF i < Chunks THEN Gate!Arm(s, l, i + 1) ELSE Gate!Finish(s, l)
      BY <1>3 DEF Gate!LoopReported
  <2>2. Covered(s)
      BY <1>1, <1>3, LoopIsCovered
  <2>3. i + 1 \in Nat
      BY <1>1
  <2>4. QED
      BY <2>1, <2>2, <2>3, Arms, Finishes
<1>4. CASE s.at["loop"] = "erring"
  <2>1. t = Gate!Send(Gate!Report(s, l), "loop", "failing")
      BY <1>4 DEF Gate!LoopReported
  <2>2. "failing" \in Owing["loop"]
      BY DEF Owing
  <2>3. QED
      BY <1>4, <2>1, <2>2, LoopSends
<1>5. CASE s.at["loop"] \in {"completing", "givingUp", "failing"}
  <2> DEFINE mark2 == [s.mark EXCEPT !.state = IF s.mark.state = "waiting" THEN "dropped"
                                              ELSE s.mark.state]
             cut == [s EXCEPT !.playback = b, !.interruptedIds = s.interruptedIds \cup {l},
                              !.outgoing = <<>>, !.mark = mark2]
             quit == [s EXCEPT !.playback = b, !.interruptedIds = s.interruptedIds \ {l}]
  <2>1. CASE s.at["loop"] = "failing"
    <3>1. Gate!CutLocally([s EXCEPT !.playback.settled = TRUE], l) = cut
        BY DEF Gate!CutLocally, Gate!DropBufferedAudio, GateWorker
    <3>2. t = Gate!NextLine(Gate!CutSynthesis(cut, l))
        BY <2>1, <3>1 DEF Gate!LoopReported
    <3>3. mark2 \in [state : {"none", "waiting", "confirmed", "dropped"}, context : GateContext]
        BY Zenon DEF GateWorker
    <3>12. s.interruptedIds \cup {l} \in SUBSET Nat /\ <<>> \in Seq(GateItem)
        BY <1>1 DEF GateWorker
    <3> HIDE DEF mark2, b, t
    <3>4. /\ cut \in GateWorker /\ cut.active = l /\ cut.playback = b /\ cut.at = s.at
          /\ cut.interruptedIds = s.interruptedIds \cup {l} /\ cut.cutting = s.cutting
          /\ cut.sending = s.sending /\ cut.pipeline = s.pipeline /\ cut.queue = s.queue
          /\ cut.held = s.held /\ cut.sink = s.sink /\ cut.outgoing = <<>>
        BY <1>1, <1>2, <3>3, <3>12, Zenon DEF GateWorker
    <3> HIDE DEF cut
    <3>5. Aged(s, d, cut, d)
        BY <1>2, <3>4 DEF Aged
    <3>6. Quieted(cut, d, Z)
        BY <1>1, <3>4, <3>5, QuietStays, Zenon
    <3>7. Doomed(cut, d) /\ Bound(cut) /\ Dead(cut, d, l)
      <4>1. \A v \in Cutters : cut.at[v] = "cutting" =>
                 \/ s.at[v] = "cutting" /\ cut.cutting[v] = s.cutting[v]
                 \/ Dead(cut, d, cut.cutting[v])
          BY <3>4
      <4>2. \A j \in 1 .. Len(cut.pipeline) : cut.pipeline[j].kind = "cut" =>
                 \/ \E k \in 1 .. Len(s.pipeline) : s.pipeline[k] = cut.pipeline[j]
                 \/ Dead(cut, d, cut.pipeline[j].line)
          BY <3>4
      <4>3. cut \in GateWorker /\ Doomed(s, d)
          BY <1>1, <3>4
      <4>4. Doomed(cut, d)
          BY <3>5, <4>1, <4>2, <4>3, DoomStays, Zenon
      <4>5. Bound(cut) /\ Dead(cut, d, l)
          BY <1>1, <1>2, <3>4 DEF Bound, Dead
      <4>6. QED
          BY <4>4, <4>5
    <3> DEFINE c == Gate!CutSynthesis(cut, l)
    <3>8. c \in GateWorker /\ Quieted(c, d, Z) /\ Doomed(c, d) /\ Covered(c)
        BY <1>1, <3>4, <3>6, <3>7, SynthesisIsCut
    <3>9. c.at = s.at /\ c.sending = s.sending /\ c.queue = s.queue
        BY <1>1, <3>4, CutSynthesisSets, Zenon
    <3> HIDE DEF c
    <3>10. Queued(c, "loop")
        BY <3>9, QueuedStays
    <3>11. QED
        BY <3>2, <3>8, <3>9, <3>10, LoopIsFree DEF c, t
  <2>2. CASE s.at["loop"] \in {"completing", "givingUp"}
    <3> DEFINE x == [settled EXCEPT !.active = 0]
    <3>1. t = Gate!NextLine(settled) \/ t = Gate!NextLine(quit)
        BY <2>2 DEF Gate!LoopReported, GateWorker
    <3>2. \E y \in SUBSET Nat : t = Gate!NextLine([x EXCEPT !.interruptedIds = y])
      <4>1. s.interruptedIds \in SUBSET Nat /\ s.interruptedIds \ {l} \in SUBSET Nat
          BY DEF GateWorker
      <4>2. Gate!NextLine(settled) = Gate!NextLine([x EXCEPT !.interruptedIds = s.interruptedIds])
          BY Zenon DEF Gate!NextLine, Gate!NoLine, GateWorker
      <4>3. Gate!NextLine(quit) = Gate!NextLine([x EXCEPT !.interruptedIds = s.interruptedIds \ {l}])
          BY Zenon DEF Gate!NextLine, Gate!NoLine, GateWorker
      <4>4. QED
          BY Zenon, <3>1, <4>1, <4>2, <4>3
    <3>3. PICK y \in SUBSET Nat : t = Gate!NextLine([x EXCEPT !.interruptedIds = y])
        BY Zenon, <3>2
    <3> DEFINE z == [x EXCEPT !.interruptedIds = y]
    <3> HIDE DEF b, t
    <3>4. /\ z \in GateWorker /\ z.active = 0 /\ z.pipeline = s.pipeline /\ z.at = s.at
          /\ z.cutting = s.cutting /\ z.sending = s.sending /\ z.queue = s.queue
          /\ z.held = s.held /\ z.sink = s.sink /\ z.outgoing = s.outgoing
        BY <1>2, <3>3, Zenon DEF GateWorker
    <3> HIDE DEF z
    <3>5. Aged(s, d, z, d)
        BY <3>4 DEF Aged
    <3>6. Quieted(z, d, Z)
        BY <1>1, <3>4, <3>5, QuietStays
    <3>7. Doomed(z, d)
      <4>1. \A v \in Cutters : z.at[v] = "cutting" =>
                 \/ s.at[v] = "cutting" /\ z.cutting[v] = s.cutting[v]
                 \/ Dead(z, d, z.cutting[v])
          BY <3>4
      <4>2. \A j \in 1 .. Len(z.pipeline) : z.pipeline[j].kind = "cut" =>
                 \/ \E k \in 1 .. Len(s.pipeline) : s.pipeline[k] = z.pipeline[j]
                 \/ Dead(z, d, z.pipeline[j].line)
          BY <3>4
      <4>3. z \in GateWorker /\ Doomed(s, d)
          BY <1>1, <3>4
      <4>4. QED
          BY <3>5, <4>1, <4>2, <4>3, DoomStays
    <3>8. Covered(z) /\ Queued(z, "loop")
      <4>1. Covered(s)
          BY <1>1, <2>2, LoopIsCovered
      <4>2. QED
          BY <3>4, <4>1, QueuedStays DEF Covered
    <3>9. QED
        BY <3>3, <3>4, <3>6, <3>7, <3>8, LoopIsFree, Zenon DEF z, t
  <2>3. QED
      BY <1>5, <2>1, <2>2
<1>6. QED
    BY <1>3, <1>4, <1>5 DEF Owing

\* What is not looked at may change.
Alike(s, t) ==
    /\ t.active = s.active /\ t.playback = s.playback /\ t.at = s.at
    /\ t.interruptedIds = s.interruptedIds /\ t.cutting = s.cutting
    /\ t.sending = s.sending /\ t.pipeline = s.pipeline
    /\ t.held = s.held /\ t.sink = s.sink

\* Such a change, and a mark that is sent, keep what is sound.
LEMMA AlikeIsSound ==
    ASSUME NEW s \in GateWorker, NEW t \in GateWorker, NEW d \in Nat, NEW Z \in SUBSET Nat,
           GateFits(s, d, Z), Alike(s, t),
           \/ t.outgoing = s.outgoing
           \/ \E x \in GateItem : x.kind = "mark" /\ t.outgoing = Append(s.outgoing, x)
    PROVE  /\ GateFits(t, d, Z)
           /\ Rests(s) => Rests(t)
           /\ \A u : Queued(s, u) => Queued(t, u)
<1>1. /\ Quieted(s, d, Z) /\ Doomed(s, d) /\ Bound(s) /\ Ahead(s) /\ Wakes(s) /\ s.active <= d
    BY DEF GateFits
<1>2. Aged(s, d, t, d)
    BY DEF Aged, Alike
<1>3. Quieted(t, d, Z)
    BY <1>1, <1>2, QuietStays DEF Alike
<1>4. Doomed(t, d)
  <2>1. \A v \in Cutters : t.at[v] = "cutting" =>
                 \/ s.at[v] = "cutting" /\ t.cutting[v] = s.cutting[v]
                 \/ Dead(t, d, t.cutting[v])
      BY DEF Alike
  <2>2. \A j \in 1 .. Len(t.pipeline) : t.pipeline[j].kind = "cut" =>
                 \/ \E k \in 1 .. Len(s.pipeline) : s.pipeline[k] = t.pipeline[j]
                 \/ Dead(t, d, t.pipeline[j].line)
      BY DEF Alike
  <2>3. QED
      BY <1>1, <1>2, <2>1, <2>2, DoomStays
<1>5. Bound(t) /\ Ahead(t) /\ Wakes(t)
    BY <1>1 DEF Alike, Bound, Ahead, Wakes
<1>6. QED
    BY <1>1, <1>3, <1>4, <1>5 DEF Alike, GateFits, Rests, Queued

\* Audio that is current is of the line that is spoken, which is not over.
LEMMA AudioIsSound ==
    ASSUME NEW s \in GateWorker, NEW d \in Nat, NEW Z \in SUBSET Nat,
           GateSound(s, d, Z), s.at["data"] = "free", NEW c \in GateContext, c # Gate!Nothing
    PROVE  LET t == Gate!AudioFrame(s, c) IN GateSound(t, d, Z) /\ t.queue = s.queue
<1> DEFINE x == Gate!Audio(c)
           b == [s.playback EXCEPT !.audio = TRUE, !.firstAudio = TRUE]
           at2 == [s.at EXCEPT !["data"] = "first"]
           t == Gate!AudioFrame(s, c)
<1>1. /\ Quieted(s, d, Z) /\ Doomed(s, d) /\ Bound(s) /\ Ahead(s) /\ Wakes(s) /\ Rests(s)
      /\ s.active \in Nat /\ s.active <= d /\ Queued(s, "nobody")
    BY DEF GateSound, GateFits, GateWorker
<1>2. CASE ~Gate!IsCurrent(s, c)
    BY <1>2 DEF Gate!AudioFrame
<1>3. CASE Gate!IsCurrent(s, c)
  <2>1. /\ s.active # 0 /\ ~s.playback.settled /\ s.active \notin s.interruptedIds
        /\ s.playback.bound = c
      BY <1>3 DEF Gate!IsCurrent, Gate!NoLine
  <2>2. c[1] = s.active
      BY <1>1, <2>1 DEF Bound
  <2>3. \A l \in Nat : Dead(s, d, l) => c[1] # l
      BY <2>1, <2>2 DEF Dead
  <2>4. x \in GateItem /\ x \in GateAudio /\ x.kind = "audio" /\ x.context = c
      BY DEF Gate!Audio, GateItem, GateAudio
  <2> HIDE DEF x
  <2>5. /\ b \in GatePlayback /\ b.woken = s.playback.woken /\ b.settled = s.playback.settled
        /\ b.bound = s.playback.bound /\ b.awaiting = s.playback.awaiting
      BY Zenon DEF GateWorker, GatePlayback
  <2>6. /\ at2 \in [Tasks -> Places] /\ at2["data"] = "first"
        /\ \A v \in Tasks \ {"data"} : at2[v] = s.at[v]
      BY DEF GateWorker, Tasks, Places
  <2>7. /\ Append(s.sink, x) \in Seq(GateAudio) /\ <<x>> \in Seq(GateAudio)
        /\ Append(s.sending, "data") \in Seq(Tasks)
      BY <2>4 DEF GateWorker, Tasks
  <2>8. /\ "data" \in Tasks /\ "loop" \in Tasks /\ "free" \in Resting["data"]
        /\ "first" \in Owing["data"]
      BY DEF Tasks, Resting, Owing
  <2>9. /\ t \in GateWorker /\ t.active = s.active /\ t.playback = b
        /\ t.interruptedIds = s.interruptedIds /\ t.cutting = s.cutting
        /\ t.pipeline = s.pipeline /\ t.queue = s.queue /\ t.outgoing = s.outgoing
        /\ \/ /\ t.at = s.at /\ t.sending = s.sending
              /\ t.held = s.held /\ t.sink = Append(s.sink, x)
           \/ /\ t.at = at2 /\ t.sending = Append(s.sending, "data")
              /\ t.held = <<x>> /\ t.sink = s.sink
    <3>1. CASE s.playback.firstAudio
      <4>1. t = [s EXCEPT !.playback = b, !.sink = Append(s.sink, x)]
          BY <1>3, <3>1, Zenon DEF Gate!AudioFrame, GateWorker, x
      <4> HIDE DEF b, t
      <4>2. QED
          BY <2>5, <2>7, <4>1, Zenon DEF GateWorker
    <3>2. CASE ~s.playback.firstAudio
      <4>1. t = [s EXCEPT !.playback = b, !.held = <<x>>, !.sending = Append(s.sending, "data"),
                          !.at = at2]
          BY <1>3, <3>2, Zenon DEF Gate!AudioFrame, Gate!Send, GateWorker, x
      <4> HIDE DEF b, t, at2
      <4>2. QED
          BY <2>5, <2>6, <2>7, <4>1, Zenon DEF GateWorker
    <3>3. QED
        BY <3>1, <3>2
  <2> HIDE DEF b, t, at2
  <2>10. Aged(s, d, t, d)
      BY <2>5, <2>9 DEF Aged
  <2>11. \A l \in Nat : Dead(s, d, l) /\ Hushed(s, l) => Dead(t, d, l) /\ Hushed(t, l)
    <3> SUFFICES ASSUME NEW l \in Nat, Dead(s, d, l), Hushed(s, l)
                 PROVE  Dead(t, d, l) /\ Hushed(t, l)
        OBVIOUS
    <3>1. Dead(t, d, l)
        BY <2>9, <2>10, DeadStays
    <3>2. Mute(s.sink, l) /\ Mute(s.held, l) /\ s.sink \in Seq(GateItem)
        BY AudioIsItem DEF Hushed, GateWorker
    <3>3. x.context[1] # l
        BY <2>3, <2>4
    <3>4. Mute(Append(s.sink, x), l)
        BY <2>4, <3>2, <3>3, MuteQueues
    <3>5. Mute(<<x>>, l)
        BY <3>3 DEF Mute
    <3>6. QED
        BY <2>9, <3>1, <3>2, <3>4, <3>5, Zenon DEF Hushed
  <2>12. Quieted(t, d, Z)
    <3>1. \A i \in 1 .. Len(s.outgoing) :
              s.outgoing[i].kind = "clear" => s.outgoing[i].line \in Nat
        BY ItemHas DEF GateWorker
    <3>2. QED
        BY <1>1, <2>9, <2>11, <3>1 DEF Quieted
  <2>13. \A v \in Cutters : t.at[v] = s.at[v]
      BY <2>6, <2>9 DEF Cutters, Tasks
  <2>14. t.at["loop"] = s.at["loop"]
      BY <2>6, <2>8, <2>9
  <2>15. Doomed(t, d)
    <3>1. \A v \in Cutters : t.at[v] = "cutting" =>
                 \/ s.at[v] = "cutting" /\ t.cutting[v] = s.cutting[v]
                 \/ Dead(t, d, t.cutting[v])
        BY <2>9, <2>13
    <3>2. \A j \in 1 .. Len(t.pipeline) : t.pipeline[j].kind = "cut" =>
                 \/ \E k \in 1 .. Len(s.pipeline) : s.pipeline[k] = t.pipeline[j]
                 \/ Dead(t, d, t.pipeline[j].line)
        BY <2>9
    <3>3. t \in GateWorker /\ Doomed(s, d)
        BY <1>1, <2>9
    <3>4. QED
        BY <2>10, <3>1, <3>2, <3>3, DoomStays
  <2>16. Bound(t) /\ Rests(t)
      BY <1>1, <2>5, <2>9, <2>14 DEF Bound, Rests
  <2>17. Ahead(t)
      BY <1>1, <2>5, <2>9, <2>14, SMTT(30) DEF Ahead
  <2>18. Wakes(t)
      BY <1>1, <2>5, <2>9, <2>13, <2>14 DEF Wakes
  <2>19. Queued(t, "nobody")
    <3>1. CASE t.at = s.at /\ t.sending = s.sending
        BY <1>1, <3>1, QueuedStays
    <3>2. CASE t.at = at2 /\ t.sending = Append(s.sending, "data")
      <4>1. Queued(s, "data")
          BY <1>1, <2>8, QueuedWhileFree
      <4>2. t.at = [s.at EXCEPT !["data"] = "first"]
          BY <3>2 DEF at2
      <4>3. QED
          BY <2>8, <2>9, <3>2, <4>1, <4>2, QueuedSends
    <3>3. QED
        BY <2>9, <3>1, <3>2
  <2>20. QED
      BY <1>1, <2>9, <2>12, <2>15, <2>16, <2>17, <2>18, <2>19 DEF GateSound, GateFits, t
<1>4. QED
    BY <1>2, <1>3

-------------------------------------------------------------------------------
(* The steps of the worker.                                                 *)

GateDone == peers.spoken - Len(worker.queue)

\* What is known before a step.
LEMMA GateKnown ==
    ASSUME GateKept
    PROVE  /\ worker \in GateWorker /\ peers \in GatePeers /\ GateDone \in Nat
           /\ peers.silenced \in SUBSET Nat
           /\ GateSound(worker, GateDone, peers.silenced)
           /\ GateFits(worker, GateDone, peers.silenced)
           /\ Queued(worker, "nobody") /\ Rests(worker)
           /\ Len(worker.queue) \in Nat /\ peers.spoken \in Nat
<1>1. worker \in GateWorker /\ peers \in GatePeers
    BY DEF GateKept, GateSound, GateFits
<1>2. GateDone \in Nat
    BY DEF GateKept, GateSound, GateFits, GateDone
<1>3. QED
    BY <1>1, <1>2, SMTT(30) DEF GateKept, GateSound, GateDone, GateWorker, GatePeers

\* A step that takes no line, and leaves the carrier alone.
LEMMA GateSteps ==
    ASSUME GateKept, GateSound(worker', GateDone, peers.silenced),
           worker'.queue = worker.queue, peers' \in GatePeers,
           peers'.spoken = peers.spoken, peers'.carrier = peers.carrier,
           peers'.silenced = peers.silenced
    PROVE  GateKept'
BY DEF GateKept, GateDone, InOrder

\* on_speak: one line more to come.
LEMMA SpeakKeeps ==
    ASSUME GateKept, Gate!Speak
    PROVE  GateKept'
<1> DEFINE l == peers.spoken + 1
           s == worker
           t == worker'
<1>1. /\ s \in GateWorker /\ peers \in GatePeers /\ GateDone \in Nat
      /\ peers.silenced \in SUBSET Nat /\ GateFits(s, GateDone, peers.silenced)
      /\ Queued(s, "nobody") /\ Rests(s) /\ peers.spoken \in Nat /\ s.queue \in Seq(Nat)
    BY GateKnown DEF GateWorker
<1>2. /\ t = [s EXCEPT !.queue = Append(s.queue, l)]
      /\ peers' = [peers EXCEPT !.spoken = l]
    BY DEF Gate!Speak
<1>3. /\ l \in Nat /\ Append(s.queue, l) \in Seq(Nat)
      /\ Len(Append(s.queue, l)) = Len(s.queue) + 1 /\ Len(s.queue) \in Nat
    BY <1>1
<1>4. /\ peers' \in GatePeers /\ peers'.spoken = l /\ peers'.carrier = peers.carrier
      /\ peers'.silenced = peers.silenced
    BY <1>1, <1>2, <1>3, Zenon DEF GatePeers
<1> HIDE DEF t
<1>5. /\ t \in GateWorker /\ t.queue = Append(s.queue, l) /\ Alike(s, t)
      /\ t.outgoing = s.outgoing
    BY <1>1, <1>2, <1>3, Zenon DEF GateWorker, Alike
<1>6. GateSound(t, GateDone, peers.silenced)
    BY <1>1, <1>5, AlikeIsSound DEF GateSound
<1>10. /\ Len(t.queue) = Len(s.queue) + 1 /\ t.queue[Len(t.queue)] = l
       /\ \A i \in 1 .. Len(s.queue) : t.queue[i] = s.queue[i]
  <2>1. t.queue = Append(s.queue, l) /\ s.queue \in Seq(Nat)
      BY <1>1, <1>5
  <2> HIDE DEF l, s
  <2>2. QED
      BY <2>1
<1>7. InOrder(t, l)
  <2>1. /\ Len(s.queue) <= peers.spoken
        /\ \A i \in 1 .. Len(s.queue) : s.queue[i] = peers.spoken - Len(s.queue) + i
      BY DEF GateKept, InOrder
  <2>2. ASSUME NEW i \in 1 .. Len(t.queue) PROVE t.queue[i] = l - Len(t.queue) + i
    <3>1. CASE i = Len(t.queue)
        BY <1>1, <1>3, <1>10, <3>1
    <3>2. CASE i # Len(t.queue)
      <4>1. i \in 1 .. Len(s.queue)
          BY <1>3, <1>10, <3>2
      <4>2. QED
          BY <1>1, <1>3, <1>10, <2>1, <4>1
    <3>3. QED
        BY <3>1, <3>2
  <2>3. Len(t.queue) <= l
      BY <1>1, <1>3, <1>10, <2>1
  <2>4. QED
      BY <2>2, <2>3 DEF InOrder
<1>8. l - Len(t.queue) = GateDone
    BY <1>1, <1>3, <1>10, SMTT(30) DEF GateDone
<1>9. QED
    BY <1>4, <1>6, <1>7, <1>8 DEF GateKept, t

\* on_stop_playback, and the frames of the pipeline but the interruption.
LEMMA StopKeeps ==
    ASSUME GateKept, Gate!StopPlayback
    PROVE  GateKept'
<1> DEFINE l == worker.active
<1>1. /\ worker' = Gate!InterruptPlayback(worker, "reader", l)
      /\ peers' = [peers EXCEPT !.cut = peers.cut \cup {l}]
      /\ l # 0 /\ worker.at["reader"] = "free"
    BY DEF Gate!StopPlayback, Gate!NoLine
<1>2. Queued(worker, "reader")
    BY <1>1, GateKnown, QueuedWhileFree DEF Tasks, Resting
<1>3. GateSound(worker', GateDone, peers.silenced) /\ worker'.queue = worker.queue
    BY <1>1, <1>2, GateKnown, Interrupts DEF Cutters
<1>4. l \in Nat
    BY GateKnown DEF GateWorker
<1>5. /\ peers' \in GatePeers /\ peers'.spoken = peers.spoken
      /\ peers'.carrier = peers.carrier /\ peers'.silenced = peers.silenced
    BY <1>1, <1>4, GateKnown, Zenon DEF GatePeers
<1>6. QED
    BY <1>3, <1>5, GateSteps

\* The process begins with nothing.
LEMMA NewWorkerIs ==
    /\ Gate!NewWorker \in GateWorker /\ Gate!NewWorker.active = 0
    /\ Gate!NewWorker.queue = <<>> /\ Gate!NewWorker.sending = <<>>
    /\ Gate!NewWorker.pipeline = <<>> /\ Gate!NewWorker.outgoing = <<>>
    /\ Gate!NewWorker.playback.bound = Gate!Nothing
    /\ Gate!NewWorker.interruptedIds = {}
    /\ \A v \in Tasks : Gate!NewWorker.at[v] = IF v = "loop" THEN "idle" ELSE "free"
<1> DEFINE at1 == [v \in Tasks |-> IF v = "loop" THEN "idle" ELSE "free"]
           cutting1 == [v \in Cutters |-> 0]
           mark1 == [state |-> "none", context |-> Gate!Nothing]
           synthesis1 == [context |-> Gate!Nothing, emitted |-> FALSE]
<1>1. Gate!NewWorker =
        [closed |-> FALSE, active |-> 0, queue |-> <<>>, interruptedIds |-> {},
         playback |-> Gate!NewPlayback, at |-> at1, cutting |-> cutting1, sending |-> <<>>,
         mark |-> mark1, pipeline |-> <<>>, synthesis |-> synthesis1, late |-> Gate!Nothing,
         held |-> <<>>, sink |-> <<>>, outgoing |-> <<>>, stopped |-> {}]
    BY DEF Gate!NewWorker, Gate!Task, Gate!NoLine, Tasks, Cutters
<1>2. at1 \in [Tasks -> Places] /\ cutting1 \in [Cutters -> Nat]
      /\ \A v \in Tasks : at1[v] = IF v = "loop" THEN "idle" ELSE "free"
    BY DEF Places
<1>3. Gate!Nothing \in GateContext
    BY DEF Gate!Nothing, Gate!NoLine, GateContext
<1>4. /\ mark1 \in [state : {"none", "waiting", "confirmed", "dropped"}, context : GateContext]
      /\ synthesis1 \in [context : GateContext, emitted : BOOLEAN]
    BY <1>3
<1>5. Gate!NewPlayback \in GatePlayback /\ Gate!NewPlayback.bound = Gate!Nothing
    BY <1>3 DEF Gate!NewPlayback, GatePlayback
<1> HIDE DEF at1, cutting1, mark1, synthesis1
<1>6. QED
    BY <1>1, <1>2, <1>3, <1>4, <1>5 DEF GateWorker

\* Nothing is wrong with what has just begun.
LEMMA NewIsSound ==
    ASSUME NEW t \in GateWorker, t.active = 0, t.queue = <<>>, t.sending = <<>>,
           t.pipeline = <<>>, t.outgoing = <<>>, t.playback.bound = Gate!Nothing,
           t.interruptedIds = {},
           \A v \in Tasks : t.at[v] = IF v = "loop" THEN "idle" ELSE "free",
           NEW n \in Nat
    PROVE  InOrder(t, n) /\ GateSound(t, n - Len(t.queue), {})
<1>1. Len(t.queue) = 0 /\ Len(t.pipeline) = 0 /\ Len(t.outgoing) = 0 /\ Len(t.sending) = 0
    OBVIOUS
<1>2. InOrder(t, n) /\ n - Len(t.queue) \in Nat /\ t.active <= n - Len(t.queue)
    BY <1>1 DEF InOrder
<1>3. \A u \in Cutters : t.at[u] = "free"
    BY DEF Cutters, Tasks
<1>4. t.at["loop"] = "idle"
    BY DEF Tasks
<1>5. Quieted(t, n - Len(t.queue), {}) /\ Doomed(t, n - Len(t.queue))
    BY <1>1, <1>3 DEF Quieted, Doomed
<1>6. Bound(t) /\ Ahead(t) /\ Wakes(t) /\ Rests(t)
    BY <1>1, <1>4 DEF Bound, Ahead, Wakes, Rests
<1>7. Queued(t, "nobody")
    BY <1>1 DEF Queued, Tasks, Resting
<1>8. QED
    BY <1>2, <1>5, <1>6, <1>7 DEF GateSound, GateFits

\* close: everything the process held is gone, and the carrier's line with it.
LEMMA CloseKeeps ==
    ASSUME GateKept, Gate!Close
    PROVE  GateKept'
<1> DEFINE l == worker.active
           lost == l # Gate!NoLine /\ ~worker.playback.settled
           stopped2 == worker.stopped \cup (IF lost THEN {l} ELSE {})
           t == [Gate!NewWorker EXCEPT !.closed = TRUE, !.stopped = stopped2]
<1>1. /\ worker' = t
      /\ peers' = [peers EXCEPT !.carrier = <<>>, !.echoes = {}, !.silenced = {}]
    BY DEF Gate!Close
<1>2. stopped2 \in SUBSET Nat
    BY GateKnown DEF GateWorker
<1> HIDE DEF stopped2
<1>3. /\ Gate!NewWorker \in GateWorker /\ Gate!NewWorker.active = 0
      /\ Gate!NewWorker.queue = <<>> /\ Gate!NewWorker.sending = <<>>
      /\ Gate!NewWorker.pipeline = <<>> /\ Gate!NewWorker.outgoing = <<>>
      /\ Gate!NewWorker.playback.bound = Gate!Nothing
      /\ Gate!NewWorker.interruptedIds = {}
      /\ \A v \in Tasks : Gate!NewWorker.at[v] = IF v = "loop" THEN "idle" ELSE "free"
    BY NewWorkerIs
<1>4. /\ t \in GateWorker /\ t.active = 0 /\ t.queue = <<>> /\ t.sending = <<>>
      /\ t.pipeline = <<>> /\ t.outgoing = <<>> /\ t.playback.bound = Gate!Nothing
      /\ t.interruptedIds = {}
      /\ \A v \in Tasks : t.at[v] = IF v = "loop" THEN "idle" ELSE "free"
    BY <1>2, <1>3, Zenon DEF GateWorker
<1> HIDE DEF t
<1>5. /\ peers' \in GatePeers /\ peers'.spoken = peers.spoken /\ peers.spoken \in Nat
      /\ peers'.carrier = <<>> /\ peers'.silenced = {}
  <2>1. /\ peers' = [peers EXCEPT !.carrier = <<>>, !.echoes = {}, !.silenced = {}]
        /\ peers \in GatePeers /\ <<>> \in Seq(GateSent)
      BY <1>1, GateKnown
  <2>2. QED
      BY <2>1, Zenon DEF GatePeers
<1>6. InOrder(t, peers.spoken) /\ GateSound(t, peers.spoken - Len(t.queue), {})
    BY <1>4, <1>5, NewIsSound
<1>7. QED
    BY <1>1, <1>5, <1>6 DEF GateKept

\* What nothing of a line adds to stays safe.
LEMMA StaysSafe ==
    ASSUME NEW s \in GateWorker, NEW t \in GateWorker, NEW d \in Nat, NEW e \in Nat,
           Aged(s, d, t, e), NEW Z \in SUBSET Nat, Quieted(s, d, Z), Doomed(s, d),
           t.sink = s.sink, t.held = s.held, t.outgoing = s.outgoing,
           \A j \in 1 .. Len(t.pipeline) :
              \E k \in 1 .. Len(s.pipeline) : s.pipeline[k] = t.pipeline[j],
           \A v \in Cutters : t.at[v] = "cutting" =>
              s.at[v] = "cutting" /\ t.cutting[v] = s.cutting[v]
    PROVE  Quieted(t, e, Z) /\ Doomed(t, e)
<1>1. Quieted(t, e, Z)
    BY QuietStays
<1>2. Doomed(t, e)
    BY DoomStays
<1>3. QED
    BY <1>1, <1>2

\* VADUserStartedSpeakingFrame: the report is on its way.
LEMMA CallerKeeps ==
    ASSUME GateKept, Gate!CallerSpeaks
    PROVE  GateKept'
<1> DEFINE s == worker
           t == worker'
           d == GateDone
           Z == peers.silenced
           at2 == [s.at EXCEPT !["system"] = "started"]
<1>1. /\ s \in GateWorker /\ d \in Nat /\ Z \in SUBSET Nat /\ GateFits(s, d, Z)
      /\ Queued(s, "nobody") /\ Rests(s)
    BY GateKnown
<1>2. /\ s.at["system"] = "free" /\ peers' = peers
      /\ t = [s EXCEPT !.sending = Append(s.sending, "system"), !.at = at2]
    BY DEF Gate!CallerSpeaks, Gate!Step, Gate!Send
<1>3. /\ at2 \in [Tasks -> Places] /\ at2["system"] = "started"
      /\ \A v \in Tasks \ {"system"} : at2[v] = s.at[v]
    BY <1>1 DEF GateWorker, Tasks, Places
<1>4. /\ "system" \in Tasks /\ "loop" \in Tasks /\ "free" \in Resting["system"]
      /\ "started" \in Owing["system"] /\ Append(s.sending, "system") \in Seq(Tasks)
    BY <1>1 DEF Tasks, Resting, Owing, GateWorker
<1> HIDE DEF at2, t
<1>5. /\ t \in GateWorker /\ t.active = s.active /\ t.playback = s.playback /\ t.at = at2
      /\ t.interruptedIds = s.interruptedIds /\ t.cutting = s.cutting
      /\ t.sending = Append(s.sending, "system") /\ t.pipeline = s.pipeline
      /\ t.queue = s.queue
      /\ t.held = s.held /\ t.sink = s.sink /\ t.outgoing = s.outgoing
    BY <1>1, <1>2, <1>3, <1>4, Zenon DEF GateWorker
<1>6. Aged(s, d, t, d)
    BY <1>1, <1>5 DEF Aged
<1>7. \A v \in Cutters : t.at[v] = "cutting" => s.at[v] = "cutting"
    BY <1>3, <1>5 DEF Cutters, Tasks
<1>8. Quieted(t, d, Z) /\ Doomed(t, d)
    BY <1>1, <1>5, <1>6, <1>7, StaysSafe DEF GateFits
<1>9. t.at["loop"] = s.at["loop"]
    BY <1>3, <1>4, <1>5
<1>10. Bound(t) /\ Ahead(t) /\ Rests(t)
    BY <1>1, <1>5, <1>9 DEF GateFits, Bound, Ahead, Rests
<1>11. Wakes(t)
  <2>1. \A v \in Cutters : s.at[v] = "cutting" => t.at[v] = "cutting"
      BY <1>2, <1>3, <1>5 DEF Cutters, Tasks
  <2>2. QED
      BY <1>1, <1>5, <1>9, <2>1 DEF GateFits, Wakes
<1>12. Queued(t, "nobody")
  <2>1. Queued(s, "system")
      BY <1>1, <1>2, <1>4, QueuedWhileFree
  <2>2. t.at = [s.at EXCEPT !["system"] = "started"]
      BY <1>5 DEF at2
  <2>3. QED
      BY <1>1, <1>4, <1>5, <2>1, <2>2, QueuedSends, Zenon
<1>13. GateSound(t, d, Z)
    BY <1>1, <1>5, <1>8, <1>10, <1>11, <1>12 DEF GateSound, GateFits
<1>14. QED
    BY <1>2, <1>5, <1>13, GateKnown, GateSteps DEF t

\* TTSStartedFrame: with no cut on its way, what is to be spoken is the awaited chunk.
LEMMA StartKeeps ==
    ASSUME GateKept, Gate!TtsStarts
    PROVE  GateKept'
<1> DEFINE s == worker
           t == worker'
           d == GateDone
           Z == peers.silenced
           q == s.pipeline
           c == Head(q).context
           b == [s.playback EXCEPT !.bound = c, !.awaiting = FALSE]
           synthesis2 == [context |-> c, emitted |-> FALSE]
           binds == s.active # 0 /\ s.playback.awaiting
           p2 == IF binds THEN b ELSE s.playback
<1>1. /\ s \in GateWorker /\ d \in Nat /\ Z \in SUBSET Nat /\ GateFits(s, d, Z)
      /\ Queued(s, "nobody") /\ Rests(s)
      /\ Quieted(s, d, Z) /\ Doomed(s, d) /\ Bound(s) /\ Ahead(s) /\ Wakes(s)
      /\ s.active \in Nat /\ s.active <= d
    BY GateKnown, Zenon DEF GateFits, GateWorker
<1>2. /\ q # <<>> /\ \A i \in 1 .. Len(q) : q[i].kind = "speak"
      /\ peers' = peers
    BY DEF Gate!TtsStarts, Gate!Step
<1>3. t = [s EXCEPT !.pipeline = Tail(q), !.synthesis = synthesis2, !.playback = p2]
    BY <1>1, Zenon DEF Gate!TtsStarts, Gate!Step, Gate!NoLine, GateWorker
<1>4. /\ q \in Seq([kind : {"speak"}, context : GateContext] \cup [kind : {"cut"}, line : Nat])
      /\ Len(q) \in Nat
    BY <1>1 DEF GateWorker
<1>5. Len(q) = 1
  <2>1. Len(q) >= 1
      BY <1>2, <1>4
  <2>2. 1 \in 1 .. Len(q) /\ q[1].kind = "speak"
      BY <1>2, <1>4, <2>1
  <2>3. \A j \in 1 + 1 .. Len(q) : q[j].kind # "cut"
      BY <1>2, <1>4
  <2>4. QED
      BY <1>1, <2>2, <2>3, Zenon DEF Ahead
<1>6. /\ q[1].context[1] = s.active /\ s.playback.awaiting /\ ~s.playback.woken
  <2>1. 1 \in 1 .. Len(q) /\ q[1].kind = "speak"
      BY <1>2, <1>5
  <2>2. \A j \in 1 + 1 .. Len(q) : q[j].kind # "cut"
      BY <1>5
  <2>3. QED
      BY <1>1, <2>1, <2>2 DEF Ahead
<1>7. c \in GateContext /\ c[1] = s.active
  <2>1. Head(q) = q[1] /\ 1 \in 1 .. Len(q) /\ q[1].kind = "speak"
      BY <1>2, <1>4, <1>5
  <2>2. QED
      BY <1>1, <1>6, <2>1, PipelineHas
<1>8. Tail(q) \in Seq([kind : {"speak"}, context : GateContext] \cup [kind : {"cut"}, line : Nat])
      /\ Len(Tail(q)) = 0
    BY <1>2, <1>4, <1>5
<1> HIDE DEF c
<1>9. /\ b \in GatePlayback /\ b.woken = s.playback.woken /\ b.settled = s.playback.settled
      /\ b.bound = c /\ ~b.awaiting /\ s.playback \in GatePlayback
    BY <1>1, <1>7, Zenon DEF GateWorker, GatePlayback
<1>10. /\ p2 \in GatePlayback /\ p2.settled = s.playback.settled /\ p2.woken = s.playback.woken
       /\ p2 = s.playback \/ (p2.bound = c /\ ~p2.awaiting)
    BY <1>9
<1>11. synthesis2 \in [context : GateContext, emitted : BOOLEAN]
    BY <1>7
<1> HIDE DEF q, t, p2, synthesis2, b
<1>12. /\ t \in GateWorker /\ t.active = s.active /\ t.playback = p2 /\ t.at = s.at
      /\ t.interruptedIds = s.interruptedIds /\ t.cutting = s.cutting
      /\ t.sending = s.sending /\ t.pipeline = Tail(q) /\ t.queue = s.queue
      /\ t.held = s.held /\ t.sink = s.sink /\ t.outgoing = s.outgoing
    BY <1>1, <1>3, <1>8, <1>10, <1>11, Zenon DEF GateWorker
<1>13. Aged(s, d, t, d)
    BY <1>1, <1>10, <1>12 DEF Aged
<1>14. Quieted(t, d, Z) /\ Doomed(t, d)
    BY <1>1, <1>8, <1>12, <1>13, StaysSafe
<1>15. Ahead(t)
    BY <1>8, <1>12 DEF Ahead
<1>16. Bound(t)
    BY <1>1, <1>7, <1>10, <1>12 DEF Bound
<1>17. Wakes(t)
    BY <1>1, <1>10, <1>12 DEF Wakes
<1>18. Rests(t)
  <2>1. s.active = 0 => p2 = s.playback
      BY DEF p2, binds
  <2>2. QED
      BY <1>1, <1>12, <2>1 DEF Rests
<1>19. Queued(t, "nobody")
    BY <1>1, <1>12, QueuedStays
<1>20. GateSound(t, d, Z)
    BY <1>1, <1>12, <1>14, <1>15, <1>16, <1>17, <1>19, <1>18 DEF GateSound, GateFits
<1>21. QED
    BY <1>2, <1>12, <1>20, GateKnown, GateSteps DEF t

\* TTSAudioRawFrame, also of a synthesis that is late.
LEMMA AudioKeeps ==
    ASSUME GateKept, Gate!TtsEmits \/ Gate!TtsIsLate
    PROVE  GateKept'
<1> DEFINE s == worker
           d == GateDone
           Z == peers.silenced
<1>1. /\ s \in GateWorker /\ d \in Nat /\ Z \in SUBSET Nat /\ GateFits(s, d, Z)
      /\ Queued(s, "nobody") /\ Rests(s)
    BY GateKnown
<1>2. PICK r, c : /\ r \in GateWorker /\ Alike(s, r) /\ r.outgoing = s.outgoing
                  /\ r.queue = s.queue
                  /\ c \in GateContext /\ c # Gate!Nothing
                  /\ worker' = Gate!AudioFrame(r, c) /\ r.at["data"] = "free" /\ peers' = peers
  <2>1. CASE Gate!TtsEmits
    <3> DEFINE c == s.synthesis.context
               synthesis2 == [s.synthesis EXCEPT !.emitted = TRUE]
               r == [s EXCEPT !.synthesis = synthesis2]
    <3>1. /\ c # Gate!Nothing /\ s.at["data"] = "free" /\ peers' = peers
          /\ worker' = Gate!AudioFrame(r, c)
        BY <2>1 DEF Gate!TtsEmits, Gate!Step
    <3>2. c \in GateContext /\ synthesis2 \in [context : GateContext, emitted : BOOLEAN]
        BY <1>1, Zenon DEF GateWorker
    <3> HIDE DEF synthesis2
    <3>3. /\ r \in GateWorker /\ Alike(s, r) /\ r.outgoing = s.outgoing /\ r.queue = s.queue
          /\ r.at = s.at
        BY <1>1, <3>2, Zenon DEF GateWorker, Alike
    <3> HIDE DEF r, c
    <3>4. QED
        BY <3>1, <3>2, <3>3
  <2>2. CASE Gate!TtsIsLate
    <3> DEFINE c == s.late
               r == [s EXCEPT !.late = Gate!Nothing]
    <3>1. /\ c # Gate!Nothing /\ s.at["data"] = "free" /\ peers' = peers
          /\ worker' = Gate!AudioFrame(r, c)
        BY <2>2 DEF Gate!TtsIsLate, Gate!Step
    <3>2. c \in GateContext /\ Gate!Nothing \in GateContext
        BY <1>1, Zenon DEF GateWorker, Gate!Nothing, Gate!NoLine, GateContext
    <3>3. /\ r \in GateWorker /\ Alike(s, r) /\ r.outgoing = s.outgoing /\ r.queue = s.queue
          /\ r.at = s.at
        BY <1>1, <3>2, Zenon DEF GateWorker, Alike
    <3> HIDE DEF r, c
    <3>4. QED
        BY <3>1, <3>2, <3>3
  <2>3. QED
      BY <2>1, <2>2
<1>3. GateSound(r, d, Z)
    BY <1>1, <1>2, AlikeIsSound DEF GateSound
<1>4. GateSound(worker', d, Z) /\ worker'.queue = r.queue
    BY <1>1, <1>2, <1>3, AudioIsSound
<1>5. QED
    BY <1>2, <1>4, GateKnown, GateSteps

\* TTSStoppedFrame: the context is no longer the chunk's.
LEMMA StoppedKeeps ==
    ASSUME GateKept, Gate!TtsStops
    PROVE  GateKept'
<1> DEFINE s == worker
           t == worker'
           d == GateDone
           Z == peers.silenced
           c == s.synthesis.context
           b == [s.playback EXCEPT !.woken = TRUE, !.bound = Gate!Nothing]
           synthesis2 == [context |-> Gate!Nothing, emitted |-> FALSE]
           ends == s.active # 0 /\ s.playback.bound = c
           p2 == IF ends THEN b ELSE s.playback
<1>1. /\ s \in GateWorker /\ d \in Nat /\ Z \in SUBSET Nat
      /\ Queued(s, "nobody") /\ Rests(s)
      /\ Quieted(s, d, Z) /\ Doomed(s, d) /\ Bound(s) /\ Ahead(s) /\ Wakes(s)
      /\ s.active \in Nat /\ s.active <= d /\ s.playback \in GatePlayback
    BY GateKnown, Zenon DEF GateFits, GateWorker
<1>2. c # Gate!Nothing /\ peers' = peers
    BY DEF Gate!TtsStops, Gate!Step
<1>3. t = [s EXCEPT !.synthesis = synthesis2, !.playback = p2]
    BY <1>1, Zenon DEF Gate!TtsStops, Gate!Step, Gate!NoLine, GateWorker
<1>4. Gate!Nothing \in GateContext
    BY DEF Gate!Nothing, Gate!NoLine, GateContext
<1>5. synthesis2 \in [context : GateContext, emitted : BOOLEAN]
    BY <1>4
<1>6. /\ b \in GatePlayback /\ b.woken /\ b.bound = Gate!Nothing
      /\ b.settled = s.playback.settled /\ b.awaiting = s.playback.awaiting
    BY <1>1, <1>4, Zenon DEF GatePlayback
<1> HIDE DEF b
<1>7. /\ p2 \in GatePlayback /\ p2.settled = s.playback.settled
      /\ p2 = s.playback \/ (p2.woken /\ p2.bound = Gate!Nothing /\ ends)
    BY <1>1, <1>6
<1>8. ends => Covered(s)
    BY <1>1, <1>2 DEF Bound, Ahead, Covered
<1> HIDE DEF t, p2, synthesis2, c
<1>9. /\ t \in GateWorker /\ t.active = s.active /\ t.playback = p2 /\ t.at = s.at
      /\ t.interruptedIds = s.interruptedIds /\ t.cutting = s.cutting
      /\ t.sending = s.sending /\ t.pipeline = s.pipeline /\ t.queue = s.queue
      /\ t.held = s.held /\ t.sink = s.sink /\ t.outgoing = s.outgoing
    BY <1>1, <1>3, <1>5, <1>7, Zenon DEF GateWorker
<1>10. Aged(s, d, t, d)
    BY <1>1, <1>7, <1>9 DEF Aged
<1>11. Quieted(t, d, Z) /\ Doomed(t, d)
    BY <1>1, <1>9, <1>10, StaysSafe
<1>12. Ahead(t)
  <2>1. CASE p2 = s.playback
      BY <1>1, <1>9, <2>1 DEF Ahead
  <2>2. CASE ends
      BY <1>8, <1>9, <2>2 DEF Ahead, Covered
  <2>3. QED
      BY <1>7, <2>1, <2>2
<1>13. Bound(t) /\ Wakes(t) /\ Rests(t)
    BY <1>1, <1>7, <1>9 DEF Bound, Wakes, Rests
<1>14. Queued(t, "nobody")
    BY <1>1, <1>9, QueuedStays
<1>15. GateSound(t, d, Z)
    BY <1>1, <1>9, <1>11, <1>12, <1>13, <1>14 DEF GateSound, GateFits
<1>16. QED
    BY <1>2, <1>9, <1>15, GateKnown, GateSteps DEF t

\* The wait for a mark ends.
LEMMA PlayoutKeeps ==
    ASSUME GateKept, Gate!PlayoutEnds
    PROVE  GateKept'
<1> DEFINE d == GateDone
           Z == peers.silenced
           mark2 == [state |-> "none", context |-> Gate!Nothing]
           s == [worker EXCEPT !.mark = mark2]
           l == worker.active
           t == worker'
<1>1. /\ worker \in GateWorker /\ d \in Nat /\ Z \in SUBSET Nat /\ GateFits(worker, d, Z)
      /\ Queued(worker, "nobody") /\ Rests(worker)
    BY GateKnown
<1>2. /\ worker.at["loop"] = "playout" /\ peers' = peers
      /\ \/ t = Gate!Send(Gate!Report(s, l), "loop", "givingUp")
         \/ t = Gate!Finish(s, l)
         \/ t = Gate!Send(s, "loop", "acking")
    BY DEF Gate!PlayoutEnds, Gate!Step
<1>3. mark2 \in [state : {"none", "waiting", "confirmed", "dropped"}, context : GateContext]
    BY DEF Gate!Nothing, Gate!NoLine, GateContext
<1> HIDE DEF mark2
<1>4. /\ s \in GateWorker /\ Alike(worker, s) /\ s.outgoing = worker.outgoing
      /\ s.queue = worker.queue /\ s.active = l /\ s.at = worker.at
    BY <1>1, <1>3, Zenon DEF GateWorker, Alike
<1> HIDE DEF s, t
<1>5. "loop" \in Tasks /\ "playout" \in Resting["loop"]
      /\ "acking" \in Owing["loop"] /\ "givingUp" \in Owing["loop"]
    BY DEF Tasks, Resting, Owing
<1>6. Queued(worker, "loop") /\ l # 0
    BY <1>1, <1>2, <1>5, QueuedWhileFree DEF Rests
<1>7. GateFits(s, d, Z) /\ Queued(s, "loop")
    BY <1>1, <1>4, <1>6, AlikeIsSound
<1>8. Covered(s)
    BY <1>2, <1>4, <1>7, LoopIsCovered DEF GateFits
<1>9. GateSound(t, d, Z) /\ t.queue = s.queue
  <2>1. CASE t = Gate!Finish(s, l)
      BY <1>1, <1>4, <1>6, <1>7, <1>8, <2>1, Finishes
  <2>2. CASE t = Gate!Send(Gate!Report(s, l), "loop", "givingUp")
      BY <1>1, <1>4, <1>5, <1>6, <1>7, <1>8, <2>2, LoopSends
  <2>3. CASE t = Gate!Send(s, "loop", "acking")
      BY <1>1, <1>4, <1>5, <1>6, <1>7, <1>8, <2>3, LoopSends
  <2>4. QED
      BY <1>2, <2>1, <2>2, <2>3
<1>10. QED
    BY <1>1, <1>2, <1>4, <1>9, GateKnown, GateSteps DEF t

\* The loop waits for the mark of its chunk.
LEMMA LoopPlays ==
    ASSUME NEW s \in GateWorker, NEW d \in Nat, NEW Z \in SUBSET Nat,
           GateFits(s, d, Z), Covered(s), Queued(s, "loop"), s.active # 0
    PROVE  GateSound([s EXCEPT !.at["loop"] = "playout"], d, Z)
<1> DEFINE at2 == [s.at EXCEPT !["loop"] = "playout"]
           t == [s EXCEPT !.at["loop"] = "playout"]
<1>1. /\ Quieted(s, d, Z) /\ Doomed(s, d) /\ Bound(s) /\ s.active \in Nat /\ s.active <= d
    BY DEF GateFits, GateWorker
<1>2. t = [s EXCEPT !.at = at2]
    BY DEF GateWorker
<1>3. /\ at2 \in [Tasks -> Places] /\ at2["loop"] = "playout"
      /\ \A v \in Tasks \ {"loop"} : at2[v] = s.at[v]
    BY DEF GateWorker, Tasks, Places
<1>4. "loop" \in Tasks /\ "playout" \in Resting["loop"]
    BY DEF Tasks, Resting
<1> HIDE DEF at2, t
<1>5. /\ t \in GateWorker /\ t.active = s.active /\ t.playback = s.playback /\ t.at = at2
      /\ t.interruptedIds = s.interruptedIds /\ t.cutting = s.cutting
      /\ t.sending = s.sending /\ t.pipeline = s.pipeline
      /\ t.held = s.held /\ t.sink = s.sink /\ t.outgoing = s.outgoing
    BY <1>2, <1>3, Zenon DEF GateWorker
<1>6. Aged(s, d, t, d)
    BY <1>5 DEF Aged
<1>7. \A v \in Cutters : t.at[v] = "cutting" =>
          s.at[v] = "cutting" /\ t.cutting[v] = s.cutting[v]
    BY <1>3, <1>5 DEF Cutters, Tasks
<1>8. Quieted(t, d, Z) /\ Doomed(t, d)
    BY <1>1, <1>5, <1>6, <1>7, StaysSafe
<1>9. Bound(t) /\ Ahead(t)
    BY <1>1, <1>5 DEF Bound, Ahead, Covered
<1>10. Wakes(t) /\ Rests(t)
    BY <1>3, <1>4, <1>5 DEF Wakes, Rests
<1>11. Queued(t, "nobody")
  <2>1. t.at = [s.at EXCEPT !["loop"] = "playout"]
      BY <1>5 DEF at2
  <2>2. QED
      BY <1>4, <1>5, <2>1, QueuedRests
<1>12. QED
    BY <1>1, <1>5, <1>8, <1>9, <1>10, <1>11 DEF GateSound, GateFits, t

\* The wait for a chunk's audio ends.
LEMMA SynthesisKeeps ==
    ASSUME GateKept, Gate!SynthesisEnds
    PROVE  GateKept'
<1> DEFINE s == worker
           d == GateDone
           Z == peers.silenced
           l == s.active
           c == <<l, s.playback.chunk>>
           x == Gate!Mark(c)
           mark2 == [state |-> "waiting", context |-> c]
           r == [s EXCEPT !.mark = mark2, !.outgoing = Append(s.outgoing, x)]
           t == worker'
<1>1. /\ s \in GateWorker /\ d \in Nat /\ Z \in SUBSET Nat /\ GateFits(s, d, Z)
      /\ Queued(s, "nobody") /\ Rests(s) /\ Ahead(s) /\ Wakes(s)
      /\ s.sending \in Seq(Tasks) /\ l \in Nat /\ s.playback.chunk \in Nat
    BY GateKnown, Zenon DEF GateFits, GateWorker, GatePlayback
<1>2. /\ s.at["loop"] = "synthesis" /\ peers' = peers
      /\ s.playback.woken \/ s.sending = <<>>
      /\ IF l \in s.interruptedIds THEN t = Gate!Finish(s, l)
         ELSE \/ t = Gate!Send(s, "loop", "erring")
              \/ t = [r EXCEPT !.at["loop"] = "playout"] /\ s.playback.woken
    BY <1>1, Zenon DEF Gate!SynthesisEnds, Gate!Step, GateWorker, GatePlayback
<1>3. /\ "loop" \in Tasks /\ "synthesis" \in Resting["loop"]
      /\ "erring" \in Owing["loop"]
    BY DEF Tasks, Resting, Owing
<1>4. Queued(s, "loop") /\ l # 0
    BY <1>1, <1>2, <1>3, QueuedWhileFree DEF Rests
<1>5. s.playback.woken => Covered(s)
    BY <1>1, LoopIsCovered
<1>6. GateSound(t, d, Z) /\ t.queue = s.queue
  <2>1. CASE l \in s.interruptedIds
    <3>1. s.playback.woken
      <4>1. SUFFICES ASSUME s.sending = <<>>, NEW u \in Cutters, s.at[u] = "cutting"
                     PROVE  FALSE
          BY <1>1, <1>2, <2>1 DEF Wakes
      <4>2. u \in Tasks \ {"nobody"} /\ "cutting" \notin Resting[u]
          BY DEF Cutters, Tasks, Resting
      <4>3. \E i \in 1 .. Len(s.sending) : s.sending[i] = u
          BY <1>1, <4>1, <4>2 DEF Queued
      <4>4. QED
          BY <4>1, <4>3
    <3>2. t = Gate!Finish(s, l)
        BY <1>2, <2>1
    <3>3. QED
        BY <1>1, <1>4, <1>5, <3>1, <3>2, Finishes
  <2>2. CASE t = Gate!Send(s, "loop", "erring")
      BY <1>1, <1>2, <1>3, <1>4, <2>2, LoopSends
  <2>3. CASE t = [r EXCEPT !.at["loop"] = "playout"] /\ s.playback.woken
    <3>1. x \in GateItem /\ x.kind = "mark" /\ c \in GateContext
        BY <1>1 DEF Gate!Mark, GateItem, GateContext
    <3>2. mark2 \in [state : {"none", "waiting", "confirmed", "dropped"}, context : GateContext]
        BY <3>1
    <3>3. Append(s.outgoing, x) \in Seq(GateItem)
        BY <1>1, <3>1 DEF GateWorker
    <3> HIDE DEF x, mark2, t
    <3>4. /\ r \in GateWorker /\ Alike(s, r) /\ r.outgoing = Append(s.outgoing, x)
          /\ r.queue = s.queue /\ r.active = l /\ r.pipeline = s.pipeline
        BY <1>1, <3>2, <3>3, Zenon DEF GateWorker, Alike
    <3> HIDE DEF r
    <3>5. GateFits(r, d, Z) /\ Queued(r, "loop")
        BY <1>1, <1>4, <3>1, <3>4, AlikeIsSound
    <3>6. Covered(r)
        BY <1>5, <2>3, <3>4 DEF Covered
    <3>7. t.queue = r.queue
        BY <2>3, <3>4 DEF GateWorker
    <3>8. QED
        BY <1>1, <1>4, <2>3, <3>4, <3>5, <3>6, <3>7, LoopPlays, Zenon
  <2>4. QED
      BY <1>2, <2>1, <2>2, <2>3
<1>7. QED
    BY <1>1, <1>2, <1>6, GateKnown, GateSteps

\* The loop takes the next line: no line before it is spoken again.
LEMMA TakesKeeps ==
    ASSUME GateKept, Gate!LoopTakes
    PROVE  GateKept'
<1> DEFINE s == worker
           d == GateDone
           Z == peers.silenced
           n == peers.spoken
           q == s.queue
           l == Head(q)
           r == [s EXCEPT !.queue = Tail(q), !.active = l]
           t == worker'
<1>1. /\ s \in GateWorker /\ d \in Nat /\ Z \in SUBSET Nat /\ n \in Nat
      /\ Queued(s, "nobody") /\ Rests(s)
      /\ Quieted(s, d, Z) /\ Doomed(s, d) /\ Bound(s) /\ Ahead(s)
      /\ s.active \in Nat /\ s.active <= d /\ q \in Seq(Nat) /\ d = n - Len(q)
    BY GateKnown, Zenon DEF GateFits, GateWorker, GateDone
<1>2. /\ s.at["loop"] = "idle" /\ q # <<>> /\ peers' = peers
      /\ t = Gate!Arm(r, l, 1)
    BY DEF Gate!LoopTakes, Gate!Step
<1>3. /\ Len(q) <= n
      /\ \A i \in 1 .. Len(q) : q[i] = n - Len(q) + i
    BY DEF GateKept, InOrder
<1>4. /\ Len(q) \in Nat \ {0} /\ l = q[1] /\ Tail(q) \in Seq(Nat)
      /\ Len(Tail(q)) = Len(q) - 1
      /\ \A i \in 1 .. Len(Tail(q)) : Tail(q)[i] = q[i + 1]
  <2> HIDE DEF q
  <2>1. QED
      BY <1>1, <1>2
<1>5. l = d + 1 /\ l \in Nat
    BY <1>1, <1>3, <1>4
<1> HIDE DEF l, q
<1>6. /\ r \in GateWorker /\ r.active = l /\ r.playback = s.playback /\ r.at = s.at
      /\ r.interruptedIds = s.interruptedIds /\ r.cutting = s.cutting
      /\ r.sending = s.sending /\ r.pipeline = s.pipeline /\ r.queue = Tail(q)
      /\ r.held = s.held /\ r.sink = s.sink /\ r.outgoing = s.outgoing
    BY <1>1, <1>4, <1>5, Zenon DEF GateWorker
<1> HIDE DEF r, t
<1>7. Aged(s, d, r, d + 1) /\ d + 1 \in Nat
    BY <1>1, <1>5, <1>6 DEF Aged
<1>8. Quieted(r, d + 1, Z) /\ Doomed(r, d + 1)
    BY <1>1, <1>6, <1>7, StaysSafe, Zenon
<1>9. Covered(r)
  <2>1. s.at["loop"] \notin {"synthesis", "erring", "failing"}
      BY <1>2
  <2>2. Covered(s)
      BY <1>1, <2>1, LoopIsCovered
  <2>3. QED
      BY <1>6, <2>2 DEF Covered
<1>10. Bound(r) /\ Ahead(r) /\ Wakes(r)
    BY <1>1, <1>2, <1>6, <1>9, Zenon DEF Bound, Ahead, Covered, Wakes, Rests
<1>11. Queued(r, "loop")
  <2>1. "loop" \in Tasks /\ "idle" \in Resting["loop"]
      BY DEF Tasks, Resting
  <2>2. QED
      BY <1>1, <1>2, <1>6, <2>1, QueuedWhileFree, QueuedStays, Zenon
<1>12. GateFits(r, d + 1, Z) /\ r.active # 0
    BY <1>1, <1>5, <1>6, <1>7, <1>8, <1>10 DEF GateFits
<1>13. GateSound(t, d + 1, Z) /\ t.queue = Tail(q)
    BY <1>1, <1>2, <1>6, <1>7, <1>9, <1>11, <1>12, Arms, ZenonT(60)
<1>14. /\ InOrder(t, n) /\ n - Len(t.queue) = d + 1
  <2>1. Len(Tail(q)) <= n /\ \A i \in 1 .. Len(Tail(q)) : Tail(q)[i] = n - Len(Tail(q)) + i
    <3> DEFINE m == Len(Tail(q))
               k == Len(q)
    <3>1. n \in Nat /\ k \in Nat \ {0} /\ m = k - 1 /\ k <= n
        BY <1>1, <1>3, <1>4
    <3> HIDE DEF m, k
    <3>2. ASSUME NEW i \in 1 .. m PROVE Tail(q)[i] = n - m + i
      <4>1. i + 1 \in 1 .. k /\ i \in Nat
          BY <3>1
      <4>2. Tail(q)[i] = q[i + 1] /\ q[i + 1] = n - k + (i + 1)
          BY <1>3, <1>4, <4>1 DEF m, k
      <4>3. n - m + i = n - k + (i + 1)
        <5> HIDE DEF n
        <5>1. QED
            BY <3>1, <4>1
      <4>4. QED
          BY <4>2, <4>3, Zenon
    <3>3. m <= n
        BY <3>1
    <3>4. QED
        BY <3>2, <3>3 DEF m
  <2>2. t.queue = Tail(q)
      BY <1>13
  <2>3. InOrder(t, n)
      BY <2>1, <2>2, Zenon DEF InOrder
  <2>4. n - Len(Tail(q)) = d + 1
      BY <1>1, <1>4
  <2>5. QED
      BY <2>2, <2>3, <2>4
<1>15. QED
    BY <1>1, <1>2, <1>13, <1>14 DEF GateKept, t

\* The sink hands on audio, and none of it is of a line that is to be dropped.
LEMMA SinkKeeps ==
    ASSUME GateKept, Gate!SinkHands
    PROVE  GateKept'
<1> DEFINE s == worker
           d == GateDone
           Z == peers.silenced
           q == s.sink
           o == s.outgoing
           x == Head(q)
           t == worker'
<1>1. /\ s \in GateWorker /\ d \in Nat /\ Z \in SUBSET Nat
      /\ Queued(s, "nobody") /\ Rests(s)
      /\ Quieted(s, d, Z) /\ Doomed(s, d) /\ Bound(s) /\ Ahead(s) /\ Wakes(s)
      /\ s.active \in Nat /\ s.active <= d /\ q \in Seq(GateAudio) /\ o \in Seq(GateItem)
    BY GateKnown, Zenon DEF GateFits, GateWorker
<1>2. /\ q # <<>> /\ peers' = peers
      /\ t = [s EXCEPT !.outgoing = Append(o, x), !.sink = Tail(q)]
    BY DEF Gate!SinkHands, Gate!Step
<1>3. q \in Seq(GateItem) /\ x \in GateItem /\ x.kind = "audio"
    BY <1>1, <1>2, AudioIsItem
<1>4. Append(o, x) \in Seq(GateItem) /\ Tail(q) \in Seq(GateAudio)
  <2> HIDE DEF o, q
  <2>1. QED
      BY <1>1, <1>2, <1>3 DEF q
<1> HIDE DEF t
<1>5. /\ t \in GateWorker /\ t.active = s.active /\ t.playback = s.playback /\ t.at = s.at
      /\ t.interruptedIds = s.interruptedIds /\ t.cutting = s.cutting
      /\ t.sending = s.sending /\ t.pipeline = s.pipeline /\ t.queue = s.queue
      /\ t.held = s.held /\ t.sink = Tail(q) /\ t.outgoing = Append(o, x)
    BY <1>1, <1>2, <1>4, Zenon DEF GateWorker
<1>6. Aged(s, d, t, d)
    BY <1>1, <1>5 DEF Aged
<1>7. ASSUME NEW l \in Nat, Hushed(s, l)
      PROVE  Hushed(t, l) /\ x.context[1] # l
  <2>1. Mute(q, l) /\ Mute(s.held, l)
      BY <1>7 DEF Hushed
  <2>2. Mute(Tail(q), l) /\ x.context[1] # l
      BY <1>2, <1>3, <2>1, MuteQueues
  <2>3. QED
      BY <1>5, <2>1, <2>2 DEF Hushed
<1>8. Quieted(t, d, Z)
  <2> DEFINE p == Append(o, x)
  <2>1. \A l \in Z : Mute(o, l) /\ Hushed(s, l) /\ Dead(s, d, l)
      BY <1>1 DEF Quieted
  <2>2. \A i \in 1 .. Len(o) : o[i].kind = "clear" =>
            /\ Dead(s, d, o[i].line) /\ Hushed(s, o[i].line)
            /\ \A j \in i + 1 .. Len(o) : o[j].kind = "audio" => o[j].context[1] # o[i].line
      BY <1>1 DEF Quieted
  <2>3. \A i \in 1 .. Len(o) : o[i].kind = "clear" => o[i].line \in Nat
      BY <1>1, ItemHas
  <2>4. t.outgoing = p
      BY <1>5
  <2>5. \A l \in Nat : Mute(o, l) /\ x.context[1] # l => Mute(p, l)
      BY <1>1, <1>3, MuteQueues
  <2> HIDE DEF o, x
  <2>6. /\ Len(p) = Len(o) + 1 /\ Len(o) \in Nat /\ p[Len(p)] = x
        /\ \A i \in 1 .. Len(o) : p[i] = o[i]
      BY <1>1
  <2> HIDE DEF p
  <2>7. \A l \in Z : Dead(t, d, l) /\ Hushed(t, l) /\ Mute(p, l)
    <3>1. SUFFICES ASSUME NEW l \in Z PROVE Dead(t, d, l) /\ Hushed(t, l) /\ Mute(p, l)
        OBVIOUS
    <3>2. Dead(t, d, l)
        BY <1>1, <1>5, <1>6, <2>1, DeadStays
    <3>3. Hushed(t, l) /\ x.context[1] # l
        BY <1>1, <1>7, <2>1
    <3>4. QED
        BY <1>1, <2>1, <2>5, <3>2, <3>3
  <2>8. ASSUME NEW i \in 1 .. Len(p), p[i].kind = "clear"
        PROVE  /\ Dead(t, d, p[i].line) /\ Hushed(t, p[i].line)
               /\ \A j \in i + 1 .. Len(p) : p[j].kind = "audio" => p[j].context[1] # p[i].line
    <3>1. i # Len(p)
        BY <1>3, <2>6, <2>8
    <3>2. i \in 1 .. Len(o) /\ p[i] = o[i]
        BY <2>6, <3>1
    <3>3. Dead(t, d, p[i].line) /\ p[i].line \in Nat
        BY <1>1, <1>5, <1>6, <2>2, <2>3, <2>8, <3>2, DeadStays
    <3>4. Hushed(t, p[i].line) /\ x.context[1] # p[i].line
        BY <1>7, <2>2, <2>8, <3>2, <3>3
    <3>5. \A j \in i + 1 .. Len(p) : j = Len(p) \/ (j \in i + 1 .. Len(o) /\ p[j] = o[j])
        BY <2>6
    <3>6. \A j \in i + 1 .. Len(o) : o[j].kind = "audio" => o[j].context[1] # p[i].line
        BY <2>2, <2>8, <3>2
    <3>7. QED
        BY <2>6, <3>3, <3>4, <3>5, <3>6
  <2>9. QED
      BY <2>4, <2>7, <2>8 DEF Quieted
<1>9. Doomed(t, d)
  <2>1. \A v \in Cutters : t.at[v] = "cutting" =>
                 \/ s.at[v] = "cutting" /\ t.cutting[v] = s.cutting[v]
                 \/ Dead(t, d, t.cutting[v])
      BY <1>5
  <2>2. \A j \in 1 .. Len(t.pipeline) : t.pipeline[j].kind = "cut" =>
                 \/ \E k \in 1 .. Len(s.pipeline) : s.pipeline[k] = t.pipeline[j]
                 \/ Dead(t, d, t.pipeline[j].line)
      BY <1>5
  <2>3. QED
      BY <1>1, <1>5, <1>6, <2>1, <2>2, DoomStays, Zenon
<1>10. Bound(t) /\ Ahead(t) /\ Wakes(t) /\ Rests(t)
    BY <1>1, <1>5 DEF Bound, Ahead, Wakes, Rests
<1>11. Queued(t, "nobody")
    BY <1>1, <1>5, QueuedStays
<1>12. GateSound(t, d, Z)
    BY <1>1, <1>5, <1>8, <1>9, <1>10, <1>11 DEF GateSound, GateFits
<1>13. QED
    BY <1>2, <1>5, <1>12, GateKnown, GateSteps DEF t

\* The pacer sends: after a clear nothing of the line is behind it.
LEMMA PacerKeeps ==
    ASSUME GateKept, Gate!PacerSends
    PROVE  GateKept'
<1> DEFINE s == worker
           d == GateDone
           Z == peers.silenced
           o == s.outgoing
           x == Head(o)
           Y == IF x.kind = "clear" THEN Z \cup {x.line} ELSE Z
           carrier2 == IF x.kind = "clear" THEN <<>> ELSE Append(peers.carrier, x)
           t == worker'
<1>1. /\ s \in GateWorker /\ d \in Nat /\ Z \in SUBSET Nat /\ peers \in GatePeers
      /\ Queued(s, "nobody") /\ Rests(s)
      /\ Quieted(s, d, Z) /\ Doomed(s, d) /\ Bound(s) /\ Ahead(s) /\ Wakes(s)
      /\ s.active \in Nat /\ s.active <= d /\ o \in Seq(GateItem)
      /\ peers.carrier \in Seq(GateSent) /\ peers.echoes \subseteq GateContext
    BY GateKnown, Zenon DEF GateFits, GateWorker, GatePeers
<1>2. o # <<>> /\ t = [s EXCEPT !.outgoing = Tail(o)]
    BY DEF Gate!PacerSends
<1>3. x \in GateItem /\ Tail(o) \in Seq(GateItem)
    BY <1>1, <1>2
<1>4. x.kind = "clear" => x.line \in Nat
    BY <1>3, ItemHas
<1>5. \E back \in SUBSET GateContext :
         peers' = [peers EXCEPT !.carrier = carrier2, !.echoes = peers.echoes \cup back,
                                !.silenced = Y]
  <2> DEFINE marked == {j \in 1 .. Len(peers.carrier) : peers.carrier[j].kind = "mark"}
             marks == {peers.carrier[i].context : i \in marked}
  <2>1. marks \in SUBSET GateContext
      BY <1>1, SentIsItem
  <2>2. CASE x.kind = "clear"
    <3>1. PICK back \in {{}, marks} :
              peers' = [peers EXCEPT !.carrier = <<>>, !.echoes = @ \cup back,
                                     !.silenced = @ \cup {x.line}]
        BY <2>2 DEF Gate!PacerSends
    <3>2. back \in SUBSET GateContext
        BY <2>1
    <3> HIDE DEF marks
    <3>3. peers' = [peers EXCEPT !.carrier = carrier2, !.echoes = peers.echoes \cup back,
                                 !.silenced = Y]
        BY <2>2, <3>1
    <3>4. QED
        BY Zenon, <3>2, <3>3
  <2>3. CASE x.kind # "clear"
    <3>1. peers' = [peers EXCEPT !.carrier = Append(peers.carrier, x)]
        BY <2>3 DEF Gate!PacerSends
    <3>2. peers' = [peers EXCEPT !.carrier = carrier2, !.echoes = peers.echoes \cup {},
                                 !.silenced = Y]
        BY <1>1, <2>3, <3>1, Zenon DEF GatePeers
    <3>3. QED
        BY Zenon, <3>2
  <2>4. QED
      BY Zenon, <2>2, <2>3
<1>6. Y \in SUBSET Nat /\ carrier2 \in Seq(GateSent) /\ peers.carrier \in Seq(GateItem)
  <2>1. x.kind # "clear" => x \in GateSent
      BY <1>3 DEF GateItem, GateSent
  <2>2. QED
      BY <1>1, <1>4, <2>1, SentIsItem
<1>7. ASSUME NEW l \in Y PROVE Mute(carrier2, l)
  <2>1. CASE x.kind = "clear"
      BY <2>1, MuteEmpty
  <2>2. CASE x.kind # "clear"
    <3>1. l \in Z /\ l \in Nat
        BY <1>1, <1>7, <2>2
    <3>2. Mute(peers.carrier, l) /\ Mute(o, l)
        BY <1>1, <3>1 DEF GateKept, Quieted
    <3>3. x.kind = "audio" => x.context[1] # l
        BY <1>1, <1>2, <3>1, <3>2, MuteQueues
    <3>4. Mute(Append(peers.carrier, x), l)
        BY <1>3, <1>6, <3>1, <3>2, <3>3, MuteQueues
    <3>5. QED
        BY <2>2, <3>4
  <2>3. QED
      BY <2>1, <2>2
<1> HIDE DEF t, carrier2
<1>8. /\ t \in GateWorker /\ t.active = s.active /\ t.playback = s.playback /\ t.at = s.at
      /\ t.interruptedIds = s.interruptedIds /\ t.cutting = s.cutting
      /\ t.sending = s.sending /\ t.pipeline = s.pipeline /\ t.queue = s.queue
      /\ t.held = s.held /\ t.sink = s.sink /\ t.outgoing = Tail(o)
    BY <1>1, <1>2, <1>3, Zenon DEF GateWorker
<1>9. \A l : Dead(s, d, l) = Dead(t, d, l) /\ Hushed(s, l) = Hushed(t, l)
    BY <1>8 DEF Dead, Hushed
<1>10. Quieted(t, d, Y)
  <2>1. \A l \in Z : Dead(s, d, l) /\ Hushed(s, l) /\ Mute(o, l)
      BY <1>1 DEF Quieted
  <2>2. \A i \in 1 .. Len(o) : o[i].kind = "clear" =>
            /\ Dead(s, d, o[i].line) /\ Hushed(s, o[i].line)
            /\ \A j \in i + 1 .. Len(o) : o[j].kind = "audio" => o[j].context[1] # o[i].line
      BY <1>1 DEF Quieted
  <2>3. \A l \in Z : Mute(Tail(o), l)
      BY <1>1, <1>2, <2>1, MuteQueues
  <2> DEFINE p == Tail(o)
  <2>4. /\ Len(o) \in Nat \ {0} /\ x = o[1] /\ Len(p) = Len(o) - 1
        /\ \A i \in 1 .. Len(p) : p[i] = o[i + 1]
    <3> HIDE DEF o
    <3>1. QED
        BY <1>1, <1>2
  <2>5. t.outgoing = p
      BY <1>8
  <2> HIDE DEF o, p, x
  <2>6. x.kind = "clear" => Dead(s, d, x.line) /\ Hushed(s, x.line) /\ Mute(p, x.line)
    <3>1. SUFFICES ASSUME x.kind = "clear"
                   PROVE  Dead(s, d, x.line) /\ Hushed(s, x.line) /\ Mute(p, x.line)
        OBVIOUS
    <3>2. 1 \in 1 .. Len(o) /\ o[1].kind = "clear"
        BY <2>4, <3>1
    <3>3. \A j \in 1 + 1 .. Len(o) : o[j].kind = "audio" => o[j].context[1] # x.line
        BY <2>2, <2>4, <3>2
    <3>4. \A i \in 1 .. Len(p) : i + 1 \in 1 + 1 .. Len(o)
        BY <2>4
    <3>5. QED
        BY <2>2, <2>4, <3>2, <3>3, <3>4, Zenon DEF Mute
  <2>7. ASSUME NEW i \in 1 .. Len(p), p[i].kind = "clear"
        PROVE  /\ Dead(t, d, p[i].line) /\ Hushed(t, p[i].line)
               /\ \A j \in i + 1 .. Len(p) : p[j].kind = "audio" => p[j].context[1] # p[i].line
    <3>1. i + 1 \in 1 .. Len(o) /\ p[i] = o[i + 1]
        BY <2>4
    <3>2. /\ Dead(s, d, p[i].line) /\ Hushed(s, p[i].line)
          /\ \A j \in (i + 1) + 1 .. Len(o) : o[j].kind = "audio" => o[j].context[1] # p[i].line
        BY <2>2, <2>7, <3>1
    <3>3. \A j \in i + 1 .. Len(p) : j + 1 \in (i + 1) + 1 .. Len(o) /\ p[j] = o[j + 1]
        BY <2>4
    <3>4. QED
        BY <1>9, <3>2, <3>3
  <2>8. \A l \in Y : Dead(t, d, l) /\ Hushed(t, l) /\ Mute(p, l)
      BY <1>9, <2>1, <2>3, <2>6 DEF p
  <2>9. QED
      BY <2>5, <2>7, <2>8 DEF Quieted
<1>11. Doomed(t, d)
    BY <1>1, <1>8, <1>9 DEF Doomed
<1>12. Bound(t) /\ Ahead(t) /\ Wakes(t) /\ Rests(t)
    BY <1>1, <1>8 DEF Bound, Ahead, Wakes, Rests
<1>13. Queued(t, "nobody")
    BY <1>1, <1>8, QueuedStays
<1>14. GateSound(t, d, Y)
    BY <1>1, <1>8, <1>10, <1>11, <1>12, <1>13 DEF GateSound, GateFits
<1>15. PICK back \in SUBSET GateContext :
         peers' = [peers EXCEPT !.carrier = carrier2, !.echoes = peers.echoes \cup back,
                                !.silenced = Y]
    BY Zenon, <1>5
<1> HIDE DEF Y
<1>16. /\ peers' \in GatePeers /\ peers'.spoken = peers.spoken
       /\ peers'.carrier = carrier2 /\ peers'.silenced = Y
  <2>1. peers.echoes \cup back \in SUBSET GateContext
      BY <1>1
  <2>2. QED
      BY <1>1, <1>6, <1>15, <2>1, Zenon DEF GatePeers
<1>17. QED
    BY <1>1, <1>7, <1>8, <1>14, <1>16 DEF GateKept, InOrder, GateDone, t

\* The carrier plays, and a mark comes back.
LEMMA CarrierKeeps ==
    ASSUME GateKept, Gate!CarrierPlays
    PROVE  GateKept'
<1> DEFINE q == peers.carrier
           x == Head(q)
<1>1. /\ peers \in GatePeers /\ peers.silenced \in SUBSET Nat /\ q \in Seq(GateSent)
      /\ q \in Seq(GateItem) /\ peers.echoes \subseteq GateContext /\ worker \in GateWorker
      /\ GateSound(worker, GateDone, peers.silenced)
    BY GateKnown, SentIsItem DEF GatePeers
<1>2. /\ q # <<>> /\ worker' = worker
      /\ peers' = IF x.kind = "audio"
                  THEN [peers EXCEPT !.carrier = Tail(q)]
                  ELSE [peers EXCEPT !.carrier = Tail(q), !.echoes = peers.echoes \cup {x.context}]
    BY DEF Gate!CarrierPlays
<1>3. x.context \in GateContext /\ Tail(q) \in Seq(GateSent)
    BY <1>1, <1>2, SentIsItem
<1>4. ASSUME NEW l \in peers.silenced PROVE Mute(Tail(q), l)
  <2>1. Mute(q, l) /\ l \in Nat
      BY <1>1 DEF GateKept
  <2>2. QED
      BY <1>1, <1>2, <2>1, MuteQueues
<1>5. \E echoes2 \in SUBSET GateContext :
          peers' = [peers EXCEPT !.carrier = Tail(q), !.echoes = echoes2]
  <2>1. peers.echoes \cup {x.context} \in SUBSET GateContext
      BY <1>1, <1>3
  <2>2. [peers EXCEPT !.carrier = Tail(q)]
            = [peers EXCEPT !.carrier = Tail(q), !.echoes = peers.echoes]
      BY <1>1, Zenon DEF GatePeers
  <2>3. QED
      BY Zenon, <1>1, <1>2, <2>1, <2>2
<1> HIDE DEF x
<1>6. /\ peers' \in GatePeers /\ peers'.spoken = peers.spoken
      /\ peers'.carrier = Tail(q) /\ peers'.silenced = peers.silenced
    BY <1>1, <1>3, <1>5, Zenon DEF GatePeers
<1>7. QED
    BY <1>1, <1>2, <1>4, <1>6 DEF GateKept, GateDone, InOrder

\* _read_media: a mark comes back.
LEMMA MarkKeeps ==
    ASSUME GateKept, NEW c \in Gate!Context, Gate!MarkReturns(c)
    PROVE  GateKept'
<1> DEFINE s == worker
           mark2 == [s.mark EXCEPT !.state = "confirmed"]
           r == [s EXCEPT !.mark = mark2]
           echoes2 == peers.echoes \ {c}
<1>1. /\ s \in GateWorker /\ GateDone \in Nat /\ peers.silenced \in SUBSET Nat
      /\ GateSound(s, GateDone, peers.silenced) /\ GateFits(s, GateDone, peers.silenced)
      /\ peers \in GatePeers /\ peers.echoes \in SUBSET GateContext
    BY GateKnown DEF GatePeers
<1>2. /\ peers' = [peers EXCEPT !.echoes = echoes2]
      /\ worker' = r \/ worker' = s
    BY DEF Gate!MarkReturns
<1>3. mark2 \in [state : {"none", "waiting", "confirmed", "dropped"}, context : GateContext]
    BY <1>1, Zenon DEF GateWorker
<1> HIDE DEF mark2
<1>4. /\ r \in GateWorker /\ Alike(s, r) /\ r.outgoing = s.outgoing /\ r.queue = s.queue
    BY <1>1, <1>3, Zenon DEF GateWorker, Alike
<1> HIDE DEF r
<1>5. GateSound(r, GateDone, peers.silenced)
    BY <1>1, <1>4, AlikeIsSound DEF GateSound
<1>6. echoes2 \in SUBSET GateContext
    BY <1>1
<1> HIDE DEF echoes2
<1>7. /\ peers' \in GatePeers /\ peers'.spoken = peers.spoken
      /\ peers'.carrier = peers.carrier /\ peers'.silenced = peers.silenced
    BY <1>1, <1>2, <1>6 DEF GatePeers
<1>8. QED
    BY <1>1, <1>2, <1>4, <1>5, <1>7, GateSteps

\* A set of numbers has a least one.
LEMMA LeastOf ==
    ASSUME NEW S \in SUBSET Nat, S # {}
    PROVE  \E x \in S : \A y \in S : x <= y
<1> DEFINE R == OpToRel(<, Nat)
<1>1. IsWellFoundedOn(R, Nat)
    BY Zenon, NatLessThanWellFounded
<1>2. \A p \in Nat \X Nat : p \in R <=> p[1] < p[2]
    BY DEF OpToRel
<1> HIDE DEF R
<1>3. PICK x \in S : \A y \in S : ~ (<<y, x>> \in R)
    BY <1>1, WFMin, Zenon
<1>4. ASSUME NEW y \in S PROVE x <= y
  <2>1. <<y, x>> \in Nat \X Nat /\ <<y, x>>[1] = y /\ <<y, x>>[2] = x /\ x \in Nat /\ y \in Nat
      OBVIOUS
  <2>2. ~ (y < x)
      BY <1>2, <1>3, <2>1
  <2>3. QED
      BY <2>1, <2>2
<1>5. QED
    BY <1>4

\* The data task's report is gone, and the others wait as they did.
LEMMA WithoutDataIs ==
    ASSUME NEW q \in Seq(Tasks), \A i, j \in 1 .. Len(q) : q[i] = q[j] => i = j
    PROVE  LET r == Gate!WithoutData(q) IN
           /\ r \in Seq(Tasks)
           /\ \A i, j \in 1 .. Len(r) : r[i] = r[j] => i = j
           /\ \A k \in 1 .. Len(r) : r[k] # "data"
           /\ \A v \in Tasks \ {"data"} :
                 (\E k \in 1 .. Len(q) : q[k] = v) <=> \E k \in 1 .. Len(r) : r[k] = v
<1> DEFINE r == Gate!WithoutData(q)
           n == Len(q)
           i == CHOOSE j \in DOMAIN q : q[j] = "data"
           q1 == SubSeq(q, 1, i - 1)
           q2 == SubSeq(q, i + 1, n)
<1>1. n \in Nat /\ DOMAIN q = 1 .. n /\ \A k \in 1 .. n : q[k] \in Tasks
    OBVIOUS
<1>2. "data" \in Gate!Range(q) <=> \E j \in DOMAIN q : q[j] = "data"
    BY Zenon DEF Gate!Range
<1>3. CASE "data" \notin Gate!Range(q)
  <2>1. r = q
      BY <1>3 DEF Gate!WithoutData
  <2>2. QED
      BY <1>1, <1>2, <1>3, <2>1
<1>4. CASE "data" \in Gate!Range(q)
  <2>1. r = q1 \o q2
      BY <1>4, Zenon DEF Gate!WithoutData
  <2>2. i \in DOMAIN q /\ q[i] = "data"
    <3>1. \E j \in DOMAIN q : q[j] = "data"
        BY <1>2, <1>4
    <3>2. QED
        BY <3>1
  <2> HIDE DEF i, r
  <2>3. i \in 1 .. n
      BY <1>1, <2>2
  <2>4. /\ q1 \in Seq(Tasks) /\ Len(q1) = i - 1
        /\ \A k \in 1 .. i - 1 : q1[k] = q[k]
    <3>1. \A k \in 1 .. i - 1 : q[k] \in Tasks
        BY <1>1, <2>3
    <3>2. 1 \in Int /\ i - 1 \in Int
        BY <1>1, <2>3
    <3>3. /\ q1 \in Seq(Tasks) /\ Len(q1) = IF 1 <= i - 1 THEN (i - 1) - 1 + 1 ELSE 0
          /\ \A k \in 1 .. (i - 1) - 1 + 1 : q1[k] = q[1 + k - 1]
        BY <3>1, <3>2, SubSeqProperties
    <3> HIDE DEF q1
    <3>4. QED
        BY <1>1, <2>3, <3>3
  <2>5. /\ q2 \in Seq(Tasks) /\ Len(q2) = n - i
        /\ \A k \in 1 .. n - i : q2[k] = q[i + k]
    <3>1. \A k \in i + 1 .. n : q[k] \in Tasks
        BY <1>1, <2>3
    <3>2. i + 1 \in Int /\ n \in Int
        BY <1>1, <2>3
    <3>3. /\ q2 \in Seq(Tasks) /\ Len(q2) = IF i + 1 <= n THEN n - (i + 1) + 1 ELSE 0
          /\ \A k \in 1 .. n - (i + 1) + 1 : q2[k] = q[(i + 1) + k - 1]
        BY <3>1, <3>2, SubSeqProperties
    <3> HIDE DEF q2, n
    <3>4. n - (i + 1) + 1 = n - i /\ \A k \in Nat : (i + 1) + k - 1 = i + k
        BY <1>1, <2>3
    <3>5. QED
        BY <1>1, <2>3, <3>3, <3>4
  <2> HIDE DEF q1, q2
  <2>6. /\ r \in Seq(Tasks) /\ Len(r) = Len(q1) + Len(q2)
        /\ \A k \in 1 .. Len(q1) + Len(q2) :
              r[k] = IF k <= Len(q1) THEN q1[k] ELSE q2[k - Len(q1)]
      BY ZenonT(60), <2>1, <2>4, <2>5, ConcatProperties
  <2> HIDE DEF n
  <2>7. /\ Len(r) = n - 1
        /\ \A k \in 1 .. n - 1 : r[k] = IF k < i THEN q[k] ELSE q[k + 1]
    <3>1. Len(r) = n - 1
        BY <1>1, <2>3, <2>4, <2>5, <2>6
    <3>2. ASSUME NEW k \in 1 .. n - 1, k < i PROVE r[k] = q[k]
        BY <1>1, <2>3, <2>4, <2>5, <2>6, <3>2
    <3>3. ASSUME NEW k \in 1 .. n - 1, ~ (k < i) PROVE r[k] = q[k + 1]
      <4>1. k - (i - 1) \in 1 .. n - i /\ i + (k - (i - 1)) = k + 1 /\ ~ (k <= i - 1)
          BY <1>1, <2>3, <3>3
      <4>2. k \in 1 .. Len(q1) + Len(q2)
          BY <1>1, <2>3, <2>4, <2>5
      <4>3. r[k] = q2[k - (i - 1)]
          BY <2>4, <2>6, <4>1, <4>2
      <4>4. QED
          BY <2>5, <4>1, <4>3
    <3>4. QED
        BY <3>1, <3>2, <3>3
  <2>8. \A k \in 1 .. Len(r) : r[k] # "data"
    <3>1. \A k \in 1 .. n : k # i => q[k] # "data"
        BY <1>1, <2>2, <2>3 DEF n
    <3>2. QED
        BY <1>1, <2>3, <2>7, <3>1
  <2>9. \A j, k \in 1 .. Len(r) : r[j] = r[k] => j = k
    <3>1. \A j, k \in 1 .. n : q[j] = q[k] => j = k
        BY DEF n
    <3>2. QED
        BY <1>1, <2>3, <2>7, <3>1
  <2>10. ASSUME NEW v \in Tasks \ {"data"}
         PROVE  (\E k \in 1 .. n : q[k] = v) <=> \E k \in 1 .. Len(r) : r[k] = v
    <3>1. ASSUME NEW k \in 1 .. n, q[k] = v PROVE \E j \in 1 .. Len(r) : r[j] = v
      <4>1. k # i
          BY <2>2, <3>1
      <4>2. CASE k < i
        <5>1. k \in 1 .. n - 1 /\ r[k] = q[k]
            BY <1>1, <2>3, <2>7, <4>2
        <5>2. QED
            BY <2>7, <3>1, <5>1
      <4>3. CASE k > i
        <5>1. k - 1 \in 1 .. n - 1 /\ ~ (k - 1 < i) /\ (k - 1) + 1 = k
            BY <1>1, <2>3, <4>3
        <5>2. r[k - 1] = q[k]
            BY <2>7, <5>1
        <5>3. QED
            BY <2>7, <3>1, <5>1, <5>2
      <4>4. QED
          BY <1>1, <2>3, <4>1, <4>2, <4>3
    <3>2. ASSUME NEW k \in 1 .. Len(r), r[k] = v PROVE \E j \in 1 .. n : q[j] = v
      <4>1. k \in 1 .. n /\ k + 1 \in 1 .. n /\ (r[k] = q[k] \/ r[k] = q[k + 1])
          BY <1>1, <2>3, <2>7
      <4>2. QED
          BY <3>2, <4>1
    <3>3. QED
        BY <3>1, <3>2
  <2>11. QED
      BY <2>6, <2>8, <2>9, <2>10 DEF n, r
<1>5. QED
    BY <1>3, <1>4

\* The interruption drops what is behind the gate, and what is left in the pipeline is what
\* followed the cut.
LEMMA InterruptionKeeps ==
    ASSUME GateKept, Gate!Interruption
    PROVE  GateKept'
<1> DEFINE s == worker
           d == GateDone
           Z == peers.silenced
           q == s.pipeline
           o == s.outgoing
           cuts == {k \in 1 .. Len(q) : q[k].kind = "cut"}
           i == CHOOSE j \in cuts : \A k \in cuts : j <= k
           x == [kind |-> "clear", line |-> q[i].line]
           at2 == [s.at EXCEPT !["data"] = "free"]
           late2 == IF ~s.synthesis.emitted THEN s.synthesis.context ELSE s.late
           synthesis2 == [context |-> Gate!Nothing, emitted |-> FALSE]
           sending2 == Gate!WithoutData(s.sending)
           p == SubSeq(q, i + 1, Len(q))
           t == worker'
           P == [kind : {"speak"}, context : GateContext] \cup [kind : {"cut"}, line : Nat]
<1>1. /\ s \in GateWorker /\ d \in Nat /\ Z \in SUBSET Nat
      /\ Queued(s, "nobody") /\ Rests(s)
      /\ Quieted(s, d, Z) /\ Doomed(s, d) /\ Bound(s) /\ Ahead(s) /\ Wakes(s)
      /\ s.active \in Nat /\ s.active <= d /\ q \in Seq(P) /\ o \in Seq(GateItem)
      /\ s.sending \in Seq(Tasks)
    BY GateKnown DEF GateFits, GateWorker
<1>2. cuts # {} /\ peers' = peers
      /\ t = [s EXCEPT !.pipeline = p, !.late = late2, !.synthesis = synthesis2,
                       !.held = <<>>, !.sink = <<>>, !.at = at2, !.sending = sending2,
                       !.outgoing = Append(o, x)]
    BY <1>1 DEF Gate!Interruption, Gate!Step, GateWorker
<1>3. i \in cuts
  <2>1. cuts \in SUBSET Nat
      OBVIOUS
  <2>2. \E j \in cuts : \A k \in cuts : j <= k
      BY <1>2, <2>1, LeastOf, Zenon
  <2> HIDE DEF cuts
  <2>3. QED
      BY <2>2
<1>4. i \in 1 .. Len(q) /\ q[i].kind = "cut" /\ Len(q) \in Nat
    BY <1>1, <1>3
<1> HIDE DEF i, cuts
<1>5. q[i].line \in Nat /\ Dead(s, d, q[i].line)
    BY <1>1, <1>4, PipelineHas DEF Doomed
<1>6. x \in GateItem /\ x.kind = "clear" /\ x.line = q[i].line
    BY <1>5 DEF GateItem
<1>7. /\ p \in Seq(P) /\ Len(p) = Len(q) - i
      /\ \A k \in 1 .. Len(p) : i + k \in 1 .. Len(q) /\ p[k] = q[i + k]
  <2> DEFINE n == Len(q)
  <2>1. \A k \in i + 1 .. n : q[k] \in P
    <3>1. \A k \in 1 .. n : q[k] \in P
        BY <1>1
    <3> HIDE DEF P, q
    <3>2. QED
        BY <1>4, <3>1
  <2>2. i + 1 \in Int /\ n \in Int /\ i \in Nat
      BY <1>4
  <2>3. /\ p \in Seq(P) /\ Len(p) = IF i + 1 <= n THEN n - (i + 1) + 1 ELSE 0
        /\ \A k \in 1 .. n - (i + 1) + 1 : p[k] = q[(i + 1) + k - 1]
    <3> HIDE DEF P
    <3>1. QED
        BY <2>1, <2>2, SubSeqProperties
  <2> HIDE DEF p, P, q
  <2>4. n - (i + 1) + 1 = n - i /\ \A k \in Nat : (i + 1) + k - 1 = i + k
    <3> HIDE DEF n
    <3>1. QED
        BY <2>2
  <2>5. i \in 1 .. n /\ n \in Nat
      BY <1>4
  <2> HIDE DEF n
  <2>6. Len(p) = n - i
      BY <2>3, <2>4, <2>5
  <2>7. \A k \in 1 .. n - i : i + k \in 1 .. n /\ p[k] = q[i + k]
    <3>1. SUFFICES ASSUME NEW k \in 1 .. n - i PROVE i + k \in 1 .. n /\ p[k] = q[i + k]
        OBVIOUS
    <3>2. k \in Nat /\ i + k \in 1 .. n
        BY <2>5
    <3>3. p[k] = q[(i + 1) + k - 1] /\ (i + 1) + k - 1 = i + k
        BY <2>3, <2>4, <3>2
    <3>4. QED
        BY <3>2, <3>3
  <2>8. QED
      BY <2>3, <2>6, <2>7 DEF n
<1>8. Append(o, x) \in Seq(GateItem) /\ <<>> \in Seq(GateAudio)
    BY <1>1, <1>6
<1>9. late2 \in GateContext /\ synthesis2 \in [context : GateContext, emitted : BOOLEAN]
    BY <1>1, Zenon DEF GateWorker, Gate!Nothing, Gate!NoLine, GateContext
<1>10. /\ at2 \in [Tasks -> Places] /\ at2["data"] = "free"
       /\ \A v \in Tasks \ {"data"} : at2[v] = s.at[v]
    BY <1>1 DEF GateWorker, Tasks, Places
<1>11. \A j, k \in 1 .. Len(s.sending) : s.sending[j] = s.sending[k] => j = k
    BY <1>1, Zenon DEF Queued
<1>12. /\ sending2 \in Seq(Tasks)
       /\ \A j, k \in 1 .. Len(sending2) : sending2[j] = sending2[k] => j = k
       /\ \A k \in 1 .. Len(sending2) : sending2[k] # "data"
       /\ \A v \in Tasks \ {"data"} :
             (\E k \in 1 .. Len(s.sending) : s.sending[k] = v)
                 <=> \E k \in 1 .. Len(sending2) : sending2[k] = v
    BY <1>1, <1>11, WithoutDataIs, Zenon
<1> HIDE DEF p, x, at2, late2, synthesis2, sending2, t
<1>13. /\ t \in GateWorker /\ t.active = s.active /\ t.playback = s.playback /\ t.at = at2
       /\ t.interruptedIds = s.interruptedIds /\ t.cutting = s.cutting
       /\ t.sending = sending2 /\ t.pipeline = p /\ t.queue = s.queue
       /\ t.held = <<>> /\ t.sink = <<>> /\ t.outgoing = Append(o, x)
    BY <1>1, <1>2, <1>7, <1>8, <1>9, <1>10, <1>12, Zenon DEF GateWorker
<1>14. Aged(s, d, t, d)
    BY <1>1, <1>13 DEF Aged
<1>15. \A l \in Nat : Hushed(t, l) /\ (Dead(s, d, l) => Dead(t, d, l))
  <2>1. \A l \in Nat : Hushed(t, l)
      BY <1>13, MuteEmpty DEF Hushed
  <2>2. \A l \in Nat : Dead(s, d, l) => Dead(t, d, l)
      BY <1>1, <1>13, <1>14, DeadStays
  <2>3. QED
      BY <2>1, <2>2
<1>16. Quieted(t, d, Z)
  <2> DEFINE r == Append(o, x)
  <2>1. \A l \in Z : Mute(o, l) /\ Dead(s, d, l)
      BY <1>1 DEF Quieted
  <2>2. \A k \in 1 .. Len(o) : o[k].kind = "clear" =>
            /\ Dead(s, d, o[k].line) /\ o[k].line \in Nat
            /\ \A j \in k + 1 .. Len(o) : o[j].kind = "audio" => o[j].context[1] # o[k].line
      BY <1>1, ItemHas DEF Quieted
  <2>3. \A l \in Nat : Mute(o, l) => Mute(r, l)
      BY <1>1, <1>6, MuteQueues
  <2>4. t.outgoing = r
      BY <1>13
  <2> HIDE DEF o
  <2>5. /\ Len(r) = Len(o) + 1 /\ Len(o) \in Nat /\ r[Len(r)] = x
        /\ \A k \in 1 .. Len(o) : r[k] = o[k]
      BY <1>1
  <2> HIDE DEF r
  <2>6. \A l \in Z : Dead(t, d, l) /\ Hushed(t, l) /\ Mute(r, l)
      BY <1>1, <1>15, <2>1, <2>3
  <2>7. ASSUME NEW k \in 1 .. Len(r), r[k].kind = "clear"
        PROVE  /\ Dead(t, d, r[k].line) /\ Hushed(t, r[k].line)
               /\ \A j \in k + 1 .. Len(r) : r[j].kind = "audio" => r[j].context[1] # r[k].line
    <3>1. CASE k = Len(r)
      <4>1. r[k].line = q[i].line
          BY <1>6, <2>5, <3>1
      <4>2. QED
          BY <1>5, <1>15, <2>5, <3>1, <4>1
    <3>2. CASE k # Len(r)
      <4>1. k \in 1 .. Len(o) /\ r[k] = o[k]
          BY <2>5, <3>2
      <4>2. \A j \in k + 1 .. Len(r) : j = Len(r) \/ (j \in k + 1 .. Len(o) /\ r[j] = o[j])
          BY <2>5
      <4>3. r[Len(r)].kind # "audio"
          BY <1>6, <2>5
      <4>4. QED
          BY <1>15, <2>2, <2>7, <4>1, <4>2, <4>3, Zenon
    <3>3. QED
        BY <3>1, <3>2
  <2>8. QED
      BY <2>4, <2>6, <2>7 DEF Quieted
<1>17. Doomed(t, d)
  <2>1. \A v \in Cutters : t.at[v] = "cutting" =>
                 \/ s.at[v] = "cutting" /\ t.cutting[v] = s.cutting[v]
                 \/ Dead(t, d, t.cutting[v])
      BY <1>10, <1>13 DEF Cutters, Tasks
  <2>2. \A j \in 1 .. Len(t.pipeline) : t.pipeline[j].kind = "cut" =>
                 \/ \E k \in 1 .. Len(s.pipeline) : s.pipeline[k] = t.pipeline[j]
                 \/ Dead(t, d, t.pipeline[j].line)
      BY <1>7, <1>13, Zenon
  <2>3. t \in GateWorker
      BY <1>13
  <2>4. QED
      BY <1>1, <1>14, <2>1, <2>2, <2>3, DoomStays
<1>18. t.at["loop"] = s.at["loop"] /\ \A v \in Cutters : t.at[v] = s.at[v]
    BY <1>10, <1>13 DEF Cutters, Tasks
<1>19. Ahead(t)
  <2>1. SUFFICES ASSUME NEW k \in 1 .. Len(p), p[k].kind = "speak"
                 PROVE  \/ \E j \in k + 1 .. Len(p) : p[j].kind = "cut"
                        \/ /\ k = Len(p) /\ p[k].context[1] = s.active
                           /\ s.playback.awaiting /\ ~s.playback.woken
                           /\ s.at["loop"] \in {"synthesis", "erring", "failing"}
      BY <1>13, <1>18 DEF Ahead
  <2>2. i + k \in 1 .. Len(q) /\ q[i + k] = p[k]
      BY <1>7
  <2>3. CASE \E j \in (i + k) + 1 .. Len(q) : q[j].kind = "cut"
    <3>1. PICK j \in (i + k) + 1 .. Len(q) : q[j].kind = "cut"
        BY <2>3
    <3>2. j - i \in k + 1 .. Len(p) /\ i + (j - i) = j /\ j - i \in 1 .. Len(p)
        BY <1>4, <1>7
    <3>3. p[j - i] = q[j]
        BY <1>7, <3>2, Zenon
    <3>4. QED
        BY <3>1, <3>2, <3>3
  <2>4. CASE ~ \E j \in (i + k) + 1 .. Len(q) : q[j].kind = "cut"
    <3>1. /\ i + k = Len(q) /\ q[i + k].context[1] = s.active
          /\ s.playback.awaiting /\ ~s.playback.woken
          /\ s.at["loop"] \in {"synthesis", "erring", "failing"}
        BY <1>1, <2>1, <2>2, <2>4, Zenon DEF Ahead
    <3>2. k = Len(p)
        BY <1>4, <1>7, <3>1
    <3>3. QED
        BY <2>2, <3>1, <3>2
  <2>5. QED
      BY <2>3, <2>4
<1>20. Bound(t) /\ Wakes(t) /\ Rests(t)
    BY <1>1, <1>13, <1>18 DEF Bound, Wakes, Rests
<1>21. Queued(t, "nobody")
  <2>1. \A k \in 1 .. Len(sending2) : sending2[k] # "nobody"
      BY <1>12 DEF Tasks
  <2>2. ASSUME NEW v \in Tasks
        PROVE  \/ t.at[v] \in Resting[v] /\ \A k \in 1 .. Len(sending2) : sending2[k] # v
               \/ t.at[v] \in Owing[v] /\ \E k \in 1 .. Len(sending2) : sending2[k] = v
    <3>1. CASE v = "data"
        BY <1>10, <1>12, <1>13, <3>1 DEF Resting
    <3>2. CASE v # "data"
      <4>1. \/ s.at[v] \in Resting[v] /\ \A k \in 1 .. Len(s.sending) : s.sending[k] # v
            \/ s.at[v] \in Owing[v] /\ \E k \in 1 .. Len(s.sending) : s.sending[k] = v
          BY <1>1 DEF Queued, Tasks
      <4>2. t.at[v] = s.at[v]
          BY <1>10, <1>13, <3>2
      <4>3. (\E k \in 1 .. Len(s.sending) : s.sending[k] = v)
                 <=> \E k \in 1 .. Len(sending2) : sending2[k] = v
          BY <1>12, <3>2
      <4>4. QED
          BY <4>1, <4>2, <4>3
    <3>3. QED
        BY <3>1, <3>2
  <2>3. QED
      BY <1>12, <1>13, <2>1, <2>2 DEF Queued
<1>22. GateSound(t, d, Z)
    BY <1>1, <1>13, <1>16, <1>17, <1>19, <1>20, <1>21 DEF GateSound, GateFits
<1>23. QED
    BY <1>2, <1>13, <1>22, GateKnown, GateSteps DEF t

\* _maybe_barge_in, once HALO was told that the caller speaks.
LEMMA BargesIn ==
    ASSUME NEW s \in GateWorker, NEW d \in Nat, NEW Z \in SUBSET Nat,
           GateFits(s, d, Z), Rests(s), Queued(s, "system"), s.at["system"] = "started"
    PROVE  LET t == Gate!MaybeBargeIn(s) IN GateSound(t, d, Z) /\ t.queue = s.queue
<1> DEFINE at2 == [s.at EXCEPT !["system"] = "free"]
           r == [s EXCEPT !.at = at2]
           t == Gate!MaybeBargeIn(s)
<1>1. /\ Quieted(s, d, Z) /\ Doomed(s, d) /\ Bound(s) /\ Ahead(s) /\ Wakes(s)
      /\ s.active \in Nat /\ s.active <= d
    BY DEF GateFits, GateWorker
<1>2. /\ at2 \in [Tasks -> Places] /\ at2["system"] = "free"
      /\ \A v \in Tasks \ {"system"} : at2[v] = s.at[v]
    BY DEF GateWorker, Tasks, Places
<1>3. \/ t = r
      \/ s.active # 0 /\ t = Gate!InterruptPlayback(r, "system", s.active)
    BY DEF Gate!MaybeBargeIn, Gate!NoLine
<1> HIDE DEF at2, t
<1>4. /\ r \in GateWorker /\ r.active = s.active /\ r.playback = s.playback /\ r.at = at2
      /\ r.interruptedIds = s.interruptedIds /\ r.cutting = s.cutting
      /\ r.sending = s.sending /\ r.pipeline = s.pipeline /\ r.queue = s.queue
      /\ r.held = s.held /\ r.sink = s.sink /\ r.outgoing = s.outgoing
    BY <1>2, Zenon DEF GateWorker
<1> HIDE DEF r
<1>5. Aged(s, d, r, d)
    BY <1>1, <1>4 DEF Aged
<1>6. \A v \in Cutters : r.at[v] = "cutting" =>
          s.at[v] = "cutting" /\ r.cutting[v] = s.cutting[v]
    BY <1>2, <1>4 DEF Cutters, Tasks
<1>7. Quieted(r, d, Z) /\ Doomed(r, d)
    BY <1>1, <1>4, <1>5, <1>6, StaysSafe
<1>8. r.at["loop"] = s.at["loop"]
    BY <1>2, <1>4 DEF Tasks
<1>9. Bound(r) /\ Ahead(r) /\ Rests(r)
    BY <1>1, <1>4, <1>8 DEF Bound, Ahead, Rests
<1>10. "system" \in Tasks /\ "system" \in Cutters /\ "free" \in Resting["system"]
    BY DEF Tasks, Cutters, Resting
<1>11. Queued(r, "nobody")
  <2>1. r.at = [s.at EXCEPT !["system"] = "free"]
      BY <1>4 DEF at2
  <2>2. QED
      BY <1>4, <1>10, <2>1, QueuedRests
<1>12. Wakes(r)
  <2>1. \A v \in Cutters : s.at[v] = "cutting" => r.at[v] = "cutting"
      BY <1>2, <1>4 DEF Cutters, Tasks
  <2>2. QED
      BY <1>1, <1>4, <1>8, <2>1 DEF Wakes
<1>13. GateFits(r, d, Z) /\ r.at["system"] = "free"
    BY <1>1, <1>2, <1>4, <1>7, <1>9, <1>12 DEF GateFits
<1>14. Queued(r, "system")
    BY <1>10, <1>11, <1>13, QueuedWhileFree
<1>15. QED
  <2>1. CASE t = r
      BY <1>4, <1>9, <1>11, <1>13, <2>1 DEF GateSound, t
  <2>2. CASE s.active # 0 /\ t = Gate!InterruptPlayback(r, "system", s.active)
      BY <1>4, <1>9, <1>10, <1>13, <1>14, <2>2, Interrupts DEF t
  <2>3. QED
      BY <1>3, <2>1, <2>2

\* The audio that was held goes to the sink.
LEMMA FirstIsSound ==
    ASSUME NEW s \in GateWorker, NEW d \in Nat, NEW Z \in SUBSET Nat,
           GateFits(s, d, Z), Rests(s), Queued(s, "data")
    PROVE  LET t == [s EXCEPT !.sink = s.sink \o s.held, !.held = <<>>, !.at["data"] = "free"] IN
           GateSound(t, d, Z) /\ t.queue = s.queue
<1> DEFINE at2 == [s.at EXCEPT !["data"] = "free"]
           sink2 == s.sink \o s.held
           t == [s EXCEPT !.sink = s.sink \o s.held, !.held = <<>>, !.at["data"] = "free"]
<1>1. /\ Quieted(s, d, Z) /\ Doomed(s, d) /\ Bound(s) /\ Ahead(s) /\ Wakes(s)
      /\ s.active \in Nat /\ s.active <= d /\ s.outgoing \in Seq(GateItem)
      /\ s.sink \in Seq(GateAudio) /\ s.held \in Seq(GateAudio)
    BY DEF GateFits, GateWorker
<1>2. t = [s EXCEPT !.sink = sink2, !.held = <<>>, !.at = at2]
    BY DEF GateWorker
<1>3. /\ at2 \in [Tasks -> Places] /\ at2["data"] = "free"
      /\ \A v \in Tasks \ {"data"} : at2[v] = s.at[v]
    BY DEF GateWorker, Tasks, Places
<1>4. sink2 \in Seq(GateAudio) /\ <<>> \in Seq(GateAudio)
    BY <1>1
<1>5. \A l \in Nat : Hushed(s, l) => Mute(sink2, l)
    BY <1>1, AudioIsItem, MuteQueues DEF Hushed
<1> HIDE DEF at2, sink2, t
<1>6. /\ t \in GateWorker /\ t.active = s.active /\ t.playback = s.playback /\ t.at = at2
      /\ t.interruptedIds = s.interruptedIds /\ t.cutting = s.cutting
      /\ t.sending = s.sending /\ t.pipeline = s.pipeline /\ t.queue = s.queue
      /\ t.held = <<>> /\ t.sink = sink2 /\ t.outgoing = s.outgoing
    BY <1>2, <1>3, <1>4, Zenon DEF GateWorker
<1>7. Aged(s, d, t, d)
    BY <1>1, <1>6 DEF Aged
<1>8. \A l \in Nat : Dead(s, d, l) /\ Hushed(s, l) => Dead(t, d, l) /\ Hushed(t, l)
  <2>1. \A l \in Nat : Dead(s, d, l) => Dead(t, d, l)
      BY <1>6, <1>7, DeadStays
  <2>2. \A l \in Nat : Hushed(s, l) => Hushed(t, l)
      BY <1>5, <1>6, MuteEmpty DEF Hushed
  <2>3. QED
      BY <2>1, <2>2
<1>9. Quieted(t, d, Z)
  <2>1. \A j \in 1 .. Len(s.outgoing) :
            s.outgoing[j].kind = "clear" => s.outgoing[j].line \in Nat
      BY <1>1, ItemHas
  <2>2. QED
      BY <1>1, <1>6, <1>8, <2>1, Zenon DEF Quieted
<1>10. Doomed(t, d)
  <2>1. \A v \in Cutters : t.at[v] = "cutting" =>
                 \/ s.at[v] = "cutting" /\ t.cutting[v] = s.cutting[v]
                 \/ Dead(t, d, t.cutting[v])
      BY <1>3, <1>6 DEF Cutters, Tasks
  <2>2. \A j \in 1 .. Len(t.pipeline) : t.pipeline[j].kind = "cut" =>
                 \/ \E k \in 1 .. Len(s.pipeline) : s.pipeline[k] = t.pipeline[j]
                 \/ Dead(t, d, t.pipeline[j].line)
      BY <1>6
  <2>3. t \in GateWorker
      BY <1>6
  <2>4. QED
      BY <1>1, <1>7, <2>1, <2>2, <2>3, DoomStays, Zenon
<1>11. t.at["loop"] = s.at["loop"] /\ \A v \in Cutters : t.at[v] = s.at[v]
    BY <1>3, <1>6 DEF Cutters, Tasks
<1>12. Bound(t) /\ Ahead(t) /\ Wakes(t) /\ Rests(t)
    BY <1>1, <1>6, <1>11 DEF Bound, Ahead, Wakes, Rests
<1>13. Queued(t, "nobody")
  <2>1. t.at = [s.at EXCEPT !["data"] = "free"] /\ "data" \in Tasks /\ "free" \in Resting["data"]
      BY <1>6 DEF at2, Tasks, Resting
  <2>2. QED
      BY <1>6, <2>1, QueuedRests
<1>14. QED
    BY <1>1, <1>6, <1>9, <1>10, <1>12, <1>13 DEF GateSound, GateFits, t

\* The socket has taken the oldest frame.
LEMMA SenderKeeps ==
    ASSUME GateKept, Gate!SenderResumes
    PROVE  GateKept'
<1> DEFINE w == worker
           d == GateDone
           Z == peers.silenced
           u == Head(w.sending)
           s == [w EXCEPT !.sending = Tail(w.sending)]
           t == worker'
<1>1. /\ w \in GateWorker /\ d \in Nat /\ Z \in SUBSET Nat
      /\ Queued(w, "nobody") /\ Rests(w)
      /\ Quieted(w, d, Z) /\ Doomed(w, d) /\ Bound(w) /\ Ahead(w) /\ Wakes(w)
      /\ w.active \in Nat /\ w.active <= d /\ w.sending \in Seq(Tasks)
    BY GateKnown, Zenon DEF GateFits, GateWorker
<1>2. /\ w.sending # <<>> /\ peers' = peers
      /\ t = CASE u = "loop" -> Gate!LoopReported(s)
               [] s.at[u] = "cutting" -> Gate!Reported(s, u)
               [] s.at[u] = "started" -> Gate!MaybeBargeIn(s)
               [] s.at[u] = "first" -> [s EXCEPT !.sink = s.sink \o s.held, !.held = <<>>,
                                                 !.at["data"] = "free"]
    BY DEF Gate!SenderResumes, Gate!Step
<1>3. Tail(w.sending) \in Seq(Tasks)
    BY <1>1, <1>2
<1>4. /\ s \in GateWorker /\ s.active = w.active /\ s.playback = w.playback /\ s.at = w.at
      /\ s.interruptedIds = w.interruptedIds /\ s.cutting = w.cutting
      /\ s.sending = Tail(w.sending) /\ s.pipeline = w.pipeline /\ s.queue = w.queue
      /\ s.held = w.held /\ s.sink = w.sink /\ s.outgoing = w.outgoing
    BY <1>1, <1>3, Zenon DEF GateWorker
<1>5. u \in Tasks /\ w.at[u] \in Owing[u] /\ Queued(s, u)
    BY <1>1, <1>2, <1>4, QueuedTakes, Zenon
<1> HIDE DEF s, t, u
<1>6. Aged(w, d, s, d)
    BY <1>1, <1>4 DEF Aged
<1>7. Quieted(s, d, Z) /\ Doomed(s, d)
    BY <1>1, <1>4, <1>6, StaysSafe
<1>8. Bound(s) /\ Ahead(s) /\ Wakes(s) /\ Rests(s)
    BY <1>1, <1>4 DEF Bound, Ahead, Wakes, Rests
<1>9. GateFits(s, d, Z)
    BY <1>1, <1>4, <1>7, <1>8 DEF GateFits
<1>10. GateSound(t, d, Z) /\ t.queue = s.queue
  <2>1. CASE u = "loop"
    <3>1. s.at["loop"] \in Owing["loop"] /\ Queued(s, "loop")
        BY <1>4, <1>5, <2>1
    <3>2. s.active # 0
        BY <1>8, <3>1 DEF Rests, Owing
    <3>3. t = Gate!LoopReported(s)
        BY <1>2, <2>1, <3>1 DEF Owing
    <3>4. QED
        BY <1>1, <1>4, <1>9, <3>1, <3>2, <3>3, LoopGoesOn, Zenon
  <2>2. CASE u \in Cutters /\ s.at[u] = "cutting"
    <3>1. t = Gate!Reported(s, u)
        BY <1>2, <2>2 DEF Cutters
    <3>2. QED
        BY <1>1, <1>4, <1>5, <1>8, <1>9, <2>2, <3>1, CutIsReported
  <2>3. CASE u = "system" /\ s.at[u] = "started"
    <3>1. t = Gate!MaybeBargeIn(s)
        BY <1>2, <2>3
    <3>2. Queued(s, "system") /\ s.at["system"] = "started"
        BY <1>5, <2>3
    <3>3. QED
        BY <1>1, <1>4, <1>8, <1>9, <3>1, <3>2, BargesIn
  <2>4. CASE u = "data" /\ s.at[u] = "first"
    <3>1. t = [s EXCEPT !.sink = s.sink \o s.held, !.held = <<>>, !.at["data"] = "free"]
        BY <1>2, <2>4
    <3>2. Queued(s, "data")
        BY <1>5, <2>4
    <3>3. QED
        BY Zenon, <1>1, <1>4, <1>8, <1>9, <3>1, <3>2, FirstIsSound
  <2>5. QED
      BY <1>4, <1>5, <2>1, <2>2, <2>3, <2>4 DEF Tasks, Cutters, Owing
<1>11. QED
    BY <1>1, <1>2, <1>4, <1>10, GateKnown, GateSteps, Zenon DEF t

\* Every step of the worker keeps it.
LEMMA GateKeeps ==
    ASSUME GateKept, Gate!Next
    PROVE  GateKept'
<1>1. CASE \E c \in Gate!Context : Gate!MarkReturns(c)
    BY <1>1, MarkKeeps
<1>2. CASE Gate!LoopStep
    BY <1>2, TakesKeeps, SynthesisKeeps, PlayoutKeeps DEF Gate!LoopStep
<1>3. QED
    BY <1>1, <1>2, SpeakKeeps, StopKeeps, CloseKeeps, CallerKeeps, StartKeeps, AudioKeeps,
       StoppedKeeps, InterruptionKeeps, SenderKeeps, SinkKeeps, PacerKeeps, CarrierKeeps
    DEF Gate!Next

\* The worker keeps GateKept in every behaviour of the three engines and the website.
THEOREM GateIsKept == MCSpec => []GateKept
<1>1. MCInit => GateKept
  <2>1. SUFFICES ASSUME worker = Gate!NewWorker,
                        peers = [spoken |-> 0, carrier |-> <<>>, echoes |-> {},
                                 silenced |-> {}, cut |-> {}]
                 PROVE  GateKept
      BY DEF MCInit, Gate!Init
  <2> DEFINE t == worker
  <2>2. /\ t \in GateWorker /\ t.active = 0 /\ t.queue = <<>> /\ t.sending = <<>>
        /\ t.pipeline = <<>> /\ t.outgoing = <<>> /\ t.playback.bound = Gate!Nothing
        /\ t.interruptedIds = {}
        /\ \A v \in Tasks : t.at[v] = IF v = "loop" THEN "idle" ELSE "free"
      BY <2>1, NewWorkerIs
  <2> HIDE DEF t
  <2>3. InOrder(t, 0) /\ GateSound(t, 0 - Len(t.queue), {})
      BY <2>2, NewIsSound
  <2>4. /\ peers \in GatePeers /\ peers.spoken = 0 /\ peers.silenced = {}
      BY <2>1 DEF GatePeers
  <2>5. QED
      BY <2>3, <2>4 DEF GateKept, t
<1>2. GateKept /\ [MCNext]_MCVars => GateKept'
  <2> SUFFICES ASSUME GateKept, [MCNext]_MCVars PROVE GateKept'
      OBVIOUS
  <2>1. Gate!Next \/ UNCHANGED gateVars
      BY DEF MCNext, MCVars, InProcess, Pipecat, Worker, Website
  <2>2. CASE Gate!Next
      BY <2>2, GateKeeps
  <2>3. CASE UNCHANGED gateVars
      BY <2>3 DEF gateVars, GateKept
  <2>4. QED
      BY <2>1, <2>2, <2>3
<1>3. QED
    BY <1>1, <1>2, PTL DEF MCSpec, MCNext, MCVars

\* Once the carrier was told to drop a line that was cut, nothing more of it is heard,
\* whatever the vendor, the pipeline and the pacer still hold (media_gate.py, worker.py).
THEOREM SilenceIsKept == MCSpec => []SilencedStaysSilent
<1>1. GateKept => SilencedStaysSilent
  <2> SUFFICES ASSUME GateKept, NEW x \in Gate!Range(peers.carrier), x.kind = "audio"
               PROVE  x.context[1] \notin peers.silenced
      BY DEF SilencedStaysSilent, Gate!SilencedStaysSilent
  <2>1. peers.carrier \in Seq(GateSent)
      BY GateKnown DEF GatePeers
  <2>2. PICK i \in DOMAIN peers.carrier : x = peers.carrier[i]
      BY Zenon DEF Gate!Range
  <2>3. i \in 1 .. Len(peers.carrier)
      BY <2>1, <2>2
  <2>4. QED
      BY <2>2, <2>3 DEF GateKept, Mute
<1>2. QED
    BY <1>1, GateIsKept, PTL

-------------------------------------------------------------------------------
(* The engine of the worker: the session of the gateway.                    *)

\* What the two engines name alike is alike.
LEMMA NamesAgree ==
    /\ Remote!Turns = Turns /\ Remote!NoTurn = NoTurn /\ Remote!Silence = Silence
    /\ Remote!Turn = Turn /\ Remote!State = State /\ Remote!Delivery = Delivery
    /\ \A s : /\ Remote!Playing(s) = Playing(s)
              /\ Remote!InFlight(s) = InFlight(s)
              /\ Remote!Closing(s) = Closing(s)
              /\ Remote!Open(s) = Open(s)
    /\ \A words : Remote!Texts(words) = Texts(words)
<1>0. Remote!Cardinality(Utterances) = Cardinality(Utterances)
    BY DEF Remote!Cardinality, Cardinality, Remote!IsFiniteSet, IsFiniteSet
<1>1. /\ Remote!Turns = Turns /\ Remote!NoTurn = NoTurn /\ Remote!Silence = Silence
      /\ Remote!State = State /\ Remote!Delivery = Delivery
    BY <1>0 DEF Remote!Turns, Turns, Remote!NoTurn, NoTurn, Remote!Silence, Silence,
               Remote!State, State, Remote!Delivery, Delivery
<1>2. Remote!Turn = Turn
    BY <1>1 DEF Remote!Turn, Turn
<1>3. \A s : Remote!Playing(s) = Playing(s) /\ Remote!InFlight(s) = InFlight(s)
    BY <1>1 DEF Remote!Playing, Playing, Remote!InFlight, InFlight
<1>4. \A s : Remote!Closing(s) = Closing(s) /\ Remote!Open(s) = Open(s)
    BY DEF Remote!Closing, Closing, Remote!Open, Open
<1>5. \A words : Remote!Texts(words) = Texts(words)
    BY DEF Remote!Texts, Texts
<1>6. QED
    BY <1>1, <1>2, <1>3, <1>4, <1>5

\* Here the names of either are used for those of the other.
USE NamesAgree

\* The lines of a handoff and of a goodbye are never cut by the caller.
Owned(s) ==
    Playing(s) /\ s.state \in {"transferring", "ending"} => ~s.playback.interruptible

\* What a session may become within one event, but for the settlement of its turn.
RemoteBecomes(s, t) ==
    /\ t \in Remote!Session
    /\ Sound(t)
    /\ Owned(t)
    /\ Keeps(s, t) \/ Commits(s, t)
    /\ FinalStays(s, t)

\* Lines and turns are not their absence.
LEMMA RemoteAbsence ==
    /\ \A line \in Remote!Playback : line # Silence
    /\ \A turn \in Remote!Turn : turn # NoTurn /\ turn.number > 0
<1>1. \A line \in Remote!Playback : line # Silence
  <2> SUFFICES ASSUME NEW line \in Remote!Playback, line = Silence PROVE FALSE
      OBVIOUS
  <2>1. line.kind \in {"reply", "policy"} /\ line.kind = "none"
      BY DEF Remote!Playback, Silence
  <2>2. QED
      BY <2>1
<1>2. \A r \in Remote!Turn : r \in Turn
    BY DEF Remote!Turn, Turn
<1>3. QED
    BY <1>1, <1>2, Absence

\* The lines that are spoken are lines.
LEMMA RemoteLinesAre ==
    /\ Remote!PolicyLine \in Remote!Playback
    /\ \A next \in {"nothing", "bridge", "end"} :
          [Remote!PolicyLine EXCEPT !.next = next] \in Remote!Playback
    /\ \A n \in Turns, d \in Remote!Directive : Remote!Reply(n, d) \in Remote!Playback
BY Zenon DEF Remote!PolicyLine, Remote!Playback, Remote!Reply, Remote!Directive

\* settlePlayback settles what plays, and nothing else.
LEMMA RemoteSettlePlaybackSets ==
    ASSUME NEW s \in Remote!Session, NEW status \in Heard
    PROVE  LET t == Remote!SettlePlayback(s, status) IN
           /\ t \in Remote!Session
           /\ SameCall(s, t)
           /\ t.turn = s.turn /\ t.state = s.state /\ t.timers = s.timers
           /\ t.tearingDown = s.tearingDown
           /\ ~Playing(t)
           /\ Settles(s, t)
<1> DEFINE t == Remote!SettlePlayback(s, status)
<1>1. CASE ~Playing(s)
    BY <1>1 DEF Remote!SettlePlayback, SameCall, Settles
<1>2. CASE Playing(s)
  <2> DEFINE heard == IF status = "complete" THEN "complete"
                      ELSE IF s.playback.acked THEN "interrupted" ELSE "not_delivered"
             silent == [s EXCEPT !.playback = Silence]
             k == s.playback.turn
  <2>1. heard \in Heard /\ heard \in Remote!Delivery /\ k \in Turns \cup {0}
      BY <1>2 DEF Heard, Remote!Delivery, Remote!Session, Remote!Playback, Playing
  <2>2. silent \in Remote!Session
      BY DEF Remote!Session
  <2>3. t = IF k = 0 THEN silent ELSE [silent EXCEPT !.transcript[k] = heard]
      BY <1>2 DEF Remote!SettlePlayback, Remote!Record
  <2> HIDE DEF heard, t
  <2>4. CASE k = 0
      BY <2>2, <2>3, <2>4, <1>2, Absence DEF Remote!Session, SameCall, Settles, Playing, t
  <2>5. CASE k # 0
    <3>1. t = [silent EXCEPT !.transcript[k] = heard] /\ k \in Turns
        BY <2>3, <2>5, <2>1
    <3>2. t \in Remote!Session
        BY ZenonT(60), <3>1, <2>1, <2>2 DEF Remote!Session
    <3>3. /\ SameCall(s, t) /\ t.turn = s.turn /\ t.state = s.state /\ t.timers = s.timers
          /\ t.tearingDown = s.tearingDown /\ t.playback = Silence
          /\ t.transcript = [s.transcript EXCEPT ![k] = heard]
        BY <3>1 DEF Remote!Session, SameCall
    <3>4. QED
        BY <3>1, <3>2, <3>3, <2>1, <1>2 DEF Remote!Session, Settles, Playing, t
  <2>6. QED
      BY <2>4, <2>5
<1>3. QED
    BY <1>1, <1>2

\* A line as it is spoken.
Spoken(s, line) ==
    [line EXCEPT !.interruptible = s.state \notin {"ending", "transferring"}]

\* It is a line, and may be cut unless a handoff or a goodbye speaks it.
LEMMA SpokenIs ==
    ASSUME NEW s, NEW line \in Remote!Playback
    PROVE  /\ Spoken(s, line) \in Remote!Playback
           /\ Spoken(s, line).turn = line.turn
           /\ Spoken(s, line).directive = line.directive
           /\ Spoken(s, line).next = line.next
           /\ Spoken(s, line).interruptible <=> s.state \notin {"ending", "transferring"}
           /\ Spoken(s, line) # Silence
<1> DEFINE free == s.state \notin {"ending", "transferring"}
<1>1. free \in BOOLEAN
    OBVIOUS
<1> HIDE DEF free
<1>2. Spoken(s, line) = [line EXCEPT !.interruptible = free]
    BY DEF Spoken, free
<1>3. /\ Spoken(s, line) \in Remote!Playback
      /\ Spoken(s, line).turn = line.turn
      /\ Spoken(s, line).directive = line.directive
      /\ Spoken(s, line).next = line.next
      /\ Spoken(s, line).interruptible = free
    BY <1>1, <1>2 DEF Remote!Playback
<1>4. QED
    BY <1>3, RemoteAbsence, Zenon DEF free

\* A line that is spoken cuts the one that plays, and takes the floor unless the session
\* is owned by a handoff or a goodbye.
LEMMA RemotePlaySets ==
    ASSUME NEW s \in Remote!Session, NEW line \in Remote!Playback, s.state # "ended"
    PROVE  LET t == Remote!Play(s, line) IN
           /\ t \in Remote!Session
           /\ SameCall(s, t)
           /\ t.turn = s.turn /\ t.tearingDown = s.tearingDown
           /\ t.state = IF s.state \in {"ending", "transferring"} THEN s.state ELSE "speaking"
           /\ t.timers = s.timers \ {"silence"}
           /\ t.playback = Spoken(s, line)
           /\ Replaces(s, t, Spoken(s, line))
<1> DEFINE t == Remote!Play(s, line)
           cut == Remote!SettlePlayback(s, "interrupted")
           floor == IF s.state \in {"ending", "transferring"} THEN s.state ELSE "speaking"
           spoken == [cut EXCEPT !.playback = Spoken(s, line), !.state = floor,
                                 !.timers = cut.timers \ {"silence"}]
           k == line.turn
<1>0. Spoken(s, line) \in Remote!Playback /\ Spoken(s, line).turn = k
    BY SpokenIs
<1>1. /\ cut \in Remote!Session /\ SameCall(s, cut) /\ cut.turn = s.turn
      /\ cut.state = s.state
      /\ cut.timers = s.timers /\ cut.tearingDown = s.tearingDown /\ Settles(s, cut)
    BY RemoteSettlePlaybackSets DEF Heard
<1>2. t = IF k = 0 THEN spoken ELSE [spoken EXCEPT !.transcript[k] = "playing"]
    BY <1>1, Zenon DEF Remote!Play, Remote!Record, Spoken
<1> HIDE DEF cut, t
<1>3. floor \in Remote!State /\ s.timers \ {"silence"} \subseteq Remote!Timer
    BY DEF Remote!Session, Remote!State
<1> HIDE DEF floor
<1>4. spoken \in Remote!Session
    BY <1>0, <1>1, <1>3, ZenonT(60) DEF Remote!Session
<1>5. /\ SameCall(s, spoken) /\ spoken.turn = s.turn /\ spoken.state = floor
      /\ spoken.timers = s.timers \ {"silence"} /\ spoken.tearingDown = s.tearingDown
      /\ spoken.playback = Spoken(s, line) /\ Settles(s, spoken)
    BY <1>1 DEF Remote!Session, SameCall, Settles
<1>6. k \in Turns \cup {0} /\ 0 \notin Turns
    BY Absence DEF Remote!Playback
<1> HIDE DEF spoken
<1>7. CASE k = 0
    BY <1>0, <1>2, <1>4, <1>5, <1>6, <1>7 DEF floor, Settles, Replaces, t
<1>8. CASE k # 0
  <2>1. t = [spoken EXCEPT !.transcript[k] = "playing"] /\ k \in Turns
      BY <1>2, <1>6, <1>8
  <2>2. t \in Remote!Session
      BY <2>1, <1>4 DEF Remote!Session, Remote!Delivery
  <2>3. /\ SameCall(spoken, t) /\ t.turn = spoken.turn /\ t.state = spoken.state
        /\ t.timers = spoken.timers /\ t.tearingDown = spoken.tearingDown
        /\ t.playback = spoken.playback
        /\ t.transcript = [spoken.transcript EXCEPT ![k] = "playing"]
      BY <2>1, <1>4 DEF Remote!Session, SameCall
  <2>4. Replaces(s, t, Spoken(s, line))
      BY <1>0, <2>1, <2>3, <1>4, <1>5 DEF Remote!Session, Settles, Replaces
  <2>5. QED
      BY <2>2, <2>3, <2>4, <1>5 DEF SameCall, floor, t
<1>9. QED
    BY <1>7, <1>8

\* A turn that is aborted stays in flight with its words.
LEMMA RemoteAbortSets ==
    ASSUME NEW s \in Remote!Session
    PROVE  LET t == Remote!Abort(s) IN
           /\ t \in Remote!Session
           /\ SameCall(s, t) /\ Keeps(s, t)
           /\ InFlight(s) => t.turn.number = s.turn.number
           /\ t.state = s.state /\ t.timers = s.timers /\ t.tearingDown = s.tearingDown
           /\ t.playback = s.playback /\ t.transcript = s.transcript
<1> DEFINE t == Remote!Abort(s)
<1>1. CASE ~InFlight(s)
    BY <1>1 DEF Remote!Abort, SameCall, Keeps
<1>2. CASE InFlight(s)
  <2> DEFINE gone == [s.turn EXCEPT !.aborted = TRUE]
  <2>1. s.turn \in Remote!Turn
      BY <1>2 DEF InFlight, Remote!Session
  <2>2. gone \in Remote!Turn /\ gone.words = s.turn.words /\ gone.number = s.turn.number
      BY <2>1, Zenon DEF Remote!Turn
  <2>3. gone # NoTurn
      BY <2>2, RemoteAbsence, Zenon
  <2>4. t = [s EXCEPT !.turn = gone]
      BY <1>2 DEF Remote!Abort
  <2> HIDE DEF gone, t
  <2>5. t \in Remote!Session
      BY <2>2, <2>4 DEF Remote!Session
  <2>6. /\ SameCall(s, t) /\ t.turn = gone
        /\ t.state = s.state /\ t.timers = s.timers /\ t.tearingDown = s.tearingDown
        /\ t.playback = s.playback /\ t.transcript = s.transcript
      BY <2>4 DEF Remote!Session, SameCall
  <2>7. QED
      BY <1>2, <2>2, <2>3, <2>5, <2>6 DEF SameCall, Keeps, InFlight, t
<1>3. QED
    BY <1>1, <1>2

\* What becomes of such a change becomes of the session.
LEMMA RemoteThrough ==
    ASSUME NEW s, NEW b, NEW t, Keeps(s, b), FinalStays(s, b), RemoteBecomes(b, t),
           b.state = s.state \/ s.state \notin {"idle", "transferring", "ending", "ended"}
    PROVE  RemoteBecomes(s, t)
<1>1. Keeps(s, t) \/ Commits(s, t)
    BY DEF RemoteBecomes, Keeps, Commits, InFlight
<1>2. FinalStays(s, t)
    BY DEF RemoteBecomes, FinalStays
<1>3. QED
    BY <1>1, <1>2 DEF RemoteBecomes

\* end() closes a session, once.
LEMMA RemoteEndKeeps ==
    ASSUME NEW s \in Remote!Session, Core(s)
    PROVE  /\ RemoteBecomes(s, Remote!End(s)) /\ Keeps(s, Remote!End(s))
           /\ Remote!End(s).state = IF s.state = "ended" THEN "ended" ELSE "ending"
           /\ s.tearingDown => Remote!End(s) = s
<1> DEFINE a == Remote!Abort(s)
           b == Remote!SettlePlayback(a, "interrupted")
           t == [b EXCEPT !.state = "ending", !.timers = {}, !.tearingDown = TRUE]
<1>1. CASE s.tearingDown
  <2>1. Remote!End(s) = s /\ Closing(s) /\ ~Playing(s)
      BY <1>1 DEF Remote!End, Core
  <2>2. Sound(s) /\ Owned(s)
      BY <2>1 DEF Sound, Bounded, Awaited, LineFits, Owned, Closing
  <2>3. QED
      BY <2>1, <2>2 DEF RemoteBecomes, Keeps, FinalStays, Closing
<1>2. CASE ~s.tearingDown
  <2>1. /\ a \in Remote!Session /\ SameCall(s, a) /\ Keeps(s, a)
        /\ InFlight(s) => a.turn.number = s.turn.number
        /\ a.playback = s.playback /\ a.transcript = s.transcript
      BY RemoteAbortSets
  <2> HIDE DEF a
  <2>2. /\ b \in Remote!Session /\ SameCall(a, b) /\ b.turn = a.turn
        /\ ~Playing(b) /\ Settles(a, b)
      BY <2>1, RemoteSettlePlaybackSets DEF Heard
  <2> HIDE DEF b
  <2>3. t \in Remote!Session
      BY <2>2, ZenonT(60) DEF Remote!Session, Remote!State
  <2>4. /\ SameCall(b, t) /\ t.turn = b.turn /\ t.state = "ending" /\ t.tearingDown = TRUE
        /\ t.playback = b.playback /\ t.transcript = b.transcript
      BY <2>2 DEF Remote!Session, SameCall
  <2>5. Remote!End(s) = t
      BY <1>2 DEF Remote!End, a, b
  <2> HIDE DEF t
  <2>6. SameCall(s, t) /\ Keeps(s, t)
      BY <2>1, <2>2, <2>4 DEF SameCall, Keeps, InFlight
  <2>7. ~Playing(t) /\ Settles(s, t)
      BY <2>1, <2>2, <2>4 DEF Playing, Settles
  <2>8. Delivered(t) /\ FinalStays(s, t)
      BY <2>6, <2>7, SettledIsDelivered DEF Core, Keeps
  <2>9. Core(t)
      BY <2>1, <2>2, <2>4, <2>6, <2>7, <2>8 DEF Core, SameCall, Keeps, InFlight, Closing
  <2>10. Sound(t) /\ Owned(t)
      BY <2>4, <2>7, <2>9 DEF Sound, Bounded, Awaited, LineFits, Owned, Closing
  <2>11. s.state # "ended"
      BY <1>2 DEF Core
  <2>12. QED
      BY <1>2, <2>3, <2>4, <2>5, <2>6, <2>8, <2>10, <2>11 DEF RemoteBecomes
<1>3. QED
    BY <1>1, <1>2

\* The goodbye is spoken by a session that closes.
LEMMA RemoteGoodbyeKeeps ==
    ASSUME NEW s \in Remote!Session, Core(s), ~Closing(s)
    PROVE  /\ RemoteBecomes(s, Remote!Goodbye(s))
           /\ Keeps(s, Remote!Goodbye(s)) /\ Remote!Goodbye(s).state = "ending"
<1> DEFINE a == Remote!Abort(s)
           b == Remote!SettlePlayback(a, "interrupted")
           c == [b EXCEPT !.state = "ending"]
           line == [Remote!PolicyLine EXCEPT !.next = "end"]
           said == Spoken(c, line)
           t == Remote!Play(c, line)
<1>1. /\ a \in Remote!Session /\ SameCall(s, a) /\ Keeps(s, a)
      /\ InFlight(s) => a.turn.number = s.turn.number
      /\ a.playback = s.playback /\ a.transcript = s.transcript
      /\ a.tearingDown = s.tearingDown
    BY RemoteAbortSets
<1> HIDE DEF a
<1>2. /\ b \in Remote!Session /\ SameCall(a, b) /\ b.turn = a.turn
      /\ ~Playing(b) /\ Settles(a, b) /\ b.tearingDown = a.tearingDown
    BY <1>1, RemoteSettlePlaybackSets DEF Heard
<1> HIDE DEF b
<1>3. c \in Remote!Session
    BY <1>2 DEF Remote!Session, Remote!State
<1>4. /\ SameCall(b, c) /\ c.turn = b.turn /\ c.state = "ending"
      /\ c.playback = b.playback /\ c.transcript = b.transcript
      /\ c.tearingDown = b.tearingDown
    BY <1>2 DEF Remote!Session, SameCall
<1> HIDE DEF c
<1>5. line \in Remote!Playback /\ line.turn = 0 /\ line.directive = "continue"
      /\ line.next = "end"
    BY RemoteLinesAre DEF Remote!PolicyLine
<1> HIDE DEF line
<1>0. /\ said \in Remote!Playback /\ said.turn = 0 /\ said.directive = "continue"
      /\ said.next = "end" /\ ~said.interruptible /\ said # Silence
    BY <1>4, <1>5, SpokenIs
<1>6. /\ t \in Remote!Session /\ SameCall(c, t) /\ t.turn = c.turn
      /\ t.tearingDown = c.tearingDown
      /\ t.state = "ending" /\ t.playback = said /\ Replaces(c, t, said)
    BY <1>3, <1>4, <1>5, RemotePlaySets
<1>7. Remote!Goodbye(s) = t
    BY DEF Remote!Goodbye, a, b, c, line
<1> HIDE DEF t, said
<1>8. SameCall(s, c) /\ Keeps(s, c) /\ SameCall(s, t) /\ Keeps(s, t)
    BY <1>1, <1>2, <1>4, <1>6 DEF SameCall, Keeps, InFlight
<1>9. ~Playing(c) /\ Settles(s, c)
    BY <1>1, <1>2, <1>4 DEF Playing, Settles
<1>10. Delivered(c) /\ FinalStays(s, c)
    BY <1>8, <1>9, SettledIsDelivered DEF Core, Keeps
<1>11. said # Silence /\ 0 \notin Turns
    BY <1>0, Absence
<1>12. Delivered(t) /\ FinalStays(c, t)
    BY <1>0, <1>6, <1>8, <1>10, <1>11, ReplacedIsDelivered DEF Keeps
<1>13. Core(t)
    BY <1>1, <1>2, <1>4, <1>6, <1>8, <1>12 DEF Core, SameCall, Keeps, InFlight, Closing
<1>14. Sound(t) /\ Owned(t)
    BY <1>0, <1>6, <1>13 DEF Sound, Bounded, Awaited, LineFits, Owned, Closing
<1>15. FinalStays(s, t)
    BY <1>10, <1>12 DEF FinalStays
<1>16. QED
    BY <1>6, <1>7, <1>8, <1>14, <1>15 DEF RemoteBecomes

\* A policy line takes the floor.
LEMMA RemotePolicyKeeps ==
    ASSUME NEW s \in Remote!Session, Core(s), Bounded(s),
           s.state \notin {"transferring", "ending", "ended"}
    PROVE  LET t == Remote!Play(s, Remote!PolicyLine) IN
           RemoteBecomes(s, t) /\ Keeps(s, t) /\ t.state = "speaking"
<1> DEFINE line == Remote!PolicyLine
           said == Spoken(s, line)
           t == Remote!Play(s, line)
<1>1. line \in Remote!Playback /\ line.turn = 0 /\ line.directive = "continue"
      /\ line.next = "nothing"
    BY RemoteLinesAre DEF Remote!PolicyLine
<1> HIDE DEF line
<1>0. /\ said \in Remote!Playback /\ said.turn = 0 /\ said.directive = "continue"
      /\ said.next = "nothing" /\ said # Silence
    BY <1>1, SpokenIs
<1>2. /\ t \in Remote!Session /\ SameCall(s, t) /\ t.turn = s.turn
      /\ t.tearingDown = s.tearingDown
      /\ t.state = "speaking" /\ t.playback = said /\ Replaces(s, t, said)
    BY <1>1, RemotePlaySets
<1> HIDE DEF t, said
<1>3. said # Silence /\ 0 \notin Turns
    BY <1>0, Absence
<1>4. Keeps(s, t)
    BY <1>2 DEF SameCall, Keeps, InFlight
<1>5. Delivered(t) /\ FinalStays(s, t)
    BY <1>0, <1>2, <1>3, <1>4, ReplacedIsDelivered DEF Core, Keeps
<1>6. Core(t)
    BY <1>2, <1>4, <1>5 DEF Core, SameCall, Keeps, InFlight, Closing
<1>7. Sound(t) /\ Owned(t)
    BY <1>0, <1>2, <1>3, <1>6
       DEF Sound, Bounded, Awaited, LineFits, Owned, Closing, Playing, SameCall
<1>8. QED
    BY <1>2, <1>4, <1>5, <1>7 DEF RemoteBecomes, t, line

\* Turns are counted in naturals.
LEMMA RemoteIndexIsNatural == \A s \in Remote!Session : s.turnIndex \in Nat
<1> SUFFICES ASSUME NEW s \in Remote!Session PROVE s.turnIndex \in Nat
    OBVIOUS
<1>1. s.turnIndex \in Turns \cup {0}
    BY DEF Remote!Session
<1>2. QED
    BY <1>1 DEF Turns

\* The end of the caller's speech was seen.
SpeechSeen(s) == [s EXCEPT !.speechEnded = TRUE]

\* That leaves all the rest as it was.
LEMMA SeenIs ==
    ASSUME NEW s \in Remote!Session, NEW c \in {s, SpeechSeen(s)}
    PROVE  /\ c \in Remote!Session /\ SameCall(s, c) /\ Retimes(s, c)
           /\ c.state = s.state /\ c.timers = s.timers
<1>1. CASE c = s
    BY <1>1 DEF SameCall, Retimes
<1>2. CASE c = SpeechSeen(s)
    BY <1>2, Zenon DEF SpeechSeen, Remote!Session, SameCall, Retimes
<1>3. QED
    BY <1>1, <1>2

\* A turn begins with all that is held, and with no timer left that could begin another.
LEMMA RemoteCommitKeeps ==
    ASSUME NEW s \in Remote!Session, Core(s), Bounded(s), LineFits(s), ~InFlight(s),
           s.finals # {},
           s.state \notin {"idle", "transferring", "ending", "ended"},
           NEW c \in {s, SpeechSeen(s)}
    PROVE  RemoteBecomes(s, Remote!CommitUtterance(c))
    /\ Commits(s, Remote!CommitUtterance(c))
<1> DEFINE words == s.finals \cup s.superseded
           next == [number |-> s.turnIndex + 1, words |-> words, aborted |-> FALSE,
                    timedOut |-> FALSE]
           b == [Remote!Clear(c, Waits) EXCEPT
                    !.finals = {}, !.superseded = {}, !.reprompts = 0]
           t == Remote!RunTurn(b, words)
<1>0. /\ c \in Remote!Session /\ SameCall(s, c) /\ Retimes(s, c)
      /\ c.state = s.state /\ c.timers = s.timers
    BY SeenIs
<1>1. s.turnIndex + 1 \in Turns /\ s.turnIndex + 1 <= Cardinality(s.seen)
  <2>1. s.seen \subseteq Utterances
      BY DEF Remote!Session
  <2>2. QED
      BY <2>1, RemoteIndexIsNatural, RoomForTurn DEF Core
<1>2. words \subseteq Utterances /\ words = s.finals \cup s.superseded
    BY DEF Remote!Session
<1> HIDE DEF words
<1>3. /\ next \in Remote!Turn /\ next.words = words /\ next.number = s.turnIndex + 1
      /\ next.aborted = FALSE
    BY <1>1, <1>2 DEF Remote!Turn
<1>4. next # NoTurn
    BY <1>3, RemoteAbsence, Zenon
<1>5. 0 \in 0 .. MaxReprompts + 1 /\ s.turnIndex \in Nat
  <2>1. MaxReprompts \in Nat
      BY VoiceAssumption
  <2>2. QED
      BY <2>1, RemoteIndexIsNatural
<1>6. b \in Remote!Session
    BY <1>0, <1>5, Zenon DEF Remote!Session, Remote!Clear
<1>7. /\ b.inSpeech = s.inSpeech /\ b.seen = s.seen /\ b.finals = {} /\ b.superseded = {}
      /\ b.turnIndex = s.turnIndex /\ b.playback = s.playback /\ b.transcript = s.transcript
      /\ b.timers = s.timers \ Waits /\ b.reprompts = 0 /\ b.failures = s.failures
      /\ b.bridging = s.bridging /\ b.tearingDown = s.tearingDown
    BY <1>0 DEF Remote!Session, Remote!Clear, SameCall, Retimes
<1>8. t = [b EXCEPT !.state = "thinking", !.turnIndex = s.turnIndex + 1, !.turn = next]
    BY <1>7, Zenon DEF Remote!RunTurn
<1>9. Remote!CommitUtterance(c) = t
    BY <1>0, Zenon
       DEF Remote!CommitUtterance, Closing, InFlight, SameCall, Retimes, t, b, words,
                Waits
<1> HIDE DEF t, b, next
<1>10. t \in Remote!Session
    BY ZenonT(60), <1>1, <1>3, <1>6, <1>8 DEF Remote!Session, Remote!State
<1>11. /\ t.state = "thinking" /\ t.turn = next /\ t.turnIndex = s.turnIndex + 1
       /\ t.inSpeech = s.inSpeech /\ t.seen = s.seen /\ t.finals = {} /\ t.superseded = {}
       /\ t.playback = s.playback /\ t.transcript = s.transcript
       /\ t.timers = s.timers \ Waits /\ t.reprompts = 0 /\ t.failures = s.failures
       /\ t.bridging = s.bridging /\ t.tearingDown = s.tearingDown
    BY <1>6, <1>7, <1>8 DEF Remote!Session
<1>12. InFlight(t)
    BY <1>4, <1>11 DEF InFlight
<1>13. Commits(s, t)
    BY <1>2, <1>3, <1>11, <1>12 DEF Commits
<1>14. Delivered(t) /\ FinalStays(s, t)
  <2> SUFFICES ASSUME NEW n \in Turns
               PROVE  /\ t.transcript[n] = "playing" <=> Playing(t) /\ t.playback.turn = n
                      /\ n > t.turnIndex \/ n = t.turnIndex => t.transcript[n] = "none"
                      /\ s.transcript[n] \in Heard => t.transcript[n] = s.transcript[n]
      BY DEF Delivered, FinalStays
  <2>1. n \in Nat
      BY Absence
  <2>2. n > t.turnIndex \/ n = t.turnIndex => n > s.turnIndex
      BY <1>5, <1>11, <2>1
  <2>3. QED
      BY <1>11, <2>2 DEF Core, Delivered, Playing
<1>15. s.failures < MaxFailures
    BY VoiceAssumption DEF Bounded, Closing, Remote!Session
<1>16. t.turnIndex <= Cardinality(t.seen \ t.finals)
  <2>1. t.seen \ t.finals = s.seen
      BY <1>11
  <2>2. QED
      BY <1>1, <1>11, <2>1
<1>17. Core(t)
  <2>1. t.finals \subseteq t.seen
      BY <1>11
  <2>2. t.turn.number = t.turnIndex /\ t.superseded = {} /\ t.failures < MaxFailures
      BY <1>3, <1>11, <1>15
  <2>3. ~s.bridging /\ ~s.tearingDown
      BY DEF Core, Closing
  <2>4. QED
      BY <1>11, <1>14, <1>16, <2>1, <2>2, <2>3 DEF Core
<1>18. Bounded(t)
    BY <1>11, <1>15, VoiceAssumption DEF Bounded, Remote!Session
<1>19. Awaited(t)
    BY <1>3, <1>11, <1>12 DEF Awaited
<1>20. LineFits(t) /\ Owned(t)
    BY <1>11 DEF LineFits, Owned, Playing, Closing
<1>21. QED
    BY <1>9, <1>10, <1>13, <1>14, <1>17, <1>18, <1>19, <1>20 DEF RemoteBecomes, Sound

\* A session whose turn is over, before it goes on.
RemoteSettled(s) ==
    /\ Core(s)
    /\ ~InFlight(s)
    /\ s.state # "idle"
    /\ s.reprompts > MaxReprompts => Closing(s)
    /\ LineFits(s)
    /\ Owned(s)
    /\ s.state = "speaking" => Playing(s)
    /\ s.state = "listening" => "silence" \in s.timers
    /\ s.state = "user_speaking" => s.inSpeech \/ "finalWait" \in s.timers \/ s.finals # {}
    /\ s.state = "transferring" => s.bridging \/ (Playing(s) /\ s.playback.next = "bridge")

\* resumeListening takes up what was said meanwhile, or waits.
LEMMA RemoteResumeKeeps ==
    ASSUME NEW s \in Remote!Session, RemoteSettled(s), s.state # "thinking",
           s.failures >= MaxFailures => Closing(s)
    PROVE  /\ RemoteBecomes(s, Remote!ResumeListening(s))
           /\ Remote!ResumeListening(s).state \in {s.state, "thinking"}
           /\ \/ Commits(s, Remote!ResumeListening(s))
              \/ Remote!ResumeListening(s).state = s.state
<1> DEFINE t == Remote!ResumeListening(s)
<1>0. Bounded(s)
    BY DEF RemoteSettled, Bounded
<1>1. CASE s.state \notin {"listening", "user_speaking"}
  <2>1. t = s
      BY <1>1 DEF Remote!ResumeListening
  <2>2. Awaited(s)
      BY <1>1 DEF RemoteSettled, Awaited
  <2>3. QED
      BY <1>0, <2>1, <2>2 DEF RemoteBecomes, RemoteSettled, Sound, Keeps, FinalStays
<1>2. CASE s.state \in {"listening", "user_speaking"} /\ s.finals # {} /\ ~s.inSpeech
  <2>1. t = Remote!CommitUtterance(SpeechSeen(s))
      BY <1>2 DEF Remote!ResumeListening, SpeechSeen
  <2>2. RemoteBecomes(s, t) /\ Commits(s, t)
      BY <1>0, <1>2, <2>1, RemoteCommitKeeps DEF RemoteSettled
  <2>3. QED
      BY <2>2 DEF Commits
<1>3. CASE s.state = "listening" /\ ~(s.finals # {} /\ ~s.inSpeech)
  <2>1. t = Remote!Arm(s, "silence")
      BY <1>3 DEF Remote!ResumeListening
  <2>2. /\ t \in Remote!Session /\ SameCall(s, t) /\ Retimes(s, t) /\ t.state = s.state
        /\ t.timers = s.timers \cup {"silence"}
      BY <2>1 DEF Remote!Arm, Remote!Session, SameCall, Retimes, Remote!Timer
  <2> HIDE DEF t
  <2>3. Core(t) /\ Keeps(s, t) /\ FinalStays(s, t)
      BY <2>2, RetimedKeeps DEF RemoteSettled, Core, SameCall
  <2>4. Sound(t) /\ Owned(t)
      BY <1>0, <1>3, <2>2, <2>3
         DEF RemoteSettled, Sound, Bounded, Awaited, LineFits, Owned, Playing, SameCall,
             Closing,
             Keeps, Retimes
  <2>5. QED
      BY <2>2, <2>3, <2>4 DEF RemoteBecomes, t
<1>4. CASE s.state = "user_speaking" /\ ~(s.finals # {} /\ ~s.inSpeech)
  <2>1. t = s
      BY <1>4 DEF Remote!ResumeListening
  <2>2. Awaited(s)
      BY <1>4 DEF RemoteSettled, Awaited
  <2>3. QED
      BY <1>0, <2>1, <2>2 DEF RemoteBecomes, RemoteSettled, Sound, Keeps, FinalStays
<1>5. QED
    BY <1>1, <1>2, <1>3, <1>4

\* The end of afterTurn: an apology, another turn, or one failure too many.
LEMMA RemoteFailureKeeps ==
    ASSUME NEW s \in Remote!Session, RemoteSettled(s), s.failures < MaxFailures
    PROVE  /\ RemoteBecomes(s, Remote!AfterFailure(s))
           /\ GoesOn(s, Remote!AfterFailure(s))
<1> DEFINE b == [s EXCEPT !.failures = s.failures + 1]
           t == Remote!AfterFailure(s)
<1>1. s.failures + 1 \in 0 .. MaxFailures
    BY VoiceAssumption DEF Remote!Session
<1>2. b \in Remote!Session
    BY <1>1 DEF Remote!Session
<1>3. /\ b.turn = s.turn /\ b.state = s.state /\ b.timers = s.timers
      /\ b.playback = s.playback
      /\ b.transcript = s.transcript /\ b.tearingDown = s.tearingDown
      /\ b.inSpeech = s.inSpeech /\ b.seen = s.seen /\ b.finals = s.finals
      /\ b.superseded = s.superseded /\ b.turnIndex = s.turnIndex
      /\ b.reprompts = s.reprompts /\ b.bridging = s.bridging
    BY DEF Remote!Session
<1>4. t = IF Closing(b) THEN b
          ELSE IF b.failures >= MaxFailures THEN Remote!Goodbye(b)
          ELSE IF b.state = "thinking" THEN Remote!Play(b, Remote!PolicyLine)
          ELSE Remote!ResumeListening(b)
    BY DEF Remote!AfterFailure
<1> HIDE DEF b, t
<1>5. Keeps(s, b)
    BY <1>3 DEF Keeps, InFlight
<1>6. Delivered(b) /\ FinalStays(s, b)
    BY <1>3, <1>5, SameIsDelivered DEF RemoteSettled, Core, Keeps
<1>7. Core(b)
    BY <1>3, <1>5, <1>6 DEF RemoteSettled, Core, Keeps, InFlight, Playing, Closing
<1>8. RemoteSettled(b)
    BY <1>3, <1>7 DEF RemoteSettled, LineFits, Owned, InFlight, Playing, Closing
<1>9. RemoteBecomes(b, t) /\ GoesOn(b, t)
  <2>1. CASE Closing(b)
    <3>1. Sound(b)
        BY <1>8, <2>1 DEF RemoteSettled, Sound, Bounded, Awaited, Closing
    <3>2. QED
        BY <1>2, <1>4, <1>8, <2>1, <3>1 DEF RemoteBecomes, RemoteSettled, Keeps,
               FinalStays, Live, GoesOn
  <2>2. CASE ~Closing(b) /\ b.failures >= MaxFailures
      BY <1>2, <1>4, <1>7, <2>2, RemoteGoodbyeKeeps DEF Live, GoesOn
  <2>3. CASE ~Closing(b) /\ ~(b.failures >= MaxFailures) /\ b.state = "thinking"
    <3>1. Bounded(b)
        BY <1>8, <2>3 DEF RemoteSettled, Bounded
    <3>2. QED
        BY <1>2, <1>4, <1>7, <2>3, <3>1, RemotePolicyKeeps DEF Live, GoesOn
  <2>4. CASE ~Closing(b) /\ ~(b.failures >= MaxFailures) /\ b.state # "thinking"
    <3>1. t = Remote!ResumeListening(b) /\ RemoteBecomes(b, t)
          /\ (Commits(b, t) \/ t.state = b.state)
        BY <1>2, <1>4, <1>8, <2>4, RemoteResumeKeeps
    <3>2. CASE Commits(b, t)
        BY <1>2, <2>4, <3>1, <3>2 DEF Live, GoesOn, Commits, Remote!Session, Remote!State
    <3>3. QED
        BY <3>1, <3>2 DEF Live, GoesOn
  <2>5. QED
      BY <2>1, <2>2, <2>3, <2>4
<1>10. Keeps(s, t) \/ Commits(s, t)
    BY <1>3, <1>5, <1>9 DEF RemoteBecomes, Keeps, Commits, InFlight
<1>11. FinalStays(s, t)
    BY <1>6, <1>9 DEF RemoteBecomes, FinalStays
<1>12. QED
    BY <1>3, <1>9, <1>10, <1>11 DEF RemoteBecomes, Closing, Live, GoesOn, t

\* A turn that is over leaves a session that goes on.
LEMMA RemoteTurnSettles ==
    ASSUME NEW s \in Remote!Session, Sound(s), Owned(s), InFlight(s),
           NEW t \in Remote!Session, ~InFlight(t),
           t.state = s.state, t.inSpeech = s.inSpeech, t.seen = s.seen, t.finals = s.finals,
           t.turnIndex = s.turnIndex, t.timers = s.timers, t.playback = s.playback,
           t.reprompts = s.reprompts, t.bridging = s.bridging, t.tearingDown = s.tearingDown,
           \A n \in Turns : \/ t.transcript[n] = s.transcript[n]
                            \/ n = s.turnIndex /\ t.transcript[n] \in Heard
    PROVE  RemoteSettled(t) /\ FinalStays(s, t)
<1>1. Delivered(t) /\ FinalStays(s, t)
  <2> SUFFICES ASSUME NEW n \in Turns
               PROVE  /\ t.transcript[n] = "playing" <=> Playing(t) /\ t.playback.turn = n
                      /\ n > t.turnIndex => t.transcript[n] = "none"
                      /\ s.transcript[n] \in Heard => t.transcript[n] = s.transcript[n]
      BY DEF Delivered, FinalStays
  <2>1. CASE n = s.turnIndex
    <3>1. s.transcript[n] = "none" /\ ~(Playing(s) /\ s.playback.turn = n)
        BY <2>1 DEF Sound, Core, Delivered
    <3>2. ~(n > t.turnIndex)
        BY <2>1, RemoteIndexIsNatural
    <3>3. QED
        BY <2>1, <3>1, <3>2 DEF Heard, Playing
  <2>2. CASE n # s.turnIndex
      BY <2>2 DEF Sound, Core, Delivered, Playing
  <2>3. QED
      BY <2>1, <2>2
<1>2. Core(t)
    BY <1>1 DEF Sound, Core, Playing, Closing
<1>3. QED
    BY <1>1, <1>2 DEF Sound, RemoteSettled, Bounded, Awaited, LineFits, Owned, Playing,
                      Closing

\* The code after a playback goes on: the next turn, a handoff, the end, or the floor.
LEMMA RemotePlaybackEndKeeps ==
    ASSUME NEW s \in Remote!Session, Sound(s), Owned(s), Playing(s), NEW status \in Heard
    PROVE  LET settled == Remote!SettlePlayback(s, status)
               t == Remote!Await(Remote!AfterPlayback(settled, s.playback.directive),
                                 s.playback.next) IN
           /\ RemoteBecomes(s, t)
           /\ \/ GoesOn(s, t)
              \/ s.state \in Live /\ t.state = "transferring"
<1> DEFINE b == Remote!SettlePlayback(s, status)
           d == s.playback.directive
           next == s.playback.next
           t == Remote!Await(Remote!AfterPlayback(b, d), next)
<1>1. /\ b \in Remote!Session /\ SameCall(s, b) /\ b.turn = s.turn /\ b.state = s.state
      /\ b.timers = s.timers /\ b.tearingDown = s.tearingDown /\ ~Playing(b)
      /\ Settles(s, b)
    BY RemoteSettlePlaybackSets
<1> HIDE DEF b
<1>2. Keeps(s, b)
    BY <1>1 DEF SameCall, Keeps, InFlight
<1>3. Delivered(b) /\ FinalStays(s, b)
    BY <1>1, <1>2, SettledIsDelivered DEF Sound, Core, Keeps
<1>4. Core(b) /\ Bounded(b)
    BY <1>1, <1>2, <1>3 DEF Sound, Core, Bounded, SameCall, Keeps, Closing
<1>5. LineFits(b) /\ Owned(b)
    BY <1>1, <1>2 DEF LineFits, Owned
<1>6. d \in Remote!Directive /\ next \in {"nothing", "bridge", "end"}
    BY DEF Remote!Session, Remote!Playback, Playing
<1>7. s.state # "idle" /\ s.tearingDown = FALSE /\ s.state # "ended"
    BY DEF Sound, Awaited, Core, Remote!Session
<1>8. \A r : RemoteBecomes(b, r) => RemoteBecomes(s, r)
    BY <1>1, <1>2, <1>3, RemoteThrough
<1>9. CASE s.state = "transferring"
  <2>1. Remote!AfterPlayback(b, d) = b
      BY <1>1, <1>9 DEF Remote!AfterPlayback
  <2>2. CASE next = "bridge"
    <3>1. t = [b EXCEPT !.bridging = TRUE]
        BY <1>1, <1>9, <2>1, <2>2, Zenon DEF Remote!Await, Closing
    <3>2. /\ t \in Remote!Session /\ Retimes(b, t) /\ t.state = b.state /\ t.bridging = TRUE
          /\ t.reprompts = b.reprompts
        BY <1>1, <3>1, ZenonT(60) DEF Remote!Session, Retimes
    <3> HIDE DEF t
    <3>3. Core(t) /\ Keeps(b, t) /\ FinalStays(b, t)
        BY <1>1, <1>4, <1>9, <3>2, RetimedKeeps
    <3>4. Sound(t) /\ Owned(t)
        BY <1>1, <1>4, <1>9, <3>2, <3>3
           DEF Sound, Bounded, Awaited, LineFits, Owned, Playing, Closing, Retimes
    <3>5. QED
        BY <1>1, <1>8, <3>2, <3>3, <3>4 DEF RemoteBecomes, Live, GoesOn, t, b
  <2>3. CASE next # "bridge"
    <3>1. next = "nothing"
        BY <1>6, <1>9, <2>3 DEF Sound, LineFits
    <3>2. t = b
        BY <2>1, <3>1 DEF Remote!Await
    <3>3. b.bridging
        BY <1>1, <1>9, <2>3 DEF Sound, Awaited, SameCall
    <3>4. Sound(b)
        BY <1>1, <1>4, <1>5, <1>9, <3>3 DEF Sound, Awaited
    <3>5. QED
        BY <1>1, <1>2, <1>3, <1>5, <3>2, <3>4 DEF RemoteBecomes, Live, GoesOn, t, b
  <2>4. QED
      BY <2>2, <2>3
<1>10. CASE s.state = "ending"
  <2>1. Remote!AfterPlayback(b, d) = b /\ Closing(b)
      BY <1>1, <1>10, Zenon DEF Remote!AfterPlayback, Closing
  <2>2. next \in {"nothing", "end"}
      BY <1>6, <1>10 DEF Sound, LineFits
  <2>3. CASE next = "end"
    <3>1. t = Remote!End(b)
        BY <2>1, <2>3 DEF Remote!Await
    <3>2. QED
        BY <1>1, <1>4, <1>8, <1>10, <3>1, RemoteEndKeeps DEF Live, GoesOn, b
  <2>4. CASE next = "nothing"
    <3>1. t = b
        BY <2>1, <2>4 DEF Remote!Await
    <3>2. Sound(b)
        BY <1>1, <1>4, <1>5, <1>10 DEF Sound, Awaited
    <3>3. QED
        BY <1>1, <1>2, <1>3, <1>5, <3>1, <3>2 DEF RemoteBecomes, Live, GoesOn, t, b
  <2>5. QED
      BY <2>2, <2>3, <2>4
<1>11. CASE s.state \in Live
  <2>1. next = "nothing"
      BY <1>6, <1>11 DEF Sound, LineFits, Live
  <2>2. t = Remote!AfterPlayback(b, d) /\ ~Closing(b)
      BY <1>1, <1>11, <2>1 DEF Remote!Await, Closing, Live
  <2>3. ~b.bridging /\ ~b.tearingDown
      BY <1>1, <1>4, <1>7, <1>11 DEF Core, Live
  <2>4. CASE d = "end_call"
    <3>1. t = Remote!End(b)
        BY <1>1, <1>11, <2>2, <2>4 DEF Remote!AfterPlayback, Live
    <3>2. QED
        BY <1>1, <1>4, <1>8, <1>11, <3>1, RemoteEndKeeps DEF Live, GoesOn, Closing, b
  <2>5. CASE d = "transfer"
    <3> DEFINE c == [b EXCEPT !.state = "transferring"]
               line == [Remote!PolicyLine EXCEPT !.next = "bridge"]
               said == Spoken(c, line)
    <3>1. t = Remote!Play(c, line)
        BY <1>1, <1>11, <2>2, <2>5 DEF Remote!AfterPlayback, Live
    <3>2. /\ c \in Remote!Session /\ SameCall(b, c) /\ Retimes(b, c)
          /\ c.state = "transferring"
        BY <1>1 DEF Remote!Session, Remote!State, SameCall, Retimes
    <3> HIDE DEF c
    <3>3. line \in Remote!Playback /\ line.turn = 0 /\ line.directive = "continue"
          /\ line.next = "bridge"
        BY RemoteLinesAre DEF Remote!PolicyLine
    <3> HIDE DEF line
    <3>0. /\ said \in Remote!Playback /\ said.turn = 0 /\ said.directive = "continue"
          /\ said.next = "bridge" /\ ~said.interruptible /\ said # Silence
        BY <3>2, <3>3, SpokenIs
    <3>4. /\ t \in Remote!Session /\ SameCall(c, t) /\ t.turn = c.turn
          /\ t.tearingDown = c.tearingDown /\ t.state = "transferring" /\ t.playback = said
          /\ Replaces(c, t, said)
        BY <3>1, <3>2, <3>3, RemotePlaySets
    <3> HIDE DEF t, said
    <3>5. Keeps(b, c) /\ Keeps(b, t)
        BY <3>2, <3>4 DEF SameCall, Retimes, Keeps, InFlight
    <3>6. Core(c) /\ FinalStays(b, c)
        BY <1>4, <2>2, <2>3, <3>2, RetimedKeeps DEF Closing
    <3>7. said # Silence /\ 0 \notin Turns
        BY <3>0, Absence
    <3>8. Delivered(t) /\ FinalStays(c, t)
        BY <3>0, <3>4, <3>5, <3>6, <3>7, ReplacedIsDelivered DEF Core, Keeps
    <3>9. Core(t)
        BY <1>4, <2>3, <3>2, <3>4, <3>5, <3>8
           DEF Core, SameCall, Retimes, Keeps, InFlight, Closing
    <3>10. Bounded(t)
        BY <1>4, <2>2, <3>2, <3>4 DEF Bounded, SameCall
    <3>11. Sound(t) /\ Owned(t)
        BY <3>0, <3>4, <3>7, <3>9, <3>10
           DEF Sound, Awaited, LineFits, Owned, Closing, Playing
    <3>12. QED
        BY <1>8, <1>11, <3>4, <3>5, <3>6, <3>8, <3>11
           DEF RemoteBecomes, FinalStays, t, b
  <2>6. CASE d = "continue"
    <3> DEFINE c == Remote!Floor(b)
    <3>1. /\ c \in Remote!Session /\ SameCall(b, c) /\ Retimes(b, c)
          /\ c.state = (IF b.inSpeech THEN "user_speaking" ELSE "listening")
        BY <1>1 DEF Remote!Floor, Remote!Session, Remote!State, SameCall, Retimes
    <3>2. t = IF b.finals # {} /\ ~b.inSpeech /\ ~InFlight(b)
              THEN Remote!CommitUtterance(SpeechSeen(c))
              ELSE IF b.inSpeech THEN c ELSE Remote!Arm(c, "silence")
        BY <1>1, <1>11, <2>2, <2>6 DEF Remote!AfterPlayback, Live, SpeechSeen
    <3> HIDE DEF c, t
    <3>3. Core(c) /\ Keeps(b, c) /\ FinalStays(b, c)
        BY <1>4, <2>2, <2>3, <3>1, RetimedKeeps DEF Closing, SameCall
    <3>4. Bounded(c) /\ LineFits(c) /\ ~Playing(c)
        BY <1>1, <1>4, <1>5, <2>2, <3>1 DEF Bounded, LineFits, SameCall, Retimes, Playing
    <3>5. \A r : RemoteBecomes(c, r) => RemoteBecomes(b, r)
        BY <1>1, <1>11, <3>3, RemoteThrough DEF Live
    <3>6. CASE b.finals # {} /\ ~b.inSpeech /\ ~InFlight(b)
      <4>1. c.finals # {} /\ c.state = "listening" /\ ~InFlight(c)
          BY <3>1, <3>3, <3>6 DEF SameCall, Keeps
      <4>2. RemoteBecomes(c, t) /\ Commits(c, t)
          BY <3>1, <3>2, <3>6, <3>3, <3>4, <4>1, RemoteCommitKeeps
      <4>3. t.state = "thinking"
          BY <4>2 DEF Commits
      <4>4. QED
          BY <1>8, <1>11, <3>2, <3>5, <3>6, <4>2, <4>3 DEF Live, GoesOn, t, b
    <3>7. CASE ~(b.finals # {} /\ ~b.inSpeech /\ ~InFlight(b)) /\ b.inSpeech
      <4>1. t = c /\ c.state = "user_speaking" /\ c.inSpeech
          BY <3>1, <3>2, <3>7 DEF SameCall
      <4>2. Sound(c) /\ Owned(c)
          BY <3>3, <3>4, <4>1 DEF Sound, Awaited, Owned
      <4>3. QED
          BY <1>8, <1>11, <3>1, <3>3, <4>1, <4>2 DEF RemoteBecomes, Live, GoesOn, t, b
    <3>8. CASE ~(b.finals # {} /\ ~b.inSpeech /\ ~InFlight(b)) /\ ~b.inSpeech
      <4>1. t = Remote!Arm(c, "silence") /\ c.state = "listening"
          BY <3>1, <3>2, <3>8
      <4>2. /\ t \in Remote!Session /\ SameCall(c, t) /\ Retimes(c, t)
            /\ t.state = "listening"
            /\ t.timers = c.timers \cup {"silence"}
          BY <3>1, <4>1 DEF Remote!Arm, Remote!Session, SameCall, Retimes, Remote!Timer
      <4>3. Core(t) /\ Keeps(c, t) /\ FinalStays(c, t)
          BY <3>3, <4>1, <4>2, RetimedKeeps DEF Core, SameCall
      <4>4. Sound(t) /\ Owned(t)
          BY <3>4, <4>1, <4>2, <4>3
             DEF Sound, Bounded, Awaited, LineFits, Owned, Playing, SameCall, Retimes,
                 Closing
      <4>5. QED
          BY <1>8, <1>11, <3>5, <4>2, <4>3, <4>4 DEF RemoteBecomes, Live, GoesOn, t, b
    <3>9. QED
        BY <3>6, <3>7, <3>8
  <2>7. QED
      BY <1>6, <2>4, <2>5, <2>6 DEF Remote!Directive
<1>12. QED
    BY <1>1, <1>7, <1>9, <1>10, <1>11 DEF Remote!Session, Remote!State, Live

-------------------------------------------------------------------------------
(* Its events but those that settle a turn.                                 *)

\* No word is heard, and no turn settles.  A handoff does not wait for the turn in flight.
RemoteQuiet(s, t) == RemoteBecomes(s, t) /\ Leads(FALSE, s, t)

\* start() greets.
LEMMA RemoteStartIsQuiet ==
    ASSUME remote \in Remote!Session, Sound(remote), Remote!Start
    PROVE  RemoteQuiet(remote, remote')
<1> DEFINE b == Remote!Arm(remote, "maxDuration")
<1>1. remote' = Remote!Play(b, Remote!PolicyLine) /\ remote.state = "idle"
    BY DEF Remote!Start, Remote!Step
<1>2. /\ b \in Remote!Session /\ Retimes(remote, b) /\ b.state = remote.state
      /\ b.bridging = remote.bridging /\ b.reprompts = remote.reprompts
    BY DEF Remote!Arm, Remote!Session, Remote!Timer, Retimes
<1> HIDE DEF b
<1>3. /\ Core(b) /\ Bounded(b) /\ Keeps(remote, b) /\ FinalStays(remote, b)
    BY <1>2, RetimedIsSound
<1>4. RemoteBecomes(b, remote') /\ remote'.state = "speaking"
    BY <1>1, <1>2, <1>3, RemotePolicyKeeps
<1>5. RemoteBecomes(remote, remote')
    BY <1>2, <1>3, <1>4, RemoteThrough
<1>6. QED
    BY <1>1, <1>4, <1>5 DEF RemoteQuiet, Leads, Live

\* end() closes.
LEMMA RemoteEndIsQuiet ==
    ASSUME remote \in Remote!Session, Sound(remote), Remote!EndSession
    PROVE  RemoteQuiet(remote, remote')
<1>1. remote' = Remote!End(remote) /\ ~remote.tearingDown
    BY DEF Remote!EndSession, Remote!Step
<1>2. RemoteBecomes(remote, remote')
      /\ remote'.state = IF remote.state = "ended" THEN "ended" ELSE "ending"
    BY <1>1, RemoteEndKeeps DEF Sound
<1>3. remote.state # "ended"
    BY <1>1 DEF Sound, Core
<1>4. QED
    BY <1>2, <1>3 DEF RemoteQuiet, Leads, GoesOn, Closing

\* commitUtterance of a session whose final waited for nothing but a timer.
LEMMA RemoteLateCommitKeeps ==
    ASSUME NEW s \in Remote!Session, Core(s), Bounded(s), LineFits(s), Owned(s),
           s.finals # {}, s.state # "idle", NEW c \in {s, SpeechSeen(s)},
           InFlight(s) \/ Closing(s) \/ s.state = "transferring" => Awaited(s)
    PROVE  LET t == Remote!CommitUtterance(c) IN
           RemoteBecomes(s, t) /\ (t.state = s.state \/ Commits(s, t))
<1>1. CASE Closing(s) \/ s.state = "transferring" \/ InFlight(s)
  <2>1. /\ c \in Remote!Session /\ SameCall(s, c) /\ Retimes(s, c)
        /\ c.state = s.state /\ c.timers = s.timers
      BY SeenIs
  <2>2. Remote!CommitUtterance(c) = c
      BY <1>1, <2>1, Zenon DEF Remote!CommitUtterance, Closing, InFlight, Retimes
  <2>3. Core(c) /\ Keeps(s, c) /\ FinalStays(s, c)
      BY <2>1, RetimedKeeps DEF Core, SameCall
  <2>4. Bounded(c) /\ LineFits(c) /\ Owned(c)
      BY <2>1 DEF Bounded, LineFits, Owned, SameCall, Retimes, Playing, Closing
  <2>5. Awaited(c)
      BY <1>1, <2>1 DEF Awaited, SameCall, Retimes, InFlight, Playing
  <2>6. QED
      BY <2>1, <2>2, <2>3, <2>4, <2>5 DEF RemoteBecomes, Sound
<1>2. CASE ~(Closing(s) \/ s.state = "transferring" \/ InFlight(s))
    BY <1>2, RemoteCommitKeeps DEF Closing
<1>3. QED
    BY <1>1, <1>2

\* The caller takes the floor of a session that listens, or aborts the turn that is awaited.
LEMMA RemoteSpeechStartIsQuiet ==
    ASSUME remote \in Remote!Session, Sound(remote), Owned(remote), Remote!SpeechStarts
    PROVE  RemoteQuiet(remote, remote')
<1> DEFINE s == remote
           t == remote'
           rest == s.timers \ {"silence", "finalGrace"}
           b == [Remote!Clear(s, {"silence", "finalGrace"}) EXCEPT !.inSpeech = TRUE]
           a == Remote!Abort(b)
<1>1. /\ t = IF b.state = "listening" THEN [b EXCEPT !.state = "user_speaking"]
             ELSE IF b.state = "thinking" /\ InFlight(b) /\ ~b.turn.aborted
             THEN [a EXCEPT !.state = "user_speaking"]
             ELSE b
      /\ Open(s)
    BY DEF Remote!SpeechStarts, Remote!Step
<1>2. /\ b \in Remote!Session /\ Retimes(s, b) /\ b.state = s.state /\ b.timers = rest
      /\ b.inSpeech = TRUE /\ b.bridging = s.bridging /\ b.reprompts = s.reprompts
    BY Zenon DEF Remote!Clear, Remote!Session, Retimes
<1> HIDE DEF b
<1>3. Core(b) /\ Bounded(b) /\ LineFits(b) /\ Keeps(s, b) /\ FinalStays(s, b)
    BY <1>2, RetimedIsSound
<1>4. /\ a \in Remote!Session /\ SameCall(b, a) /\ Keeps(b, a)
      /\ InFlight(b) => a.turn.number = b.turn.number
      /\ a.timers = b.timers /\ a.tearingDown = b.tearingDown
      /\ a.playback = b.playback /\ a.transcript = b.transcript
    BY <1>2, RemoteAbortSets
<1> HIDE DEF a
<1>5. Owned(b)
    BY <1>2 DEF Owned, Retimes, Playing
<1>6. \A r : RemoteBecomes(b, r) => RemoteBecomes(s, r)
    BY <1>2, <1>3, RemoteThrough
<1>7. ASSUME NEW c \in {b, a}, t = [c EXCEPT !.state = "user_speaking"],
             s.state \in {"listening", "thinking"}
      PROVE  RemoteQuiet(s, t)
  <2>1. /\ c \in Remote!Session /\ SameCall(b, c) /\ Keeps(b, c)
        /\ InFlight(b) => c.turn.number = b.turn.number
        /\ c.timers = b.timers /\ c.tearingDown = b.tearingDown
        /\ c.playback = b.playback /\ c.transcript = b.transcript
      BY <1>2, <1>4, <1>7 DEF SameCall, Keeps
  <2>2. /\ t \in Remote!Session /\ SameCall(c, t) /\ t.state = "user_speaking"
        /\ t.turn = c.turn /\ t.timers = c.timers /\ t.tearingDown = c.tearingDown
        /\ t.playback = c.playback /\ t.transcript = c.transcript
      BY <1>7, <2>1 DEF Remote!Session, Remote!State, SameCall
  <2>3. Keeps(b, t) /\ SameCall(b, t)
      BY <2>1, <2>2 DEF SameCall, Keeps, InFlight
  <2>4. Delivered(t) /\ FinalStays(b, t)
      BY <1>3, <2>1, <2>2, <2>3, SameIsDelivered DEF Core, Keeps
  <2>5. Core(t)
      BY <1>2, <1>3, <1>7, <2>1, <2>2, <2>3, <2>4, SMTT(30)
         DEF Core, SameCall, Keeps, InFlight, Playing, Closing
  <2>6. Bounded(t)
      BY <1>2, <1>3, <1>7, <2>2, <2>3 DEF Bounded, SameCall, Closing
  <2>7. LineFits(t)
      BY <1>2, <1>3, <1>7, <2>1, <2>2 DEF LineFits, Playing
  <2>8. Awaited(t) /\ Owned(t)
      BY <1>2, <2>2, <2>3 DEF Awaited, Owned, SameCall
  <2>9. RemoteBecomes(b, t)
      BY <2>2, <2>3, <2>4, <2>5, <2>6, <2>7, <2>8 DEF RemoteBecomes, Sound
  <2>10. QED
      BY <1>6, <1>7, <2>2, <2>9 DEF RemoteQuiet, Leads, GoesOn, Live
<1>8. CASE s.state = "listening"
    BY <1>1, <1>2, <1>7, <1>8
<1>9. CASE s.state = "thinking" /\ InFlight(b) /\ ~b.turn.aborted
    BY <1>1, <1>2, <1>7, <1>9
<1>10. CASE /\ s.state # "listening"
             /\ ~(s.state = "thinking" /\ InFlight(b) /\ ~b.turn.aborted)
  <2>1. t = b
      BY <1>1, <1>2, <1>10
  <2>2. Awaited(b)
      BY <1>1, <1>2, <1>10 DEF Sound, Awaited, Retimes, Playing, InFlight, Open
  <2>3. RemoteBecomes(s, t)
      BY <1>2, <1>3, <1>5, <2>1, <2>2 DEF RemoteBecomes, Sound
  <2>4. QED
      BY <1>2, <2>1, <2>3 DEF RemoteQuiet, Leads, GoesOn
<1>11. QED
    BY <1>8, <1>9, <1>10

\* An utterance that is over is answered, or waited for.
LEMMA RemoteSpeechEndIsQuiet ==
    ASSUME remote \in Remote!Session, Sound(remote), Owned(remote), Remote!SpeechEnds
    PROVE  RemoteQuiet(remote, remote')
<1> DEFINE s == remote
           t == remote'
           b == [s EXCEPT !.inSpeech = FALSE]
           c == SpeechSeen(b)
<1>1. /\ t = IF b.state \notin {"user_speaking", "listening"} THEN b
             ELSE IF b.finals # {} THEN Remote!CommitUtterance(c)
             ELSE Remote!Arm(c, "finalWait")
      /\ s.state # "idle"
    BY Zenon DEF Remote!SpeechEnds, Remote!Step, SpeechSeen, Remote!Session, Open
<1>2. /\ b \in Remote!Session /\ Retimes(s, b) /\ b.state = s.state
      /\ b.bridging = s.bridging /\ b.reprompts = s.reprompts /\ b.inSpeech = FALSE
      /\ b.timers = s.timers
    BY Zenon DEF Remote!Session, Retimes
<1> HIDE DEF b
<1>3. Core(b) /\ Bounded(b) /\ LineFits(b) /\ Keeps(s, b) /\ FinalStays(s, b) /\ Owned(b)
  <2>1. Owned(b)
      BY <1>2 DEF Owned, Retimes, Playing
  <2>2. QED
      BY <1>2, <2>1, RetimedIsSound
<1>4. b.state = "user_speaking" \/ Awaited(b)
    BY <1>1, <1>2 DEF Sound, Awaited, Retimes, Playing, InFlight
<1>5. RemoteBecomes(b, t) /\ (t.state = b.state \/ Commits(b, t))
  <2>1. CASE b.state \notin {"user_speaking", "listening"}
      BY <1>1, <1>2, <1>3, <1>4, <2>1 DEF RemoteBecomes, Sound, Keeps, FinalStays
  <2>2. CASE b.state \in {"user_speaking", "listening"} /\ b.finals # {}
    <3>1. t = Remote!CommitUtterance(c)
        BY <1>1, <2>2
    <3>2. InFlight(b) \/ Closing(b) \/ b.state = "transferring" => Awaited(b)
        BY <1>4, <2>2 DEF Awaited, Closing
    <3>3. QED
        BY <1>1, <1>2, <1>3, <2>2, <3>1, <3>2, RemoteLateCommitKeeps
  <2>3. CASE b.state \in {"user_speaking", "listening"} /\ b.finals = {}
    <3>1. t = Remote!Arm(c, "finalWait")
        BY <1>1, <2>3
    <3>2. /\ c \in Remote!Session /\ SameCall(b, c) /\ Retimes(b, c)
          /\ c.state = b.state /\ c.timers = b.timers
        BY <1>2, SeenIs
    <3> HIDE DEF c
    <3>3. /\ t \in Remote!Session /\ SameCall(c, t) /\ Retimes(c, t) /\ t.state = c.state
          /\ t.timers = c.timers \cup {"finalWait"}
        BY <3>1, <3>2 DEF Remote!Arm, Remote!Session, SameCall, Retimes, Remote!Timer
    <3> HIDE DEF t
    <3>4. SameCall(b, t) /\ Retimes(b, t) /\ t.state = b.state
          /\ t.timers = b.timers \cup {"finalWait"}
        BY <3>2, <3>3 DEF SameCall, Retimes
    <3>5. Core(t) /\ Keeps(b, t) /\ FinalStays(b, t)
        BY <1>3, <3>4, RetimedKeeps DEF Core, SameCall
    <3>6. Sound(t) /\ Owned(t)
        BY <1>3, <1>4, <2>3, <3>4, <3>5
           DEF Sound, Bounded, Awaited, LineFits, Owned, Playing, SameCall, Closing, Keeps,
               Retimes
    <3>7. QED
        BY <3>3, <3>4, <3>5, <3>6 DEF RemoteBecomes, t
  <2>4. QED
      BY <2>1, <2>2, <2>3
<1>6. RemoteBecomes(s, t)
    BY <1>2, <1>3, <1>5, RemoteThrough
<1>7. QED
    BY <1>2, <1>5, <1>6 DEF Commits, RemoteQuiet, Leads, GoesOn, Live, Remote!Session,
                            Remote!State

\* It is no less sound a session that holds it.
LEMMA RemoteHeardIsSound ==
    ASSUME NEW s \in Remote!Session, Sound(s), Owned(s), NEW u \in Utterances,
           u \notin s.seen
    PROVE  LET b == Hears(s, u) IN
           /\ b \in Remote!Session /\ Sound(b) /\ Owned(b) /\ FinalStays(s, b)
           /\ b.seen = s.seen \cup {u} /\ b.finals = s.finals \cup {u}
           /\ b.superseded = s.superseded /\ b.turnIndex = s.turnIndex /\ b.turn = s.turn
           /\ b.state = s.state /\ b.inSpeech = s.inSpeech /\ b.timers = s.timers
<1> DEFINE b == Hears(s, u)
<1>1. /\ b \in Remote!Session
      /\ b.seen = s.seen \cup {u} /\ b.finals = s.finals \cup {u}
      /\ b.superseded = s.superseded /\ b.turnIndex = s.turnIndex /\ b.turn = s.turn
      /\ b.state = s.state /\ b.inSpeech = s.inSpeech /\ b.timers = s.timers
      /\ b.playback = s.playback /\ b.transcript = s.transcript
      /\ b.reprompts = s.reprompts /\ b.failures = s.failures
      /\ b.bridging = s.bridging /\ b.tearingDown = s.tearingDown
    BY Zenon DEF Hears, Remote!Session
<1> HIDE DEF b
<1>2. b.seen \ b.finals = s.seen \ s.finals /\ b.finals \subseteq b.seen
    BY <1>1 DEF Sound, Core
<1>3. Delivered(b) /\ FinalStays(s, b)
    BY <1>1, SameIsDelivered DEF Sound, Core, InFlight
<1>4. Core(b)
    BY <1>1, <1>2, <1>3, Zenon DEF Sound, Core, InFlight, Playing, Closing
<1>5. Bounded(b) /\ LineFits(b) /\ Owned(b)
    BY <1>1 DEF Sound, Bounded, LineFits, Owned, InFlight, Playing, Closing
<1>6. Awaited(b)
    BY <1>1 DEF Sound, Awaited, InFlight, Playing
<1>7. QED
    BY <1>1, <1>3, <1>4, <1>5, <1>6 DEF Sound, b

\* A session that clears timers, and is awaited still.
LEMMA RemoteClearedIs ==
    ASSUME NEW s \in Remote!Session, Sound(s), Owned(s), NEW gone
    PROVE  LET b == Remote!Clear(s, gone) IN
           /\ b \in Remote!Session /\ SameCall(s, b) /\ Retimes(s, b) /\ b.state = s.state
           /\ b.timers = s.timers \ gone
           /\ Core(b) /\ Bounded(b) /\ LineFits(b) /\ Keeps(s, b) /\ FinalStays(s, b)
           /\ Owned(b)
<1> DEFINE b == Remote!Clear(s, gone)
<1>1. /\ b \in Remote!Session /\ SameCall(s, b) /\ Retimes(s, b) /\ b.state = s.state
      /\ b.timers = s.timers \ gone
    BY DEF Remote!Clear, Remote!Session, SameCall, Retimes
<1> HIDE DEF b
<1>2. Core(b) /\ Bounded(b) /\ LineFits(b) /\ Keeps(s, b) /\ FinalStays(s, b)
    BY <1>1, RetimedIsSound DEF SameCall
<1>3. Owned(b)
    BY <1>1 DEF Owned, Retimes, InFlight, Playing
<1>4. QED
    BY <1>1, <1>2, <1>3 DEF b

\* A final is answered at once if the caller was ever seen to end.
LEMMA RemoteFinalKeeps ==
    ASSUME NEW s \in Remote!Session, Sound(s), Owned(s), Open(s), s.finals # {}
    PROVE  LET t == Remote!OnFinal(s) IN
           RemoteBecomes(s, t) /\ (t.state = s.state \/ Commits(s, t))
<1> DEFINE t == Remote!OnFinal(s)
<1>1. CASE s.inSpeech
    BY <1>1 DEF Remote!OnFinal, RemoteBecomes, Keeps, FinalStays
<1>2. CASE ~s.inSpeech /\ s.speechEnded
  <2>1. t = Remote!CommitUtterance(s)
      BY <1>2 DEF Remote!OnFinal
  <2>2. s.state # "idle"
      BY DEF Open
  <2>3. QED
      BY <2>1, <2>2, RemoteLateCommitKeeps DEF Sound
<1>3. CASE ~s.inSpeech /\ ~s.speechEnded
  <2>1. t = Remote!Arm(s, "finalGrace")
      BY <1>3 DEF Remote!OnFinal
  <2>2. /\ t \in Remote!Session /\ SameCall(s, t) /\ Retimes(s, t) /\ t.state = s.state
        /\ t.timers = s.timers \cup {"finalGrace"}
      BY <2>1 DEF Remote!Arm, Remote!Session, SameCall, Retimes, Remote!Timer
  <2> HIDE DEF t
  <2>3. Core(t) /\ Bounded(t) /\ LineFits(t) /\ Keeps(s, t) /\ FinalStays(s, t)
      BY <2>2, RetimedIsSound DEF SameCall
  <2>4. Awaited(t) /\ Owned(t)
      BY <2>2 DEF Sound, Awaited, Owned, SameCall, Retimes, InFlight, Playing, Open
  <2>5. QED
      BY <2>2, <2>3, <2>4 DEF RemoteBecomes, Sound, t
<1>4. QED
    BY <1>1, <1>2, <1>3

\* A worker that fails ends the session.
LEMMA RemoteFailureIsQuiet ==
    ASSUME remote \in Remote!Session, Sound(remote), Owned(remote), Remote!WorkerFails
    PROVE  RemoteQuiet(remote, remote')
<1>1. remote' = Remote!End(remote) /\ ~Closing(remote)
    BY Zenon DEF Remote!WorkerFails, Remote!Step, Remote!JustEnd, Open
<1>2. /\ RemoteBecomes(remote, remote')
      /\ remote'.state = IF remote.state = "ended" THEN "ended" ELSE "ending"
    BY <1>1, RemoteEndKeeps DEF Sound
<1>3. QED
    BY <1>1, <1>2 DEF RemoteQuiet, Leads, GoesOn, Closing

\* The timers of an utterance.
LEMMA RemoteWaitIsQuiet ==
    ASSUME remote \in Remote!Session, Sound(remote), Owned(remote),
           Remote!FinalWaitFires \/ Remote!FinalGraceFires
    PROVE  RemoteQuiet(remote, remote')
<1> DEFINE s == remote
           t == remote'
<1>1. s.timers \cap Waits # {} /\ s.state # "idle"
    BY DEF Remote!FinalWaitFires, Remote!FinalGraceFires, Remote!Fires, Waits, Sound,
           Awaited
<1>4. ASSUME NEW gone \in {{"finalWait"}, {"finalGrace"}}, Remote!Clear(s, gone).finals # {},
             NEW c \in {Remote!Clear(s, gone), SpeechSeen(Remote!Clear(s, gone))},
             t = Remote!CommitUtterance(c)
      PROVE  RemoteQuiet(s, t)
  <2> DEFINE b == Remote!Clear(s, gone)
  <2>1. /\ b \in Remote!Session /\ SameCall(s, b) /\ Retimes(s, b) /\ b.state = s.state
        /\ b.timers = s.timers \ gone
        /\ Core(b) /\ Bounded(b) /\ LineFits(b) /\ Keeps(s, b) /\ FinalStays(s, b)
        /\ Owned(b)
      BY RemoteClearedIs
  <2>2. c \in {b, SpeechSeen(b)} /\ b.finals # {}
      BY <1>4
  <2> HIDE DEF b
  <2>4. InFlight(b) \/ Closing(b) \/ b.state = "transferring" => Awaited(b)
      BY <1>4, <2>1, <2>2
         DEF Sound, Awaited, SameCall, Retimes, InFlight, Playing, Closing
  <2>5. /\ RemoteBecomes(b, t)
        /\ t.state = b.state \/ Commits(b, t)
      BY <1>1, <1>4, <2>1, <2>2, <2>4, RemoteLateCommitKeeps
  <2>6. RemoteBecomes(s, t)
      BY <2>1, <2>5, RemoteThrough
  <2>7. t.state = s.state \/ (t.state = "thinking" /\ s.state \in Live)
      BY <2>1, <2>5 DEF Commits, Remote!Session, Remote!State, Live
  <2>8. QED
      BY <2>6, <2>7 DEF RemoteQuiet, Leads, GoesOn, Live
<1>5. ASSUME NEW gone \in {{"finalWait"}, {"finalGrace"}}, t = Remote!Clear(s, gone),
             gone = {"finalWait"} => t.finals = {} /\ t.state # "user_speaking"
      PROVE  RemoteQuiet(s, t)
  <2>1. /\ t \in Remote!Session /\ SameCall(s, t) /\ Retimes(s, t) /\ t.state = s.state
        /\ t.timers = s.timers \ gone
        /\ Core(t) /\ Bounded(t) /\ LineFits(t) /\ Keeps(s, t) /\ FinalStays(s, t)
        /\ Owned(t)
      BY <1>5, RemoteClearedIs
  <2>2. Awaited(t)
      BY <1>1, <1>5, <2>1 DEF Sound, Awaited, SameCall, Retimes, InFlight, Playing
  <2>3. QED
      BY <2>1, <2>2 DEF RemoteBecomes, Sound, RemoteQuiet, Leads, GoesOn
<1>6. CASE Remote!FinalWaitFires
  <2> DEFINE b == Remote!Clear(s, {"finalWait"})
  <2>1. t = IF b.finals # {} THEN Remote!CommitUtterance(b)
            ELSE IF b.state = "user_speaking"
            THEN Remote!Arm([b EXCEPT !.state = "listening"], "silence")
            ELSE b
      BY <1>6 DEF Remote!FinalWaitFires, Remote!Fires, Remote!Step
  <2>2. CASE b.finals # {}
      BY <1>4, <2>1, <2>2
  <2>3. CASE b.finals = {} /\ b.state # "user_speaking"
      BY <1>5, <2>1, <2>3
  <2>4. CASE b.finals = {} /\ b.state = "user_speaking"
    <3>1. /\ b \in Remote!Session /\ SameCall(s, b) /\ Retimes(s, b) /\ b.state = s.state
          /\ b.timers = s.timers \ {"finalWait"}
          /\ Core(b) /\ Bounded(b) /\ LineFits(b) /\ Keeps(s, b) /\ FinalStays(s, b)
          /\ Owned(b)
        BY RemoteClearedIs
    <3>2. t = Remote!Arm([b EXCEPT !.state = "listening"], "silence")
          /\ b.state = "user_speaking"
        BY <2>1, <2>4
    <3> HIDE DEF b
    <3>3. /\ t \in Remote!Session /\ SameCall(b, t) /\ Retimes(b, t)
          /\ t.state = "listening"
          /\ t.timers = b.timers \cup {"silence"}
      <4> DEFINE d == [b EXCEPT !.state = "listening"]
      <4>1. /\ d \in Remote!Session /\ SameCall(b, d) /\ Retimes(b, d)
            /\ d.state = "listening" /\ d.timers = b.timers
          BY <3>1 DEF Remote!Session, Remote!State, SameCall, Retimes
      <4> HIDE DEF d
      <4>2. t = [d EXCEPT !.timers = b.timers \cup {"silence"}]
          BY <3>2, <4>1 DEF Remote!Arm, d
      <4>3. b.timers \cup {"silence"} \in SUBSET Remote!Timer
          BY <3>1 DEF Remote!Session, Remote!Timer
      <4>4. QED
          BY <4>1, <4>2, <4>3 DEF Remote!Session, SameCall, Retimes
    <3> HIDE DEF t
    <3>4. Core(t) /\ Keeps(b, t) /\ FinalStays(b, t)
      <4>1. ~b.bridging /\ ~Closing(b) /\ ~Closing(t) /\ t.bridging = b.bridging
          BY <3>1, <3>2, <3>3 DEF Core, Closing, SameCall
      <4>2. QED
          BY <3>1, <3>3, <4>1, RetimedKeeps
    <3>5. Bounded(t) /\ LineFits(t)
        BY <3>1, <3>2, <3>3
           DEF Bounded, LineFits, SameCall, Retimes, Playing, Closing
    <3>6. Awaited(t) /\ Owned(t)
        BY <3>1, <3>2, <3>3 DEF Awaited, Owned, SameCall, Retimes, Playing, InFlight
    <3>7. RemoteBecomes(s, t)
        BY <3>1, <3>3, <3>4, <3>5, <3>6, RemoteThrough DEF RemoteBecomes, Sound
    <3>8. QED
        BY <3>1, <3>2, <3>3, <3>7 DEF RemoteQuiet, Leads, GoesOn, Live, t
  <2>5. QED
      BY <2>2, <2>3, <2>4
<1>7. CASE Remote!FinalGraceFires
  <2> DEFINE b == Remote!Clear(s, {"finalGrace"})
  <2>1. t = IF ~b.inSpeech /\ b.finals # {} THEN Remote!CommitUtterance(SpeechSeen(b)) ELSE b
      BY <1>7 DEF Remote!FinalGraceFires, Remote!Fires, Remote!Step, SpeechSeen
  <2>2. {"finalGrace"} # {"finalWait"}
      BY "finalGrace" # "finalWait"
  <2>3. QED
      BY <1>4, <1>5, <2>1, <2>2
<1>8. QED
    BY <1>6, <1>7

\* The timers of the silence and of the call.
LEMMA RemoteCeilingIsQuiet ==
    ASSUME remote \in Remote!Session, Sound(remote), Owned(remote),
           Remote!SilenceFires \/ Remote!MaxDurationFires
    PROVE  RemoteQuiet(remote, remote')
<1> DEFINE s == remote
           t == remote'
<1>1. CASE Remote!SilenceFires
  <2> DEFINE b == Remote!Clear(s, {"silence"})
             c == [b EXCEPT !.reprompts = b.reprompts + 1]
  <2>1. t = IF b.state # "listening" THEN b
            ELSE IF c.reprompts > MaxReprompts THEN Remote!Goodbye(c)
            ELSE Remote!Play(c, Remote!PolicyLine)
      BY <1>1 DEF Remote!SilenceFires, Remote!Fires, Remote!Step
  <2>2. /\ b \in Remote!Session /\ SameCall(s, b) /\ Retimes(s, b) /\ b.state = s.state
        /\ b.timers = s.timers \ {"silence"}
        /\ Core(b) /\ Bounded(b) /\ LineFits(b) /\ Keeps(s, b) /\ FinalStays(s, b)
        /\ Owned(b)
      BY RemoteClearedIs
  <2>3. s.state # "idle"
      BY <1>1 DEF Remote!SilenceFires, Remote!Fires, Sound, Awaited
  <2> HIDE DEF b
  <2>4. CASE b.state # "listening"
    <3>1. t = b
        BY <2>1, <2>4
    <3>2. Awaited(b)
        BY <2>2, <2>3, <2>4 DEF Sound, Awaited, SameCall, Retimes, InFlight, Playing
    <3>3. QED
        BY <2>2, <3>1, <3>2 DEF RemoteBecomes, Sound, RemoteQuiet, Leads, GoesOn
  <2>5. CASE b.state = "listening"
    <3>1. b.reprompts \in 0 .. MaxReprompts
        BY <2>2, <2>5, VoiceAssumption DEF Remote!Session, Bounded, Closing
    <3>2. b.reprompts + 1 \in 0 .. MaxReprompts + 1
        BY <3>1, VoiceAssumption
    <3>3. /\ c \in Remote!Session /\ Retimes(b, c) /\ c.state = "listening"
          /\ c.reprompts = b.reprompts + 1 /\ c.bridging = b.bridging
          /\ c.failures = b.failures
        BY <2>2, <2>5, <3>2 DEF Remote!Session, Retimes
    <3>4. t = IF c.reprompts > MaxReprompts THEN Remote!Goodbye(c)
              ELSE Remote!Play(c, Remote!PolicyLine)
        BY <2>1, <2>5
    <3> HIDE DEF c
    <3>5. Core(c) /\ Keeps(b, c) /\ FinalStays(b, c)
        BY <2>2, <2>5, <3>3, RetimedKeeps, Zenon DEF Core, Closing
    <3>6. ~Closing(c)
        BY <3>3 DEF Closing
    <3>7. RemoteBecomes(c, t) /\ t.state \in {"ending", "speaking"}
      <4>1. CASE c.reprompts > MaxReprompts
          BY <3>3, <3>4, <3>5, <3>6, <4>1, RemoteGoodbyeKeeps
      <4>2. CASE ~(c.reprompts > MaxReprompts)
        <5>1. Bounded(c)
            BY <2>2, <2>5, <3>3, <4>2 DEF Bounded, Closing
        <5>2. QED
            BY <3>3, <3>4, <3>5, <4>2, <5>1, RemotePolicyKeeps
      <4>3. QED
          BY <4>1, <4>2
    <3>8. RemoteBecomes(b, t)
        BY <2>5, <3>3, <3>5, <3>7, RemoteThrough
    <3>9. RemoteBecomes(s, t)
        BY <2>2, <3>8, RemoteThrough
    <3>10. QED
        BY <2>2, <2>5, <3>7, <3>9 DEF RemoteQuiet, Leads, GoesOn, Closing, Live
  <2>6. QED
      BY <2>4, <2>5
<1>2. CASE Remote!MaxDurationFires
  <2> DEFINE b == Remote!Clear(s, {"maxDuration"})
  <2>1. t = Remote!Goodbye(b) /\ s.state # "idle"
      BY <1>2 DEF Remote!MaxDurationFires, Remote!Fires, Remote!Step, Sound, Awaited
  <2>2. /\ b \in Remote!Session /\ SameCall(s, b) /\ Retimes(s, b) /\ b.state = s.state
        /\ b.timers = s.timers \ {"maxDuration"}
        /\ Core(b) /\ Bounded(b) /\ LineFits(b) /\ Keeps(s, b) /\ FinalStays(s, b)
        /\ Owned(b)
      BY RemoteClearedIs
  <2> HIDE DEF b
  <2>3. CASE Closing(b)
    <3>1. t = b
        BY <2>1, <2>3 DEF Remote!Goodbye
    <3>2. Awaited(b)
        BY <2>3 DEF Awaited, Closing
    <3>3. QED
        BY <2>2, <3>1, <3>2 DEF RemoteBecomes, Sound, RemoteQuiet, Leads, GoesOn
  <2>4. CASE ~Closing(b)
    <3>1. RemoteBecomes(b, t) /\ t.state = "ending"
        BY <2>1, <2>2, <2>4, RemoteGoodbyeKeeps
    <3>2. RemoteBecomes(s, t)
        BY <2>2, <3>1, RemoteThrough
    <3>3. QED
        BY <2>2, <2>4, <3>1, <3>2 DEF RemoteQuiet, Leads, GoesOn, Closing
  <2>5. QED
      BY <2>3, <2>4
<1>3. QED
    BY <1>1, <1>2

\* The carrier's answer ends the session, or gives it the floor again.
LEMMA RemoteBridgeIsQuiet ==
    ASSUME remote \in Remote!Session, Sound(remote), Owned(remote), NEW ok \in BOOLEAN,
           Remote!BridgeAnswers(ok)
    PROVE  RemoteQuiet(remote, remote')
<1> DEFINE s == remote
           t == remote'
           b == [s EXCEPT !.bridging = FALSE]
           c == [b EXCEPT !.state = "listening"]
<1>1. /\ t = IF ok THEN Remote!End(b)
             ELSE IF Closing(b) THEN b
             ELSE Remote!Play(c, Remote!PolicyLine)
      /\ s.bridging
    BY DEF Remote!BridgeAnswers, Remote!Step
<1>2. /\ b \in Remote!Session /\ Retimes(s, b) /\ b.state = s.state /\ b.bridging = FALSE
      /\ b.reprompts = s.reprompts /\ b.timers = s.timers
    BY Zenon DEF Remote!Session, Retimes
<1>3. /\ c \in Remote!Session /\ Retimes(b, c) /\ c.state = "listening"
      /\ c.bridging = FALSE
      /\ c.reprompts = b.reprompts
    BY ZenonT(60), <1>2 DEF Remote!Session, Remote!State, Retimes
<1> HIDE DEF b, c
<1>4. s.state \in {"transferring", "ending", "ended"}
    BY <1>1 DEF Sound, Core
<1>5. Core(b) /\ Keeps(s, b) /\ FinalStays(s, b)
    BY <1>2, RetimedKeeps DEF Sound
<1>6. Bounded(b) /\ LineFits(b) /\ Owned(b)
    BY <1>2 DEF Sound, Bounded, LineFits, Owned, Retimes, Playing, InFlight, Closing
<1>7. CASE ok
  <2>1. RemoteBecomes(b, t) /\ t.state = (IF b.state = "ended" THEN "ended" ELSE "ending")
      BY <1>1, <1>2, <1>5, <1>7, RemoteEndKeeps
  <2>2. RemoteBecomes(s, t)
      BY <1>2, <1>5, <2>1, RemoteThrough
  <2>3. QED
      BY <1>2, <1>4, <2>1, <2>2 DEF RemoteQuiet, Leads, GoesOn, Closing
<1>8. CASE ~ok /\ Closing(b)
  <2>1. t = b
      BY <1>1, <1>8
  <2>2. Awaited(b)
      BY <1>8 DEF Awaited, Closing
  <2>3. QED
      BY <1>2, <1>5, <1>6, <2>1, <2>2 DEF RemoteBecomes, Sound, RemoteQuiet, Leads, GoesOn
<1>9. CASE ~ok /\ ~Closing(b)
  <2>1. t = Remote!Play(c, Remote!PolicyLine) /\ s.state = "transferring"
      BY <1>1, <1>2, <1>4, <1>9 DEF Closing
  <2>2. Core(c) /\ Keeps(b, c) /\ FinalStays(b, c)
      BY <1>2, <1>3, <1>5, <2>1, RetimedKeeps DEF Closing
  <2>3. Bounded(c)
      BY <1>2, <1>3, <1>6, <2>1 DEF Bounded, Retimes, Closing
  <2>4. RemoteBecomes(c, t) /\ Keeps(c, t) /\ t.state = "speaking"
      BY <1>3, <2>1, <2>2, <2>3, RemotePolicyKeeps
  <2>5. Keeps(s, t)
      BY <1>5, <2>2, <2>4 DEF Keeps
  <2>6. FinalStays(s, t)
      BY <1>5, <2>2, <2>4 DEF RemoteBecomes, FinalStays
  <2>7. QED
      BY <2>1, <2>4, <2>5, <2>6 DEF RemoteBecomes, RemoteQuiet, Leads, Live
<1>10. QED
    BY <1>7, <1>8, <1>9

\* onEnded.
LEMMA RemoteEndedIsQuiet ==
    ASSUME remote \in Remote!Session, Sound(remote), Owned(remote), Remote!Ended
    PROVE  RemoteQuiet(remote, remote')
<1> DEFINE s == remote
           t == remote'
<1>1. /\ t = [s EXCEPT !.state = "ended"] /\ s.state = "ending" /\ s.tearingDown
      /\ ~InFlight(s)
    BY DEF Remote!Ended, Remote!Step
<1>2. /\ t \in Remote!Session /\ SameCall(s, t) /\ Retimes(s, t) /\ t.state = "ended"
      /\ t.timers = s.timers
    BY <1>1, ZenonT(60) DEF Remote!Session, Remote!State, SameCall, Retimes
<1> HIDE DEF t
<1>3. Keeps(s, t)
    BY <1>2 DEF Retimes, Keeps, InFlight
<1>4. Delivered(t) /\ FinalStays(s, t)
    BY <1>2, <1>3, SameIsDelivered DEF Sound, Core, Retimes, Keeps
<1>5. ~Playing(t) /\ ~InFlight(t)
    BY <1>1, <1>2 DEF Sound, Core, Retimes, Playing, InFlight
<1>6. Core(t)
    BY <1>1, <1>2, <1>4, <1>5 DEF Sound, Core, SameCall, Retimes, Closing
<1>7. Bounded(t) /\ Awaited(t) /\ LineFits(t) /\ Owned(t)
    BY <1>2, <1>5 DEF Bounded, Awaited, LineFits, Owned, Closing
<1>8. QED
    BY <1>1, <1>2, <1>3, <1>4, <1>6, <1>7 DEF RemoteBecomes, Sound, RemoteQuiet, Leads, t

\* A change of the turn in flight, or of the line that plays, that keeps what they are.
LEMMA RemoteMarkedIsQuiet ==
    ASSUME remote \in Remote!Session, Sound(remote), Owned(remote),
           remote' \in Remote!Session,
           SameCall(remote, remote'), Keeps(remote, remote'),
           remote'.state = remote.state, remote'.timers = remote.timers,
           remote'.transcript = remote.transcript,
           remote'.tearingDown = remote.tearingDown,
           InFlight(remote) =>
               /\ remote'.turn.number = remote.turn.number
               /\ remote'.turn.aborted /\ remote.turn.timedOut => remote'.turn.timedOut
               /\ remote'.turn.aborted => remote.turn.aborted \/ remote'.turn.timedOut,
           Playing(remote') <=> Playing(remote),
           Playing(remote) =>
               /\ remote'.playback.turn = remote.playback.turn
               /\ remote'.playback.next = remote.playback.next
               /\ remote'.playback.directive = remote.playback.directive
               /\ remote'.playback.interruptible = remote.playback.interruptible
    PROVE  RemoteQuiet(remote, remote')
<1> DEFINE s == remote
           t == remote'
<1>1. Delivered(t) /\ FinalStays(s, t)
    BY DEF Sound, Core, SameCall, Keeps, Delivered, FinalStays
<1>2. Core(t)
    BY <1>1 DEF Sound, Core, SameCall, Keeps, Closing
<1>3. Bounded(t) /\ LineFits(t)
    BY DEF Sound, Bounded, LineFits, SameCall, Closing
<1>4. Awaited(t) /\ Owned(t)
    BY DEF Sound, Awaited, Owned, SameCall, Keeps
<1>5. QED
    BY <1>1, <1>2, <1>3, <1>4 DEF RemoteBecomes, Sound, RemoteQuiet, Leads, GoesOn

\* The deadline of a turn aborts it.
LEMMA RemoteTimeoutIsQuiet ==
    ASSUME remote \in Remote!Session, Sound(remote), Owned(remote), Remote!TurnTimesOut
    PROVE  RemoteQuiet(remote, remote')
<1> DEFINE s == remote
           t == remote'
           gone == [s.turn EXCEPT !.timedOut = TRUE, !.aborted = TRUE]
<1>1. InFlight(s) /\ s.turn \in Remote!Turn
    BY Zenon DEF Remote!TurnTimesOut, InFlight, Remote!Session
<1>2. /\ gone \in Remote!Turn /\ gone.words = s.turn.words /\ gone.number = s.turn.number
      /\ gone.timedOut = TRUE
    BY <1>1, Zenon DEF Remote!Turn
<1>3. t = [s EXCEPT !.turn = gone]
    BY Zenon DEF Remote!TurnTimesOut, Remote!Step, Remote!Session
<1>4. gone # NoTurn
    BY <1>2, RemoteAbsence
<1> HIDE DEF gone
<1>5. /\ t \in Remote!Session /\ SameCall(s, t) /\ t.turn = gone
      /\ t.state = s.state /\ t.timers = s.timers /\ t.tearingDown = s.tearingDown
      /\ t.playback = s.playback /\ t.transcript = s.transcript
    BY <1>2, <1>3 DEF Remote!Session, SameCall
<1>6. Keeps(s, t)
    BY <1>1, <1>2, <1>4, <1>5 DEF Keeps, SameCall, InFlight
<1>7. QED
    BY <1>2, <1>5, <1>6, RemoteMarkedIsQuiet DEF Playing

\* What the worker reports of a line: its first chunk.
LEMMA RemoteReportIsQuiet ==
    ASSUME remote \in Remote!Session, Sound(remote), Owned(remote), Remote!ChunkPlays
    PROVE  RemoteQuiet(remote, remote')
<1> DEFINE s == remote
           t == remote'
           line == [s.playback EXCEPT !.acked = TRUE]
<1>1. Playing(s) /\ s.playback \in Remote!Playback
    BY Zenon DEF Remote!ChunkPlays, Playing, Remote!Session
<1>2. /\ line \in Remote!Playback /\ line.turn = s.playback.turn
      /\ line.next = s.playback.next /\ line.directive = s.playback.directive
      /\ line.interruptible = s.playback.interruptible
    BY <1>1, Zenon DEF Remote!Playback
<1>3. t = [s EXCEPT !.playback = line]
    BY DEF Remote!ChunkPlays, Remote!Step
<1> HIDE DEF line
<1>4. /\ t \in Remote!Session /\ SameCall(s, t) /\ t.turn = s.turn
      /\ t.state = s.state /\ t.timers = s.timers /\ t.tearingDown = s.tearingDown
      /\ t.playback = line /\ t.transcript = s.transcript
    BY <1>2, <1>3 DEF Remote!Session, SameCall
<1>5. Keeps(s, t)
    BY <1>4 DEF Keeps, SameCall, InFlight
<1>6. Playing(t)
    BY <1>2, <1>4, RemoteAbsence DEF Playing
<1>7. QED
    BY <1>1, <1>2, <1>4, <1>5, <1>6, RemoteMarkedIsQuiet

\* The worker cut the line: the caller has the floor.
LEMMA RemoteCutIsQuiet ==
    ASSUME remote \in Remote!Session, Sound(remote), Owned(remote),
           Remote!PlaybackInterrupted
    PROVE  RemoteQuiet(remote, remote')
<1> DEFINE s == remote
           t == remote'
           b == Remote!SettlePlayback(s, "interrupted")
<1>1. 0 \in 0 .. MaxReprompts + 1 /\ ~(0 > MaxReprompts)
    BY VoiceAssumption
<1>2. s.state \in Live
    BY DEF Remote!PlaybackInterrupted, Owned, Sound, Core, Awaited, Live, Remote!Session,
           Remote!State
<1>3. /\ b \in Remote!Session /\ SameCall(s, b) /\ b.turn = s.turn /\ b.timers = s.timers
      /\ b.tearingDown = s.tearingDown /\ ~Playing(b) /\ Settles(s, b)
    BY RemoteSettlePlaybackSets DEF Heard
<1> DEFINE c == [b EXCEPT !.reprompts = 0]
           state == IF b.inSpeech THEN "user_speaking" ELSE "listening"
           timers == IF b.inSpeech THEN b.timers ELSE b.timers \cup {"silence"}
<1>4. t = [[c EXCEPT !.state = state] EXCEPT !.timers = timers]
  <2>1. c.inSpeech = b.inSpeech /\ c.timers = b.timers /\ c = [c EXCEPT !.timers = b.timers]
      BY <1>3, Zenon DEF Remote!Session
  <2> HIDE DEF b, c
  <2>2. t = IF c.inSpeech THEN Remote!Floor(c) ELSE Remote!Arm(Remote!Floor(c), "silence")
      BY DEF Remote!PlaybackInterrupted, Remote!Step, b, c
  <2>3. QED
      BY <2>1, <2>2 DEF Remote!Floor, Remote!Arm
<1> HIDE DEF b
<1>13. state \in Remote!State /\ timers \subseteq Remote!Timer /\ b.timers \subseteq timers
    BY <1>3 DEF Remote!Session, Remote!State, Remote!Timer
<1>14. t = [[[b EXCEPT !.reprompts = 0] EXCEPT !.state = state] EXCEPT !.timers = timers]
    BY <1>4
<1>5. /\ t \in Remote!Session /\ t.turn = b.turn /\ t.state = state /\ t.timers = timers
      /\ t.reprompts = 0 /\ t.inSpeech = b.inSpeech /\ t.seen = b.seen
      /\ t.finals = b.finals /\ t.superseded = b.superseded /\ t.turnIndex = b.turnIndex
      /\ t.failures = b.failures /\ t.bridging = b.bridging
      /\ t.tearingDown = b.tearingDown
      /\ t.playback = b.playback /\ t.transcript = b.transcript
  <2> HIDE DEF c, state, timers, t
  <2>1. QED
      BY ZenonT(60), <1>1, <1>3, <1>13, <1>14 DEF Remote!Session
<1>6. Keeps(s, t)
    BY <1>3, <1>5 DEF SameCall, Keeps, InFlight
<1>7. ~Playing(t) /\ Settles(s, t)
    BY <1>3, <1>5 DEF Playing, Settles
<1>8. Delivered(t) /\ FinalStays(s, t)
    BY <1>6, <1>7, SettledIsDelivered DEF Sound, Core, Keeps
<1>9. Core(t)
    BY <1>2, <1>3, <1>5, <1>6, <1>8 DEF Sound, Core, SameCall, Keeps, InFlight, Closing,
           Live
<1>10. Bounded(t)
    BY <1>1, <1>2, <1>3, <1>5 DEF Sound, Bounded, SameCall, Closing, Live
<1>11. Awaited(t) /\ LineFits(t) /\ Owned(t)
    BY <1>1, <1>3, <1>5, <1>7 DEF Awaited, LineFits, Owned, SameCall
<1>12. QED
    BY <1>2, <1>5, <1>6, <1>8, <1>9, <1>10, <1>11
       DEF RemoteBecomes, Sound, RemoteQuiet, Leads, GoesOn, Live

\* The end of a line, heard or not.
LEMMA RemoteLineEndIsQuiet ==
    ASSUME remote \in Remote!Session, Sound(remote), Owned(remote),
           Remote!PlaybackCompletes \/ Remote!WatchdogFires \/ Remote!PlaybackFails
    PROVE  RemoteQuiet(remote, remote')
<1> DEFINE s == remote
           t == remote'
<1>1. CASE Remote!PlaybackCompletes \/ Remote!WatchdogFires
  <2>1. PICK status \in {"complete", "interrupted"} :
            t = Remote!Await(Remote!AfterPlayback(Remote!SettlePlayback(s, status),
                                                  s.playback.directive),
                             s.playback.next)
      BY <1>1 DEF Remote!PlaybackCompletes, Remote!WatchdogFires, Remote!Step
  <2>2. Playing(s) /\ status \in Heard
      BY <1>1 DEF Remote!PlaybackCompletes, Remote!WatchdogFires, Heard
  <2>3. QED
      BY <2>1, <2>2, RemotePlaybackEndKeeps DEF RemoteQuiet, Leads
<1>2. CASE Remote!PlaybackFails
  <2> DEFINE b == Remote!SettlePlayback(s, "interrupted")
             next == s.playback.next
  <2>1. t = Remote!Await(Remote!JustEnd(b), next)
      BY <1>2 DEF Remote!PlaybackFails, Remote!Step
  <2>2. /\ b \in Remote!Session /\ SameCall(s, b) /\ b.turn = s.turn /\ b.state = s.state
        /\ b.timers = s.timers /\ b.tearingDown = s.tearingDown /\ ~Playing(b)
        /\ Settles(s, b)
      BY RemoteSettlePlaybackSets DEF Heard
  <2> HIDE DEF b
  <2>3. Keeps(s, b)
      BY <2>2 DEF SameCall, Keeps, InFlight
  <2>4. Delivered(b) /\ FinalStays(s, b)
      BY <2>2, <2>3, SettledIsDelivered DEF Sound, Core, Keeps
  <2>5. Core(b) /\ Bounded(b)
      BY <2>2, <2>3, <2>4 DEF Sound, Core, Bounded, SameCall, Keeps, Closing
  <2>6. LineFits(b) /\ Owned(b)
      BY <2>2, <2>3 DEF LineFits, Owned
  <2>7. /\ RemoteBecomes(b, Remote!End(b))
        /\ Remote!End(b).state = IF b.state = "ended" THEN "ended" ELSE "ending"
      BY <2>2, <2>5, RemoteEndKeeps
  <2>8. Remote!End(Remote!End(b)) = Remote!End(b)
      BY <2>2 DEF Remote!End, Remote!Session
  <2>9. s.state # "ended"
      BY <1>2 DEF Remote!PlaybackFails, Sound, Core
  <2>10. t \in {b, Remote!End(b)} /\ (t = b => Closing(b))
      BY <2>1, <2>7, <2>8, Zenon DEF Remote!Await, Remote!JustEnd, Closing
  <2>11. CASE t = b /\ Closing(b)
    <3>1. Awaited(b)
        BY <2>11 DEF Awaited, Closing
    <3>2. QED
        BY <2>2, <2>3, <2>4, <2>5, <2>6, <2>11, <3>1
           DEF RemoteBecomes, Sound, RemoteQuiet, Leads, GoesOn
  <2>12. CASE t = Remote!End(b)
    <3>1. RemoteBecomes(s, t)
        BY <2>2, <2>3, <2>4, <2>7, <2>12, RemoteThrough
    <3>2. QED
        BY <2>2, <2>7, <2>9, <2>12, <3>1 DEF RemoteQuiet, Leads, GoesOn, Closing
  <2>13. QED
      BY <2>10, <2>11, <2>12
<1>3. QED
    BY <1>1, <1>2

-------------------------------------------------------------------------------
(* Its events that settle a turn.                                           *)

\* The words of a turn fall into those that are kept for the next, were answered, refused
\* or dropped.
RemoteDisposes(s, b) ==
    \E done, told, lost \in SUBSET s.turn.words :
        /\ Sorted(s.turn.words, b.superseded, done, told, lost)
        /\ remoteAnswered' = remoteAnswered \cup done
        /\ remoteRefused' = remoteRefused \cup told
        /\ remoteDropped' = remoteDropped \cup lost

\* What a settled turn leaves.
RemoteSettlement(s, t) ==
    \E b \in Remote!Session :
        /\ TurnIsOver(Remote!Session, s, b)
        /\ RemoteDisposes(s, b)
        /\ RemoteBecomes(b, t)
        /\ GoesOn(b, t)

\* It leaves a session that goes on.
LEMMA RemoteOverIsSettled ==
    ASSUME NEW s \in Remote!Session, Sound(s), Owned(s), InFlight(s),
           NEW words \in SUBSET Utterances, NEW transcript \in [Turns -> Remote!Delivery],
           \A n \in Turns : \/ transcript[n] = s.transcript[n]
                            \/ n = s.turnIndex /\ transcript[n] \in Heard
    PROVE  LET b == Over(s, words, transcript) IN
           /\ TurnIsOver(Remote!Session, s, b) /\ RemoteSettled(b)
           /\ b.superseded = words /\ b.failures < MaxFailures
<1> DEFINE b == Over(s, words, transcript)
<1>1. /\ b \in Remote!Session /\ b.turn = NoTurn /\ b.state = s.state
      /\ b.inSpeech = s.inSpeech
      /\ b.seen = s.seen /\ b.finals = s.finals /\ b.turnIndex = s.turnIndex
      /\ b.timers = s.timers /\ b.playback = s.playback /\ b.reprompts = s.reprompts
      /\ b.bridging = s.bridging /\ b.tearingDown = s.tearingDown
      /\ b.transcript = transcript /\ b.superseded = words /\ b.failures = s.failures
    BY Zenon DEF Over, Remote!Session
<1> HIDE DEF b
<1>2. ~InFlight(b)
    BY <1>1 DEF InFlight
<1>3. RemoteSettled(b) /\ FinalStays(s, b)
    BY <1>1, <1>2, RemoteTurnSettles
<1>4. s.failures < MaxFailures
    BY DEF Sound, Core
<1>5. QED
    BY <1>1, <1>2, <1>3, <1>4 DEF TurnIsOver, b

\* resumeListening goes on with a call that was not waiting for the turn.
LEMMA RemoteResumeGoesOn ==
    ASSUME NEW b \in Remote!Session, RemoteSettled(b), b.failures < MaxFailures,
           b.state # "thinking"
    PROVE  RemoteBecomes(b, Remote!ResumeListening(b))
    /\ GoesOn(b, Remote!ResumeListening(b))
<1> DEFINE t == Remote!ResumeListening(b)
<1>1. b.failures \in Nat /\ MaxFailures \in Nat
    BY VoiceAssumption DEF Remote!Session
<1>2. ~(b.failures >= MaxFailures)
    BY <1>1
<1>3. RemoteBecomes(b, t) /\ (Commits(b, t) \/ t.state = b.state)
    BY <1>2, RemoteResumeKeeps
<1>4. QED
    BY <1>3 DEF Commits, GoesOn, Live, Remote!Session, Remote!State

\* A reply is played by the session that waits for it.
LEMMA RemoteReplyKeeps ==
    ASSUME NEW s \in Remote!Session, Sound(s), Owned(s), InFlight(s), s.state = "thinking",
           NEW directive \in Remote!Directive, NEW b,
           b = [s EXCEPT !.turn = NoTurn, !.failures = 0]
    PROVE  LET t == Remote!Play(b, Remote!Reply(s.turn.number, directive)) IN
           /\ TurnIsOver(Remote!Session, s, b) /\ b.superseded = {}
           /\ RemoteBecomes(b, t) /\ GoesOn(b, t)
<1> DEFINE line == Remote!Reply(s.turn.number, directive)
           said == Spoken(b, line)
           t == Remote!Play(b, line)
<1>1. s.turn \in Remote!Turn /\ s.turn.number \in Turns
    BY DEF InFlight, Remote!Session, Remote!Turn
<1>2. /\ line \in Remote!Playback /\ line.turn = s.turn.number /\ line.next = "nothing"
    BY Zenon, <1>1, RemoteLinesAre DEF Remote!Reply, Remote!PolicyLine
<1>3. s.turn.number = s.turnIndex /\ s.superseded = {}
    BY DEF Sound, Core
<1> HIDE DEF line
<1>0. /\ said \in Remote!Playback /\ said.turn = s.turn.number /\ said.next = "nothing"
      /\ said # Silence
    BY <1>2, SpokenIs
<1>4. 0 \in 0 .. MaxFailures /\ ~(0 >= MaxFailures)
    BY VoiceAssumption
<1>5. /\ b \in Remote!Session /\ b.turn = NoTurn /\ b.state = "thinking"
      /\ b.inSpeech = s.inSpeech
      /\ b.seen = s.seen /\ b.finals = s.finals /\ b.turnIndex = s.turnIndex
      /\ b.timers = s.timers /\ b.playback = s.playback /\ b.reprompts = s.reprompts
      /\ b.bridging = s.bridging /\ b.tearingDown = s.tearingDown
      /\ b.transcript = s.transcript /\ b.superseded = {} /\ b.failures = 0
    BY <1>3, <1>4, Zenon DEF Remote!Session
<1>6. ~InFlight(b)
    BY <1>5 DEF InFlight
<1>7. Delivered(b) /\ FinalStays(s, b)
    BY <1>5, <1>6, SameIsDelivered, Zenon DEF Sound, Core
<1>8. TurnIsOver(Remote!Session, s, b)
    BY <1>5, <1>6, <1>7 DEF TurnIsOver
<1>9. /\ t \in Remote!Session /\ SameCall(b, t) /\ t.turn = b.turn
      /\ t.tearingDown = b.tearingDown
      /\ t.state = "speaking" /\ t.timers = b.timers \ {"silence"} /\ t.playback = said
      /\ Replaces(b, t, said)
    BY <1>2, <1>5, RemotePlaySets, Zenon
<1> HIDE DEF t, said
<1>10. ~InFlight(t) /\ Playing(t)
    BY <1>0, <1>5, <1>9 DEF InFlight, Playing
<1>11. Delivered(t) /\ FinalStays(b, t)
  <2>1. ASSUME NEW n \in Turns, n = said.turn
        PROVE  /\ b.transcript[n] \notin Heard
               /\ ~(n > b.turnIndex)
               /\ ~(InFlight(t) /\ n = b.turnIndex)
    <3>1. n = s.turnIndex
        BY <1>0, <1>3, <2>1
    <3>2. s.transcript[n] = "none"
        BY <3>1 DEF Sound, Core, Delivered
    <3>3. ~(n > b.turnIndex)
        BY <1>5, <3>1, RemoteIndexIsNatural
    <3>4. QED
        BY <1>5, <1>10, <3>2, <3>3 DEF Heard
  <2>3. t.turnIndex = b.turnIndex
      BY <1>9 DEF SameCall
  <2>4. QED
      BY <1>0, <1>7, <1>9, <1>10, <2>1, <2>3, ReplacedIsDelivered, Zenon
<1>12. Core(t)
    BY <1>5, <1>9, <1>10, <1>11 DEF Sound, Core, SameCall, Closing
<1>13. Bounded(t)
    BY <1>4, <1>5, <1>9 DEF Sound, Bounded, SameCall, Closing
<1>14. Awaited(t) /\ LineFits(t)
    BY <1>0, <1>9, <1>10 DEF Awaited, LineFits
<1>15. Owned(t)
    BY <1>5, <1>9, <1>10 DEF Owned
<1>16. Keeps(b, t)
    BY <1>6, <1>9, <1>10 DEF Keeps, SameCall
<1>17. QED
    BY <1>5, <1>8, <1>9, <1>11, <1>12, <1>13, <1>14, <1>15, <1>16
       DEF RemoteBecomes, Sound, GoesOn, Live, t, line

\* The handler returns.
LEMMA RemoteAnswerIsSettled ==
    ASSUME remote \in Remote!Session, Sound(remote), Owned(remote),
           NEW directive \in Remote!Directive,
           Remote!TurnAnswers(directive)
    PROVE  RemoteSettlement(remote, remote')
<1> DEFINE s == remote
           t == remote'
           over == Remote!SettleTurn(s)
           played == [over EXCEPT !.failures = 0]
           unheard == Remote!Record(over, s.turn.number, "not_delivered")
           transcript == [s.transcript EXCEPT ![s.turn.number] = "not_delivered"]
<1>1. /\ InFlight(s) /\ remoteRefused' = remoteRefused
      /\ \E text \in Texts(s.turn.words) :
            /\ remoteAnswered' = remoteAnswered \cup text
            /\ remoteDropped' = remoteDropped \cup (s.turn.words \ text)
      /\ t = IF ~s.turn.aborted /\ over.state = "thinking"
             THEN Remote!Play(played, Remote!Reply(s.turn.number, directive))
             ELSE IF s.turn.aborted /\ ~s.turn.timedOut THEN Remote!ResumeListening(unheard)
             ELSE Remote!AfterFailure(unheard)
    BY DEF Remote!TurnAnswers
<1>7. ASSUME NEW b, b.superseded = {}
      PROVE  RemoteDisposes(s, b)
  <2>1. PICK text \in SUBSET s.turn.words :
            /\ remoteAnswered' = remoteAnswered \cup text
            /\ remoteDropped' = remoteDropped \cup (s.turn.words \ text)
      BY <1>1, TextsAre
  <2>2. Sorted(s.turn.words, b.superseded, text, {}, s.turn.words \ text)
      BY <1>7, PartsAreSorted
  <2>3. remoteRefused' = remoteRefused \cup {}
      BY <1>1
  <2>4. text \in SUBSET s.turn.words /\ {} \in SUBSET s.turn.words
        /\ s.turn.words \ text \in SUBSET s.turn.words
      OBVIOUS
  <2>5. QED
      BY <2>1, <2>2, <2>3, <2>4, Zenon DEF RemoteDisposes
<1>2. s.turn \in Remote!Turn /\ s.turn.number \in Turns /\ s.turn.number = s.turnIndex
    BY <1>1 DEF InFlight, Remote!Session, Remote!Turn, Sound, Core
<1>3. over.state = s.state /\ s.superseded = {} /\ s.turn.number # 0
  <2>1. s.turn.number # 0
      BY <1>2, RemoteAbsence
  <2>2. QED
      BY <1>1, <2>1 DEF Remote!SettleTurn, Remote!Session, Sound, Core
<1>4. CASE ~s.turn.aborted /\ s.state = "thinking"
  <2>1. t = Remote!Play(played, Remote!Reply(s.turn.number, directive))
      BY <1>1, <1>3, <1>4
  <2>2. played = [s EXCEPT !.turn = NoTurn, !.failures = 0]
      BY DEF Remote!SettleTurn
  <2> HIDE DEF played
  <2>3. /\ TurnIsOver(Remote!Session, s, played) /\ played.superseded = {}
        /\ RemoteBecomes(played, t) /\ GoesOn(played, t)
      BY Zenon, <1>1, <1>4, <2>1, <2>2, RemoteReplyKeeps
  <2>4. QED
      BY <1>7, <2>3 DEF RemoteSettlement, TurnIsOver
<1>5. CASE ~(~s.turn.aborted /\ s.state = "thinking")
  <2>1. unheard = Over(s, {}, transcript)
      BY <1>3, Zenon DEF Over, Remote!Record, Remote!SettleTurn, Remote!Session
  <2>2. transcript \in [Turns -> Remote!Delivery]
      BY <1>2 DEF Remote!Session, Remote!Delivery
  <2>3. \A n \in Turns : \/ transcript[n] = s.transcript[n]
                         \/ n = s.turnIndex /\ transcript[n] \in Heard
      BY <1>2 DEF Remote!Session, Heard
  <2>4. t = IF s.turn.aborted /\ ~s.turn.timedOut THEN Remote!ResumeListening(unheard)
            ELSE Remote!AfterFailure(unheard)
      BY <1>1, <1>3, <1>5
  <2> HIDE DEF unheard, transcript
  <2>5. /\ TurnIsOver(Remote!Session, s, unheard) /\ RemoteSettled(unheard)
        /\ unheard.superseded = {} /\ unheard.failures < MaxFailures
      BY <1>1, <2>1, <2>2, <2>3, RemoteOverIsSettled
  <2>6. unheard \in Remote!Session /\ unheard.state = s.state
      BY <2>5 DEF TurnIsOver
  <2>7. RemoteBecomes(unheard, t) /\ GoesOn(unheard, t)
    <3>1. CASE s.turn.aborted /\ ~s.turn.timedOut
      <4>1. s.state # "thinking"
          BY <3>1 DEF Sound, Awaited
      <4>2. QED
          BY <2>4, <2>5, <2>6, <3>1, <4>1, RemoteResumeGoesOn
    <3>2. CASE ~(s.turn.aborted /\ ~s.turn.timedOut)
        BY <2>4, <2>5, <2>6, <3>2, RemoteFailureKeeps
    <3>3. QED
        BY <3>1, <3>2
  <2>8. QED
      BY <1>7, <2>5, <2>6, <2>7 DEF RemoteSettlement
<1>6. QED
    BY <1>4, <1>5

\* The handler throws, or gives its turn up.
LEMMA RemoteLossIsSettled ==
    ASSUME remote \in Remote!Session, Sound(remote), Owned(remote),
           Remote!TurnFails \/ Remote!TurnIsCancelled
    PROVE  RemoteSettlement(remote, remote')
<1> DEFINE s == remote
           t == remote'
           over == Remote!SettleTurn(s)
           words == s.turn.words
<1>1. InFlight(s) /\ remoteAnswered' = remoteAnswered \cup {}
    BY DEF Remote!TurnFails, Remote!TurnIsCancelled
<1>2. s.turn \in Remote!Turn /\ words \subseteq Utterances /\ s.superseded = {}
    BY <1>1 DEF InFlight, Remote!Session, Remote!Turn, Sound, Core
<1>3. /\ over = Over(s, {}, s.transcript)
      /\ \A kept : [over EXCEPT !.superseded = kept] = Over(s, kept, s.transcript)
    BY <1>2, Zenon DEF Over, Remote!SettleTurn, Remote!Session
<1>4. \/ Remote!TurnFails
      \/ /\ Remote!TurnIsCancelled /\ s.turn.aborted /\ ~s.turn.timedOut
         /\ \E kept \in SUBSET words :
               /\ IF Closing(over) THEN t = over /\ kept = {}
                  ELSE t = Remote!ResumeListening([over EXCEPT !.superseded = kept])
               /\ remoteRefused' = remoteRefused \cup {} /\ remoteDropped' = remoteDropped \cup (words \ kept)
    BY TextsAre DEF Remote!TurnIsCancelled
<1>5. s.transcript \in [Turns -> Remote!Delivery]
    BY DEF Remote!Session
<1>6. {} \in SUBSET words /\ \A part \in SUBSET words : words \ part \in SUBSET words
    OBVIOUS
<1>7. CASE Remote!TurnFails
  <2>1. PICK told \in SUBSET words :
            remoteRefused' = remoteRefused \cup told /\ remoteDropped' = remoteDropped \cup (words \ told)
    <3>1. PICK text \in SUBSET words :
              LET told == IF Remote!Apologises(over) THEN text ELSE {} IN
              remoteRefused' = remoteRefused \cup told /\ remoteDropped' = remoteDropped \cup (words \ told)
        BY <1>7, TextsAre DEF Remote!TurnFails
    <3>2. QED
        BY <3>1
  <2>2. t = Remote!AfterFailure(over)
      BY <1>7 DEF Remote!TurnFails
  <2> HIDE DEF over, words
  <2>3. /\ TurnIsOver(Remote!Session, s, over) /\ RemoteSettled(over) /\ over.superseded = {}
        /\ over.failures < MaxFailures
      BY <1>1, <1>3, <1>5, RemoteOverIsSettled
  <2>4. over \in Remote!Session
      BY <2>3 DEF TurnIsOver
  <2>5. RemoteBecomes(over, t) /\ GoesOn(over, t)
      BY <2>2, <2>3, <2>4, RemoteFailureKeeps
  <2>6. Sorted(words, over.superseded, {}, told, words \ told)
      BY <2>3, PartsAreSorted
  <2>7. RemoteDisposes(s, over)
      BY <1>1, <1>6, <2>1, <2>6 DEF RemoteDisposes, words
  <2>8. QED
      BY <2>3, <2>4, <2>5, <2>7 DEF RemoteSettlement
<1>8. CASE /\ Remote!TurnIsCancelled /\ s.turn.aborted /\ ~s.turn.timedOut
           /\ \E kept \in SUBSET words :
                 /\ IF Closing(over) THEN t = over /\ kept = {}
                    ELSE t = Remote!ResumeListening([over EXCEPT !.superseded = kept])
                 /\ remoteRefused' = remoteRefused \cup {} /\ remoteDropped' = remoteDropped \cup (words \ kept)
  <2>1. PICK kept \in SUBSET words :
            /\ IF Closing(over) THEN t = over /\ kept = {}
               ELSE t = Remote!ResumeListening([over EXCEPT !.superseded = kept])
            /\ remoteRefused' = remoteRefused \cup {} /\ remoteDropped' = remoteDropped \cup (words \ kept)
      BY <1>8
  <2> DEFINE b == Over(s, kept, s.transcript)
  <2>2. IF Closing(over) THEN t = b ELSE t = Remote!ResumeListening(b)
      BY <1>3, <2>1
  <2>3. over.state = s.state
      BY DEF Remote!SettleTurn, Remote!Session
  <2> HIDE DEF over, words, b
  <2>4. kept \in SUBSET Utterances
      BY <1>2, <2>1
  <2>5. /\ TurnIsOver(Remote!Session, s, b) /\ RemoteSettled(b) /\ b.superseded = kept
        /\ b.failures < MaxFailures
      BY <1>1, <1>5, <2>4, RemoteOverIsSettled DEF b
  <2>6. b \in Remote!Session /\ b.state = s.state /\ s.state # "thinking"
      BY <1>8, <2>5 DEF TurnIsOver, Sound, Awaited
  <2>7. RemoteBecomes(b, t) /\ GoesOn(b, t)
    <3>1. CASE Closing(over)
      <4>1. t = b /\ Closing(b)
          BY <2>2, <2>3, <2>6, <3>1 DEF Closing
      <4>2. Sound(b)
          BY <2>5, <4>1 DEF RemoteSettled, Sound, Bounded, Awaited, Closing
      <4>3. QED
          BY <2>5, <2>6, <4>1, <4>2 DEF RemoteBecomes, RemoteSettled, Keeps, FinalStays, GoesOn
    <3>2. CASE ~Closing(over)
        BY <2>2, <2>5, <2>6, <3>2, RemoteResumeGoesOn
    <3>3. QED
        BY <3>1, <3>2
  <2>8. Sorted(words, b.superseded, {}, {}, words \ kept)
      BY <2>1, <2>5, PartsAreSorted
  <2>9. RemoteDisposes(s, b)
      BY <1>1, <1>6, <2>1, <2>8 DEF RemoteDisposes, words
  <2>10. QED
      BY <2>5, <2>6, <2>7, <2>9 DEF RemoteSettlement
<1>9. QED
    BY <1>4, <1>7, <1>8

-------------------------------------------------------------------------------
(* The engine of the worker as a whole.                                     *)

\* A final is held, and may begin a turn.
RemoteHearing(s, t) ==
    \E u \in Utterances :
        u \notin s.seen /\ RemoteBecomes(Hears(s, u), t) /\ GoesOn(Hears(s, u), t)

\* What holds of it between any two events.
RemoteKept ==
    /\ remote \in Remote!Session
    /\ Sound(remote)
    /\ Owned(remote)
    /\ remoteAnswered \subseteq Utterances
    /\ remoteRefused \subseteq Utterances
    /\ remoteDropped \subseteq Utterances
    /\ Accounted(remote, remoteAnswered, remoteRefused, remoteDropped)

\* The property of the run is that of the proofs.
LEMMA RemoteWordsAre ==
    Remote!EveryWordAccounted
    <=> Accounted(remote, remoteAnswered, remoteRefused, remoteDropped)
<1> DEFINE asked == IF InFlight(remote) THEN remote.turn.words ELSE {}
           places == <<remote.finals, remote.superseded, asked, remoteAnswered, remoteRefused,
                       remoteDropped>>
<1>1. Remote!EveryWordAccounted <=> Spread(remote.seen, places)
    BY Zenon DEF Remote!EveryWordAccounted, Spread
<1>2. Accounted(remote, remoteAnswered, remoteRefused, remoteDropped)
      <=> Split(remote.seen, remote.finals, remote.superseded, asked, remoteAnswered,
                remoteRefused, remoteDropped)
    BY DEF Accounted
<1> HIDE DEF asked
<1>3. QED
    BY <1>1, <1>2, SixPlaces

\* An event is quiet, hears a final or settles the turn.
LEMMA RemoteEventIs ==
    ASSUME RemoteKept, Remote!Next
    PROVE  \/ RemoteQuiet(remote, remote') /\ UNCHANGED <<remoteAnswered, remoteRefused, remoteDropped>>
           \/ RemoteHearing(remote, remote') /\ UNCHANGED <<remoteAnswered, remoteRefused, remoteDropped>>
           \/ RemoteSettlement(remote, remote')
<1> USE DEF RemoteKept
<1>1. CASE Remote!Start
    BY <1>1, RemoteStartIsQuiet DEF Remote!Start, Remote!Step
<1>2. CASE Remote!Timers
  <2>1. CASE Remote!FinalWaitFires \/ Remote!FinalGraceFires
      BY <2>1, RemoteWaitIsQuiet DEF Remote!FinalWaitFires, Remote!FinalGraceFires,
             Remote!Fires, Remote!Step
  <2>2. CASE Remote!SilenceFires \/ Remote!MaxDurationFires
      BY <2>2, RemoteCeilingIsQuiet DEF Remote!SilenceFires, Remote!MaxDurationFires,
             Remote!Fires, Remote!Step
  <2>3. QED
      BY <1>2, <2>1, <2>2 DEF Remote!Timers
<1>3. CASE Remote!Caller
  <2>1. CASE Remote!SpeechStarts
      BY <2>1, RemoteSpeechStartIsQuiet DEF Remote!SpeechStarts, Remote!Step
  <2>2. CASE Remote!SpeechEnds
      BY <2>2, RemoteSpeechEndIsQuiet DEF Remote!SpeechEnds, Remote!Step
  <2>4. ASSUME NEW u \in Utterances, Remote!Final(u)
        PROVE  RemoteHearing(remote, remote') /\ UNCHANGED <<remoteAnswered, remoteRefused, remoteDropped>>
    <3> DEFINE b == Hears(remote, u)
               t == remote'
    <3>1. /\ Open(remote) /\ u \notin remote.seen /\ t = Remote!OnFinal(b)
          /\ UNCHANGED <<remoteAnswered, remoteRefused, remoteDropped>>
      <4>1. u \in Nat /\ \A v \in remote.seen : v < u
          BY <2>4, VoiceAssumption DEF Remote!Final
      <4>2. u \notin remote.seen
          BY <4>1
      <4>3. QED
          BY <2>4, <4>2 DEF Remote!Final, Remote!Step, Hears
    <3>2. /\ b \in Remote!Session /\ Sound(b) /\ Owned(b)
          /\ b.finals = remote.finals \cup {u}
          /\ b.state = remote.state
        BY <3>1, RemoteHeardIsSound
    <3> HIDE DEF b
    <3>3. Open(b) /\ b.finals # {}
        BY <3>1, <3>2 DEF Open, Closing
    <3>4. RemoteBecomes(b, t) /\ (t.state = b.state \/ Commits(b, t))
        BY <3>1, <3>2, <3>3, RemoteFinalKeeps
    <3>5. GoesOn(b, t)
        BY <3>2, <3>4 DEF Commits, GoesOn, Live, Remote!Session, Remote!State
    <3>6. QED
        BY <3>1, <3>4, <3>5 DEF RemoteHearing, b
  <2>5. QED
      BY <1>3, <2>1, <2>2, <2>4 DEF Remote!Caller
<1>4. CASE Remote!Turning
  <2>1. CASE Remote!TurnTimesOut
      BY <2>1, RemoteTimeoutIsQuiet DEF Remote!TurnTimesOut, Remote!Step
  <2>2. CASE Remote!TurnFails \/ Remote!TurnIsCancelled
      BY <2>2, RemoteLossIsSettled
  <2>3. ASSUME NEW directive \in Remote!Directive, Remote!TurnAnswers(directive)
        PROVE  RemoteSettlement(remote, remote')
      BY <2>3, RemoteAnswerIsSettled
  <2>4. QED
      BY <1>4, <2>1, <2>2, <2>3 DEF Remote!Turning
<1>5. CASE Remote!Speaking
  <2>1. CASE Remote!ChunkPlays
      BY <2>1, RemoteReportIsQuiet DEF Remote!ChunkPlays, Remote!Step
  <2>2. CASE Remote!PlaybackCompletes \/ Remote!WatchdogFires \/ Remote!PlaybackFails
      BY <2>2, RemoteLineEndIsQuiet
         DEF Remote!PlaybackCompletes, Remote!WatchdogFires, Remote!PlaybackFails,
             Remote!Step
  <2>3. CASE Remote!PlaybackInterrupted
      BY <2>3, RemoteCutIsQuiet DEF Remote!PlaybackInterrupted, Remote!Step
  <2>4. QED
      BY <1>5, <2>1, <2>2, <2>3 DEF Remote!Speaking
<1>6. CASE Remote!WorkerFails
    BY <1>6, RemoteFailureIsQuiet DEF Remote!WorkerFails, Remote!Step
<1>7. CASE Remote!EndSession
    BY <1>7, RemoteEndIsQuiet DEF Remote!EndSession, Remote!Step
<1>8. CASE Remote!Ended
    BY <1>8, RemoteEndedIsQuiet DEF Remote!Ended, Remote!Step
<1>9. ASSUME NEW ok \in BOOLEAN, Remote!BridgeAnswers(ok)
      PROVE  RemoteQuiet(remote, remote') /\ UNCHANGED <<remoteAnswered, remoteRefused, remoteDropped>>
    BY <1>9, RemoteBridgeIsQuiet, Zenon DEF Remote!BridgeAnswers, Remote!Step
<1>10. QED
    BY <1>1, <1>2, <1>3, <1>4, <1>5, <1>6, <1>7, <1>8, <1>9 DEF Remote!Next

\* Each keeps the session sound, its deliveries final and its words accounted for.
LEMMA RemoteEventKeeps ==
    ASSUME RemoteKept, Remote!Next
    PROVE  RemoteKept' /\ FinalStays(remote, remote')
<1> DEFINE s == remote
           t == remote'
<1>1. CASE RemoteQuiet(s, t) /\ UNCHANGED <<remoteAnswered, remoteRefused, remoteDropped>>
  <2>1. t \in Remote!Session /\ Sound(t) /\ Owned(t) /\ FinalStays(s, t)
      BY <1>1 DEF RemoteQuiet, RemoteBecomes
  <2>2. Accounted(t, remoteAnswered, remoteRefused, remoteDropped)
      BY <1>1, KeptIsAccounted DEF RemoteKept, RemoteQuiet, RemoteBecomes
  <2>3. QED
      BY <1>1, <2>1, <2>2 DEF RemoteKept
<1>2. CASE RemoteHearing(s, t) /\ UNCHANGED <<remoteAnswered, remoteRefused, remoteDropped>>
  <2>1. PICK u \in Utterances : u \notin s.seen /\ RemoteBecomes(Hears(s, u), t)
      BY <1>2 DEF RemoteHearing
  <2> DEFINE b == Hears(s, u)
  <2>2. /\ FinalStays(s, b)
        /\ b.seen = s.seen \cup {u} /\ b.finals = s.finals \cup {u}
        /\ b.superseded = s.superseded /\ b.turn = s.turn
      BY <2>1, RemoteHeardIsSound DEF RemoteKept
  <2> HIDE DEF b
  <2>3. Accounted(b, remoteAnswered, remoteRefused, remoteDropped)
      BY <2>1, <2>2, HeardIsAccounted DEF RemoteKept
  <2>4. RemoteBecomes(b, t)
      BY <2>1 DEF b
  <2>5. Accounted(t, remoteAnswered, remoteRefused, remoteDropped)
      BY <2>3, <2>4, KeptIsAccounted DEF RemoteBecomes
  <2>6. t \in Remote!Session /\ Sound(t) /\ Owned(t) /\ FinalStays(s, t)
      BY <2>2, <2>4 DEF RemoteBecomes, FinalStays
  <2>7. QED
      BY <1>2, <2>5, <2>6 DEF RemoteKept
<1>3. CASE RemoteSettlement(s, t)
  <2>1. PICK b \in Remote!Session :
            TurnIsOver(Remote!Session, s, b) /\ RemoteDisposes(s, b) /\ RemoteBecomes(b, t)
      BY <1>3 DEF RemoteSettlement
  <2>2. Accounted(b, remoteAnswered', remoteRefused', remoteDropped')
    <3>1. PICK done, told, lost \in SUBSET s.turn.words :
              /\ Sorted(s.turn.words, b.superseded, done, told, lost)
              /\ remoteAnswered' = remoteAnswered \cup done
              /\ remoteRefused' = remoteRefused \cup told
              /\ remoteDropped' = remoteDropped \cup lost
        BY <2>1 DEF RemoteDisposes
    <3>2. QED
        BY <2>1, <3>1, OverIsAccounted DEF RemoteKept, TurnIsOver, Sound, Core
  <2>3. Accounted(t, remoteAnswered', remoteRefused', remoteDropped')
      BY <2>1, <2>2, KeptIsAccounted DEF RemoteBecomes
  <2>4. t \in Remote!Session /\ Sound(t) /\ Owned(t) /\ FinalStays(s, t)
      BY <2>1 DEF RemoteBecomes, TurnIsOver, FinalStays
  <2>5. s.turn.words \subseteq Utterances
      BY <2>1 DEF RemoteKept, TurnIsOver, InFlight, Remote!Session, Remote!Turn
  <2>6. remoteAnswered' \subseteq Utterances /\ remoteRefused' \subseteq Utterances
        /\ remoteDropped' \subseteq Utterances
      BY <2>1, <2>5 DEF RemoteKept, RemoteDisposes
  <2>7. QED
      BY <2>3, <2>4, <2>6 DEF RemoteKept
<1>4. QED
    BY <1>1, <1>2, <1>3, RemoteEventIs

\* A new session is sound.
LEMMA RemoteKeptAtFirst == Remote!Init => RemoteKept
<1> SUFFICES ASSUME Remote!Init PROVE RemoteKept
    OBVIOUS
<1>1. IsFiniteSet({}) /\ Cardinality({}) = 0
    BY FS_EmptySet
<1>2. MaxReprompts \in Nat /\ MaxFailures \in Nat \ {0} /\ MaxSttReconnects \in Nat
    BY VoiceAssumption
<1>3. /\ remote.state = "idle" /\ remote.inSpeech = FALSE /\ remote.seen = {}
      /\ remote.finals = {} /\ remote.superseded = {} /\ remote.turn = NoTurn
      /\ remote.turnIndex = 0 /\ remote.playback = Silence
      /\ remote.transcript = [n \in Turns |-> "none"]
      /\ remote.timers = {} /\ remote.reprompts = 0 /\ remote.failures = 0
      /\ remote.bridging = FALSE /\ remote.tearingDown = FALSE
    BY DEF Remote!Init
<1>4. ~InFlight(remote) /\ ~Playing(remote) /\ ~Closing(remote)
    BY <1>3 DEF InFlight, Playing, Closing
<1>5. 0 \in 0 .. MaxReprompts + 1 /\ 0 \in 0 .. MaxFailures /\ 0 \in 0 .. MaxSttReconnects
    BY <1>2
<1>6. remote \in Remote!Session
    BY <1>5 DEF Remote!Init, Remote!Session, Remote!State, Remote!Delivery
<1>7. Delivered(remote)
    BY <1>3, <1>4 DEF Delivered
<1>8. Core(remote)
  <2>1. remote.seen \ remote.finals = {}
      BY <1>3
  <2>2. QED
      BY <1>1, <1>3, <1>4, <1>7, <2>1 DEF Core
<1>9. Bounded(remote)
    BY <1>2, <1>3 DEF Bounded
<1>10. Awaited(remote) /\ LineFits(remote) /\ Owned(remote)
    BY <1>3, <1>4 DEF Awaited, LineFits, Owned
<1>11. Accounted(remote, remoteAnswered, remoteRefused, remoteDropped)
    BY <1>3, <1>4 DEF Remote!Init, Accounted, Split
<1>12. QED
    BY <1>6, <1>8, <1>9, <1>10, <1>11 DEF Remote!Init, RemoteKept, Sound

\* The gateway sees the same of both engines.
LEMMA PhasesAgree == \A s : Remote!Phase(s) = Phase(s)
BY DEF Remote!Phase, Phase

\* Every event is.
LEMMA RemoteEventIsSeam ==
    ASSUME RemoteKept, Remote!Next
    PROVE  Seam(FALSE, Phase(remote), remote.turnIndex, InFlight(remote),
                Phase(remote'), (remote').turnIndex, InFlight(remote'))
<1> DEFINE s == remote
           t == remote'
<1>0. Sound(s) /\ s.state \in Remote!State
    BY DEF RemoteKept, Remote!Session
<1>1. CASE RemoteQuiet(s, t)
    BY <1>0, <1>1, QuietIsSeam, Zenon DEF RemoteQuiet, RemoteBecomes, Remote!Session
<1>2. CASE RemoteHearing(s, t)
  <2>1. PICK u \in Utterances :
            /\ u \notin s.seen
            /\ RemoteBecomes(Hears(s, u), t)
            /\ GoesOn(Hears(s, u), t)
      BY <1>2 DEF RemoteHearing
  <2> DEFINE b == Hears(s, u)
  <2>2. /\ b \in Remote!Session /\ Sound(b) /\ b.turn = s.turn /\ b.state = s.state
        /\ b.turnIndex = s.turnIndex
      BY <2>1, RemoteHeardIsSound DEF RemoteKept
  <2>3. RemoteBecomes(b, t) /\ GoesOn(b, t)
      BY <2>1
  <2> HIDE DEF b
  <2>4. Seam(FALSE, Phase(b), b.turnIndex, InFlight(b), Phase(t), t.turnIndex, InFlight(t))
      BY <1>0, <2>2, <2>3, QuietIsSeam, Zenon DEF RemoteBecomes, Leads, Remote!Session
  <2>5. Phase(b) = Phase(s)
      BY <1>0, <2>2, PhaseIs
  <2>6. InFlight(b) = InFlight(s)
      BY <2>2 DEF InFlight
  <2>7. QED
      BY <2>2, <2>4, <2>5, <2>6, Zenon
<1>3. CASE RemoteSettlement(s, t)
  <2>1. PICK b \in Remote!Session :
            TurnIsOver(Remote!Session, s, b) /\ RemoteBecomes(b, t) /\ GoesOn(b, t)
      BY <1>3 DEF RemoteSettlement
  <2>2. QED
      BY <1>0, <2>1, SettledIsSeam, Zenon DEF TurnIsOver, RemoteBecomes, Remote!Session
<1>4. QED
    BY <1>1, <1>2, <1>3, RemoteEventIs, Zenon

\* The session of the gateway is as it was, or an event has happened.
LEMMA RemoteStep ==
    ASSUME [MCNext]_MCVars
    PROVE  Remote!Next \/ UNCHANGED remoteVars
BY DEF MCNext, MCVars, InProcess, Pipecat, Worker, Website

\* The session of the gateway is sound, and its words are accounted for, in every run
\* (packages/voice/pipecat/remote-session.ts).
THEOREM RemoteIsKept == MCSpec => []RemoteKept
<1>1. MCInit => RemoteKept
    BY RemoteKeptAtFirst DEF MCInit
<1>2. RemoteKept /\ [MCNext]_MCVars => RemoteKept'
  <2> SUFFICES ASSUME RemoteKept, [MCNext]_MCVars PROVE RemoteKept'
      OBVIOUS
  <2>1. CASE Remote!Next
      BY <2>1, RemoteEventKeeps
  <2>2. CASE UNCHANGED remoteVars
      BY <2>2 DEF remoteVars, RemoteKept
  <2>3. QED
      BY <2>1, <2>2, RemoteStep
<1>3. QED
    BY <1>1, <1>2, PTL DEF MCSpec, MCNext, MCVars

\* The engine of the worker implements what the gateway relies on, but for the handoff,
\* which does not wait for the turn in flight (media-session.ts).
LEMMA RemoteImplements == MCSpec => Remote!ImplementsInterface
<1>1. MCInit => Remote!Interface!Init
  <2> SUFFICES ASSUME MCInit PROVE Remote!Interface!Init
      OBVIOUS
  <2>1. remote \in Remote!Session /\ Sound(remote) /\ remote.state = "idle"
        /\ remote.turnIndex = 0 /\ remote.turn = NoTurn
      BY RemoteKeptAtFirst DEF MCInit, Remote!Init, RemoteKept
  <2>2. Remote!Phase(remote) = "idle" /\ InFlight(remote) = FALSE
      BY <2>1, PhaseIs, PhasesAgree DEF InFlight, State
  <2>3. QED
      BY <2>1, <2>2 DEF Remote!Interface!Init
<1>2. RemoteKept /\ [MCNext]_MCVars => [Remote!Interface!Next]_(Remote!Interface!vars)
  <2> SUFFICES ASSUME RemoteKept, [MCNext]_MCVars
               PROVE  [Remote!Interface!Next]_(Remote!Interface!vars)
      OBVIOUS
  <2> DEFINE p == Phase(remote)
             i == remote.turnIndex
             b == InFlight(remote)
  <2>0. /\ Remote!Phase(remote) = p /\ Remote!Phase(remote)' = p'
        /\ Remote!InFlight(remote) = b /\ Remote!InFlight(remote)' = b'
      BY PhasesAgree
  <2>1. CASE Remote!Next
    <3>1. Seam(FALSE, p, i, b, p', i', b')
        BY <2>1, RemoteEventIsSeam, Zenon
    <3>2. QED
        BY <2>0, <3>1
           DEF Seam, Remote!Interface!Next, Remote!Interface!vars, Remote!Interface!Start,
               Remote!Interface!BeginTurn, Remote!Interface!SettleTurn,
               Remote!Interface!SettleAndBegin, Remote!Interface!HandOff,
               Remote!Interface!HandOffFails, Remote!Interface!End, Remote!Interface!Ended
  <2>2. CASE UNCHANGED remoteVars
      BY <2>2
         DEF remoteVars, Remote!Interface!vars, Remote!Phase, Remote!InFlight, Remote!Open,
             Remote!Closing
  <2>3. QED
      BY <2>1, <2>2, RemoteStep
<1>3. QED
    BY <1>1, <1>2, RemoteIsKept, PTL
       DEF MCSpec, MCNext, MCVars, Remote!ImplementsInterface, Remote!Interface!Spec

\* Both engines implement the seam of the gateway (media-session.ts).
THEOREM EnginesImplement == MCSpec => EnginesImplementInterface
BY SessionImplements, RemoteImplements, PTL DEF EnginesImplementInterface

\* Every word of the caller is in exactly one place of either engine: waiting, with the turn
\* in flight, answered, refused, or dropped by the limit of an utterance or by a failed turn
\* of which nothing was said.  So none is answered twice, and none is dropped by a timer, a
\* barge-in or a cancelled turn (commitUtterance, afterTurn, afterPlayback).
THEOREM EveryWordHasItsPlace == MCSpec => []WordsAccounted
<1>1. Kept => EveryWordAccounted
    BY WordsAre DEF Kept
<1>2. RemoteKept => Remote!EveryWordAccounted
    BY RemoteWordsAre DEF RemoteKept
<1>3. QED
    BY <1>1, <1>2, SessionIsKept, RemoteIsKept, PTL DEF WordsAccounted

\* None of the engines, and not the loop of the widget, waits for nothing.
THEOREM NeverDead == MCSpec => []NoDeadAir
<1>1. ASSUME NEW s, Sound(s), Open(s), s.state \in State
      PROVE  s.inSpeech \/ Playing(s) \/ InFlight(s) \/ s.bridging
             \/ s.timers \ {"maxDuration"} # {}
    BY <1>1 DEF Sound, Awaited, Open, Closing, State
<1>2. Kept => NeverDeadAir
    BY <1>1 DEF Kept, NeverDeadAir, Session
<1>3. RemoteKept => Remote!NeverDeadAir
    BY <1>1 DEF RemoteKept, Remote!NeverDeadAir, Remote!Session
<1>4. QED
    BY <1>2, <1>3, SessionIsKept, RemoteIsKept, LoopHasNoDeadEnd, PTL DEF NoDeadAir

===============================================================================

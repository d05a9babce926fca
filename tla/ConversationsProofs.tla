-------------------------- MODULE ConversationsProofs --------------------------
(***************************************************************************)
(* Proofs about what is said in a conversation and what it leaves.          *)
(*                                                                         *)
(* A turn that is cancelled persists nothing, and as long as no turn is given *)
(* up and no statement fails, a closed conversation is on record, in order,   *)
(* with one delivery of every reply.  A reply that is streamed is never       *)
(* repeated or taken back.  The providers of a call that fall back on others *)
(* act as one.  No utterance undoes what a qualification call confirmed; the  *)
(* fields its schema wants confirmed are read back before they are used, and  *)
(* what is told of its one visit is so.  And merging customers loses none of  *)
(* their history.                                                            *)
(***************************************************************************)
EXTENDS MCConversations, SequenceTheorems, FiniteSetTheorems, WellFoundedInduction, TLAPS

-------------------------------------------------------------------------------
(* The turns of a call.  The invariant: what a cancelled turn may have done.  *)

\* A turn that wrote, or has its reply held, is not going to be cancelled.
Recorded == {n \in Turns : turn[n].step \in {"save", "returned", "failed"}}

NoneIsAhead ==
    /\ \A n \in Turns : n >= session.next => turn[n].step = "none"
    /\ \A n \in Turns : turn[n].step = "tool" => turn[n].round < MaxToolRounds

TracesAreOfRecorded ==
    /\ saved \subseteq Recorded
    /\ \A n \in Turns : turn[n].state \subseteq Recorded
    /\ pending # NoReply => pending.turn \in Recorded
    /\ \A i \in DOMAIN transcript : transcript[i].turn \in Recorded

CancelledIsUncommitted == \A n \in Turns : turn[n].step = "cancelled" => ~turn[n].committed

IInv == TypeOK /\ NoneIsAhead /\ TracesAreOfRecorded /\ CancelledIsUncommitted

LEMMA Initial == Init => IInv
<1> SUFFICES ASSUME Init
             PROVE  IInv
    OBVIOUS
<1>1. MaxTurns \in Nat /\ MaxToolRounds \in Nat /\ MaxErrors \in Nat
    BY TurnsAssumption
<1>2. turn \in [Turns -> Turn]
    BY <1>1 DEF Init, Turn, Step
<1>3. session \in Session
    BY <1>1 DEF Init, Session, Turns
<1>4. TypeOK
    BY <1>1, <1>2, <1>3 DEF Init, TypeOK
<1>5. NoneIsAhead /\ TracesAreOfRecorded /\ CancelledIsUncommitted
    BY DEF Init, NoneIsAhead, TracesAreOfRecorded, CancelledIsUncommitted
<1>6. QED
    BY <1>4, <1>5 DEF IInv

-------------------------------------------------------------------------------
(* What the parts of a step do.                                             *)

\* A turn of the conversation is a positive number, so none is the empty reply's.
LEMMA TurnsArePositive == \A n \in Turns : n \in Nat /\ n >= 1 /\ n <= MaxTurns /\ n # 0
BY TurnsAssumption DEF Turns

\* What the step of a turn becomes: the one it goes on to, unless an abort counts.
LEMMA ProceedType ==
    ASSUME TypeOK, NEW n \in Turns, NEW t \in Turn, NEW to \in Step, Proceed(n, t, to)
    PROVE  /\ turn' \in [Turns -> Turn]
           /\ \A k \in Turns \ {n} : turn'[k] = turn[k]
           /\ turn'[n].step = IF Cancelled(t) THEN "cancelled" ELSE to
           /\ turn'[n].committed = t.committed
           /\ turn'[n].state = t.state
           /\ turn'[n].round = t.round
<1> DEFINE next == [t EXCEPT !.step = IF Cancelled(t) THEN "cancelled" ELSE to]
<1>1. /\ next \in Turn
      /\ next.step = IF Cancelled(t) THEN "cancelled" ELSE to
      /\ next.committed = t.committed /\ next.state = t.state /\ next.round = t.round
    BY DEF Turn, Step
<1>2. turn' = [turn EXCEPT ![n] = next]
    BY DEF Proceed
<1>3. QED
    BY <1>1, <1>2 DEF TypeOK

\* A turn that fails keeps everything but its step.
LEMMA FailsType ==
    ASSUME TypeOK, NEW n \in Turns, Fails(n)
    PROVE  /\ turn' \in [Turns -> Turn]
           /\ \A k \in Turns \ {n} : turn'[k] = turn[k]
           /\ turn'[n].step = "failed"
           /\ turn'[n].committed = turn[n].committed
           /\ turn'[n].state = turn[n].state
<1> DEFINE next == [turn[n] EXCEPT !.step = "failed"]
<1>1. turn[n] \in Turn
    BY DEF TypeOK
<1>2. /\ next \in Turn
      /\ next.step = "failed"
      /\ next.committed = turn[n].committed /\ next.state = turn[n].state
    BY <1>1 DEF Turn, Step
<1>3. turn' = [turn EXCEPT ![n] = next]
    BY DEF Fails
<1>4. QED
    BY <1>2, <1>3 DEF TypeOK

\* A row is appended, or a failure counted.
LEMMA WriteType ==
    ASSUME TypeOK, NEW row \in Row, Write(row)
    PROVE  /\ transcript' \in Seq(Row) /\ errors' \in 0 .. MaxErrors
           /\ errors <= errors'
           /\ \/ transcript' = transcript /\ errors' > errors
              \/ transcript' = Append(transcript, row) /\ errors' = errors
           /\ \A i \in DOMAIN transcript' :
                 \/ i \in DOMAIN transcript /\ transcript'[i] = transcript[i]
                 \/ transcript'[i] = row
<1>1. transcript \in Seq(Row) /\ errors \in 0 .. MaxErrors /\ MaxErrors \in Nat
    BY TurnsAssumption DEF TypeOK
<1>2. CASE transcript' = Append(transcript, row) /\ UNCHANGED errors
  <2>1. \A i \in DOMAIN transcript' :
           \/ i \in DOMAIN transcript /\ transcript'[i] = transcript[i]
           \/ transcript'[i] = row
      BY <1>1, <1>2
  <2>2. QED
      BY <1>1, <1>2, <2>1
<1>3. CASE Error /\ UNCHANGED transcript
    BY <1>1, <1>3 DEF Error
<1>4. QED
    BY <1>2, <1>3 DEF Write

\* Resolving writes the row of the held reply, if any, and holds none afterwards.
LEMMA ResolveType ==
    ASSUME TypeOK,
           \/ ResolveAny
           \/ \E n, delivery : delivery \in Delivery /\ Resolve(n, delivery)
    PROVE  /\ pending' \in {pending, NoReply}
           /\ transcript' \in Seq(Row) /\ errors' \in 0 .. MaxErrors
           /\ errors <= errors'
           /\ \A i \in DOMAIN transcript' :
                 \/ i \in DOMAIN transcript /\ transcript'[i] = transcript[i]
                 \/ pending # NoReply /\ transcript'[i].turn = pending.turn
<1>1. CASE UNCHANGED pending /\ NoWrite
    BY <1>1, TurnsAssumption DEF NoWrite, TypeOK
<1>2. ASSUME NEW delivery \in Delivery, pending # NoReply, pending' = NoReply,
             Write(AgentRow(pending.turn, delivery))
      PROVE  /\ transcript' \in Seq(Row) /\ errors' \in 0 .. MaxErrors
             /\ errors <= errors'
             /\ \A i \in DOMAIN transcript' :
                   \/ i \in DOMAIN transcript /\ transcript'[i] = transcript[i]
                   \/ pending # NoReply /\ transcript'[i].turn = pending.turn
  <2>1. AgentRow(pending.turn, delivery) \in Row /\ AgentRow(pending.turn, delivery).turn = pending.turn
      BY <1>2 DEF TypeOK, AgentRow, Row
  <2>2. QED
      BY <1>2, <2>1, WriteType
<1>3. "not_delivered" \in Delivery
    BY DEF Delivery
<1>4. QED
    BY <1>1, <1>2, <1>3 DEF ResolveAny, Resolve
-------------------------------------------------------------------------------
(* The steps of the pipeline keep the invariant.                            *)

\* What is on record was of recorded turns, and still is when there are more of them.
LEMMA TracesStay ==
    ASSUME TracesAreOfRecorded, Recorded \subseteq Recorded',
           saved' = saved,
           \A k \in Turns : turn'[k].state = turn[k].state \/ turn'[k].state \subseteq saved,
           pending' \in {pending, NoReply},
           \A i \in DOMAIN transcript' :
               \/ i \in DOMAIN transcript /\ transcript'[i] = transcript[i]
               \/ pending # NoReply /\ transcript'[i].turn = pending.turn
    PROVE  TracesAreOfRecorded'
BY DEF TracesAreOfRecorded

\* A step of turn n to another await: what was committed stays so.
LEMMA StepKeeps ==
    ASSUME IInv, NEW n \in Turns, NEW t \in Turn, NEW to, Proceed(n, t, to),
           to \in {"context", "actions", "model", "tool", "persistence"},
           turn[n].step \in {"called", "context", "actions", "model", "tool", "persistence"},
           turn[n].committed => t.committed,
           to = "tool" => t.round < MaxToolRounds,
           t.state = turn[n].state \/ t.state = saved,
           session' = session, saved' = saved,
           acted' = acted \/ Acts(n),
           pending' \in {pending, NoReply},
           \A i \in DOMAIN transcript' :
               \/ i \in DOMAIN transcript /\ transcript'[i] = transcript[i]
               \/ pending # NoReply /\ transcript'[i].turn = pending.turn
    PROVE  /\ turn' \in [Turns -> Turn]
           /\ acted' \subseteq Turns \X Turns
           /\ NoneIsAhead' /\ TracesAreOfRecorded' /\ CancelledIsUncommitted'
<1>0. TypeOK /\ NoneIsAhead /\ TracesAreOfRecorded /\ CancelledIsUncommitted
    BY DEF IInv
<1>1. /\ turn' \in [Turns -> Turn]
      /\ \A k \in Turns \ {n} : turn'[k] = turn[k]
      /\ turn'[n].step = IF Cancelled(t) THEN "cancelled" ELSE to
      /\ turn'[n].committed = t.committed
      /\ turn'[n].state = t.state
      /\ turn'[n].round = t.round
  <2>1. to \in Step
      BY DEF Step
  <2>2. QED
      BY <1>0, <2>1, ProceedType
<1>2. Cancelled(t) => ~t.committed
    BY DEF Cancelled
<1>3. NoneIsAhead'
    BY <1>0, <1>1 DEF NoneIsAhead
<1>4. TracesAreOfRecorded'
  <2>1. Recorded \subseteq Recorded'
      BY <1>1 DEF Recorded
  <2>2. \A k \in Turns : turn'[k].state = turn[k].state \/ turn'[k].state \subseteq saved
      BY <1>1
  <2>3. QED
      BY <1>0, <2>1, <2>2, TracesStay
<1>7. CancelledIsUncommitted'
    BY <1>0, <1>1, <1>2 DEF CancelledIsUncommitted
<1>8. acted' \subseteq Turns \X Turns
  <2>1. turn[n].words \subseteq Turns
      BY <1>0 DEF TypeOK, Turn
  <2>2. QED
      BY <1>0, <2>1 DEF TypeOK, Acts
<1>9. QED
    BY <1>1, <1>3, <1>4, <1>7, <1>8

\* A turn that fails has not acted more, nor is it cancelled.
LEMMA FailureKeeps ==
    ASSUME IInv, NEW n \in Turns, Fails(n), turn[n].step # "none",
           session' = session, saved' = saved, acted' = acted,
           pending' \in {pending, NoReply, [turn |-> n, boundTo |-> 0]},
           \A i \in DOMAIN transcript' :
               \/ i \in DOMAIN transcript /\ transcript'[i] = transcript[i]
               \/ pending # NoReply /\ transcript'[i].turn = pending.turn
    PROVE  /\ turn' \in [Turns -> Turn]
           /\ NoneIsAhead' /\ TracesAreOfRecorded' /\ CancelledIsUncommitted'
<1>0. TypeOK /\ NoneIsAhead /\ TracesAreOfRecorded /\ CancelledIsUncommitted
    BY DEF IInv
<1>1. /\ turn' \in [Turns -> Turn]
      /\ \A k \in Turns \ {n} : turn'[k] = turn[k]
      /\ turn'[n].step = "failed"
      /\ turn'[n].committed = turn[n].committed
      /\ turn'[n].state = turn[n].state
    BY <1>0, FailsType
<1>2. NoneIsAhead'
    BY <1>0, <1>1 DEF NoneIsAhead
<1>3. Recorded \subseteq Recorded' /\ n \in Recorded'
    BY <1>1 DEF Recorded
<1>4. \A k \in Turns : turn'[k].state = turn[k].state
    BY <1>1
<1>5. pending' # NoReply => pending'.turn \in Recorded'
    BY <1>0, <1>3 DEF TracesAreOfRecorded
<1>6. TracesAreOfRecorded'
    BY <1>0, <1>3, <1>4, <1>5 DEF TracesAreOfRecorded
<1>7. CancelledIsUncommitted'
    BY <1>0, <1>1 DEF CancelledIsUncommitted
<1>8. QED
    BY <1>1, <1>2, <1>6, <1>7

\* A turn that is being called resolves what is held, and goes on or fails.
LEMMA BeginKeeps == ASSUME IInv, NEW n \in Turns, Begin(n) PROVE IInv'
<1>0. TypeOK /\ turn[n] \in Turn
    BY DEF IInv, TypeOK
<1>1. /\ pending' \in {pending, NoReply}
      /\ transcript' \in Seq(Row) /\ errors' \in 0 .. MaxErrors
      /\ \A i \in DOMAIN transcript' :
            \/ i \in DOMAIN transcript /\ transcript'[i] = transcript[i]
            \/ pending # NoReply /\ transcript'[i].turn = pending.turn
    BY <1>0, ResolveType DEF Begin
<1>2. /\ turn[n].step = "called"
      /\ session' = session /\ saved' = saved /\ acted' = acted /\ abandoned' = abandoned
    BY DEF Begin
<1>3. turn' \in [Turns -> Turn] /\ NoneIsAhead' /\ TracesAreOfRecorded' /\ CancelledIsUncommitted'
  <2>1. CASE Fails(n)
      BY <1>1, <1>2, <2>1, FailureKeeps
  <2>2. CASE Proceed(n, turn[n], "context")
      BY <1>0, <1>1, <1>2, <2>2, StepKeeps
  <2>3. QED
      BY <2>1, <2>2 DEF Begin
<1>4. TypeOK'
    BY <1>0, <1>1, <1>2, <1>3 DEF TypeOK
<1>5. QED
    BY <1>3, <1>4 DEF IInv

\* What is loaded is what is saved, or nothing.
LEMMA LoadContextKeeps == ASSUME IInv, NEW n \in Turns, LoadContext(n) PROVE IInv'
<1>0. TypeOK /\ turn[n] \in Turn /\ MaxErrors \in Nat
    BY TurnsAssumption DEF IInv, TypeOK
<1>1. /\ turn[n].step = "context"
      /\ UNCHANGED <<session, pending, transcript, saved, acted, abandoned>>
    BY DEF LoadContext
<1>2. errors' \in 0 .. MaxErrors
    BY <1>0 DEF LoadContext, Error, TypeOK
<1>3. turn' \in [Turns -> Turn] /\ NoneIsAhead' /\ TracesAreOfRecorded' /\ CancelledIsUncommitted'
  <2>1. ASSUME Proceed(n, [turn[n] EXCEPT !.state = saved], "actions")
        PROVE  turn' \in [Turns -> Turn] /\ NoneIsAhead' /\ TracesAreOfRecorded'
               /\ CancelledIsUncommitted'
    <3> DEFINE t == [turn[n] EXCEPT !.state = saved]
    <3>1. t \in Turn /\ t.state = saved /\ t.committed = turn[n].committed
        BY <1>0, Zenon DEF Turn, TypeOK
    <3>2. Proceed(n, t, "actions")
        BY <2>1
    <3> HIDE DEF t
    <3>3. QED
        BY <1>1, <3>1, <3>2, StepKeeps
  <2>2. CASE Proceed(n, turn[n], "actions")
      BY <1>0, <1>1, <2>2, StepKeeps
  <2>3. CASE Fails(n)
      BY <1>1, <2>3, FailureKeeps
  <2>4. QED
      BY <2>1, <2>2, <2>3 DEF LoadContext
<1>4. TypeOK'
    BY <1>0, <1>1, <1>2, <1>3 DEF TypeOK
<1>5. QED
    BY <1>3, <1>4 DEF IInv

\* An action does something or nothing, and what it reports commits the turn.
LEMMA PerformanceKeeps ==
    ASSUME IInv, NEW n \in Turns, NEW t \in Turn, Performs(n, t),
           turn[n].step \in {"actions", "tool"},
           turn[n].committed => t.committed, t.state = turn[n].state,
           UNCHANGED <<session, pending, transcript, saved, abandoned, errors>>
    PROVE  IInv'
<1>0. TypeOK
    BY DEF IInv
<1>1. /\ turn' \in [Turns -> Turn] /\ acted' \subseteq Turns \X Turns
      /\ NoneIsAhead' /\ TracesAreOfRecorded' /\ CancelledIsUncommitted'
  <2>1. ASSUME NEW reported \in BOOLEAN, Acts(n),
               Proceed(n, [t EXCEPT !.committed = t.committed \/ reported], "model")
        PROVE  /\ turn' \in [Turns -> Turn] /\ acted' \subseteq Turns \X Turns
               /\ NoneIsAhead' /\ TracesAreOfRecorded' /\ CancelledIsUncommitted'
    <3> DEFINE committed == t.committed \/ reported
               u == [t EXCEPT !.committed = committed]
    <3>1. committed \in BOOLEAN /\ (t.committed => committed)
        OBVIOUS
    <3>2. Proceed(n, u, "model")
        BY <2>1
    <3> HIDE DEF committed
    <3>3. u \in Turn /\ u.state = t.state /\ u.committed = committed
        BY <3>1, Zenon DEF Turn
    <3> HIDE DEF u
    <3>4. turn[n].committed => u.committed
        BY <3>1, <3>3, Zenon
    <3>5. QED
        BY <2>1, <3>2, <3>3, <3>4, StepKeeps
  <2>2. CASE UNCHANGED acted /\ Proceed(n, t, "model")
      BY <2>2, StepKeeps
  <2>3. QED
      BY <2>1, <2>2 DEF Performs
<1>2. TypeOK'
    BY <1>0, <1>1 DEF TypeOK
<1>3. QED
    BY <1>1, <1>2 DEF IInv

LEMMA SystemActionsKeep == ASSUME IInv, NEW n \in Turns, SystemActions(n) PROVE IInv'
<1>1. turn[n] \in Turn
    BY DEF IInv, TypeOK
<1>2. QED
    BY <1>1, PerformanceKeeps DEF SystemActions

\* The model answers, or asks for tools while there are rounds left.
LEMMA ModelKeeps == ASSUME IInv, NEW n \in Turns, Model(n) PROVE IInv'
<1>0. TypeOK /\ turn[n] \in Turn
    BY DEF IInv, TypeOK
<1>1. /\ turn[n].step = "model"
      /\ UNCHANGED <<session, pending, transcript, saved, acted, abandoned, errors>>
    BY DEF Model
<1>2. turn' \in [Turns -> Turn] /\ NoneIsAhead' /\ TracesAreOfRecorded' /\ CancelledIsUncommitted'
  <2>1. CASE Proceed(n, turn[n], "persistence")
      BY <1>0, <1>1, <2>1, StepKeeps
  <2>2. CASE turn[n].round < MaxToolRounds /\ Proceed(n, turn[n], "tool")
      BY <1>0, <1>1, <2>2, StepKeeps
  <2>3. QED
      BY <2>1, <2>2 DEF Model
<1>3. TypeOK'
    BY <1>0, <1>1, <1>2 DEF TypeOK
<1>4. QED
    BY <1>2, <1>3 DEF IInv

\* A round of tools is one of those that are left.
LEMMA ToolRoundKeeps == ASSUME IInv, NEW n \in Turns, ToolRound(n) PROVE IInv'
<1> DEFINE t == [turn[n] EXCEPT !.round = @ + 1]
<1>1. /\ turn[n] \in Turn /\ turn[n].step = "tool"
      /\ turn[n].round < MaxToolRounds /\ MaxToolRounds \in Nat
    BY TurnsAssumption DEF IInv, TypeOK, NoneIsAhead, ToolRound
<1>2. t \in Turn /\ t.state = turn[n].state /\ t.committed = turn[n].committed
  <2>1. turn[n].round + 1 \in 0 .. MaxToolRounds
      BY <1>1 DEF Turn
  <2>2. QED
      BY <1>1, <2>1 DEF Turn
<1>3. /\ Performs(n, t)
      /\ UNCHANGED <<session, pending, transcript, saved, abandoned, errors>>
    BY DEF ToolRound
<1> HIDE DEF t
<1>4. QED
    BY <1>1, <1>2, <1>3, PerformanceKeeps

\* The caller's row is written and the reply held by a turn that cannot be cancelled any more.
LEMMA PersistKeeps == ASSUME IInv, NEW n \in Turns, Persist(n) PROVE IInv'
<1>0. TypeOK /\ NoneIsAhead /\ TracesAreOfRecorded /\ CancelledIsUncommitted /\ turn[n] \in Turn
    BY DEF IInv, TypeOK
<1>1. /\ turn[n].step = "persistence"
      /\ UNCHANGED <<session, saved, acted, abandoned>>
    BY DEF Persist
<1>2. CASE Cancelled(turn[n])
  <2>1. Proceed(n, turn[n], "persistence") /\ UNCHANGED <<pending, transcript, errors>>
      BY <1>2 DEF Persist, Proceed, NoWrite
  <2>2. turn' \in [Turns -> Turn] /\ NoneIsAhead' /\ TracesAreOfRecorded' /\ CancelledIsUncommitted'
      BY <1>0, <1>1, <2>1, StepKeeps
  <2>3. TypeOK'
      BY <1>0, <1>1, <2>1, <2>2 DEF TypeOK
  <2>4. QED
      BY <2>2, <2>3 DEF IInv
<1>3. CASE ~Cancelled(turn[n])
  <2>1. /\ pending' = [turn |-> n, boundTo |-> 0]
        /\ Write(CallerRow(n))
        /\ IF errors' > errors THEN Fails(n) ELSE turn' = [turn EXCEPT ![n].step = "save"]
      BY <1>3 DEF Persist
  <2>2. CallerRow(n) \in Row /\ CallerRow(n).turn = n
      BY DEF CallerRow, Row
  <2>3. /\ transcript' \in Seq(Row) /\ errors' \in 0 .. MaxErrors
        /\ errors <= errors'
        /\ \/ transcript' = transcript /\ errors' > errors
           \/ transcript' = Append(transcript, CallerRow(n)) /\ errors' = errors
        /\ \A i \in DOMAIN transcript' :
              \/ i \in DOMAIN transcript /\ transcript'[i] = transcript[i]
              \/ transcript'[i] = CallerRow(n)
      BY <1>0, <2>1, <2>2, WriteType
  <2>4. errors \in Nat
      BY <1>0, TurnsAssumption DEF TypeOK
  <2>5. turn' \in [Turns -> Turn] /\ NoneIsAhead' /\ TracesAreOfRecorded' /\ CancelledIsUncommitted'
    <3>1. CASE errors' > errors
      <4>1. Fails(n) /\ transcript' = transcript
          BY <2>1, <2>3, <2>4, <3>1
      <4>2. QED
          BY <1>1, <2>1, <4>1, FailureKeeps
    <3>2. CASE ~(errors' > errors)
      <4> DEFINE next == [turn[n] EXCEPT !.step = "save"]
      <4>1. /\ next \in Turn /\ next.step = "save"
            /\ next.committed = turn[n].committed /\ next.state = turn[n].state
          BY <1>0 DEF Turn, Step
      <4>2. turn' = [turn EXCEPT ![n] = next]
          BY <2>1, <3>2
      <4> HIDE DEF next
      <4>3. /\ turn' \in [Turns -> Turn]
            /\ \A k \in Turns \ {n} : turn'[k] = turn[k]
            /\ turn'[n].step = "save"
            /\ turn'[n].committed = turn[n].committed
            /\ turn'[n].state = turn[n].state
          BY <1>0, <4>1, <4>2 DEF TypeOK
      <4>4. NoneIsAhead'
          BY <1>0, <1>1, <4>3 DEF NoneIsAhead
      <4>5. Recorded \subseteq Recorded' /\ n \in Recorded'
          BY <4>3 DEF Recorded
      <4>6. \A k \in Turns : turn'[k].state = turn[k].state
          BY <4>3
      <4>7. TracesAreOfRecorded'
          BY <1>0, <1>1, <2>1, <2>2, <2>3, <4>5, <4>6 DEF TracesAreOfRecorded
      <4>8. CancelledIsUncommitted'
          BY <1>0, <1>1, <4>3, Zenon DEF CancelledIsUncommitted
      <4>9. QED
          BY <4>3, <4>4, <4>7, <4>8
    <3>3. QED
        BY <3>1, <3>2
  <2>6. TypeOK'
    <3>1. pending' \in [turn : Turns, boundTo : Turns \cup {0}]
        BY <2>1
    <3>2. QED
        BY <1>0, <1>1, <2>3, <2>5, <3>1 DEF TypeOK
  <2>7. QED
      BY <2>5, <2>6 DEF IInv
<1>4. QED
    BY <1>2, <1>3

\* The state that is saved is of turns on record, this one with them.
LEMMA SaveKeeps == ASSUME IInv, NEW n \in Turns, Save(n) PROVE IInv'
<1>0. /\ TypeOK /\ NoneIsAhead /\ TracesAreOfRecorded /\ CancelledIsUncommitted /\ turn[n] \in Turn
      /\ MaxErrors \in Nat
    BY TurnsAssumption DEF IInv, TypeOK
<1>1. /\ turn[n].step = "save"
      /\ UNCHANGED <<session, transcript, acted, abandoned>>
      /\ saved' = turn[n].state \cup {n} \/ saved' = saved
      /\ turn' = [turn EXCEPT ![n].step = "returned"]
    BY DEF Save
<1>2. errors' \in 0 .. MaxErrors
    BY <1>0 DEF Save, Error, TypeOK
<1> DEFINE next == [turn[n] EXCEPT !.step = "returned"]
<1>3. /\ next \in Turn /\ next.step = "returned"
      /\ next.committed = turn[n].committed /\ next.state = turn[n].state
    BY <1>0 DEF Turn, Step
<1>4. turn' = [turn EXCEPT ![n] = next]
    BY <1>1
<1> HIDE DEF next
<1>5. /\ turn' \in [Turns -> Turn]
      /\ \A k \in Turns \ {n} : turn'[k] = turn[k]
      /\ turn'[n].step = "returned"
      /\ turn'[n].committed = turn[n].committed
      /\ turn'[n].state = turn[n].state
    BY <1>0, <1>3, <1>4 DEF TypeOK
<1>6. /\ pending # NoReply /\ pending' # NoReply => pending'.turn = pending.turn
      /\ pending = NoReply <=> pending' = NoReply
      /\ pending' \in [turn : Turns, boundTo : Turns \cup {0}] \cup {NoReply}
  <2>1. CASE pending # NoReply /\ pending.boundTo = 0
    <3>1. pending \in [turn : Turns, boundTo : Turns \cup {0}]
        BY <1>0, <2>1 DEF TypeOK
    <3>2. pending' = [pending EXCEPT !.boundTo = n]
        BY <2>1 DEF Save
    <3>3. pending' \in [turn : Turns, boundTo : Turns \cup {0}] /\ pending'.turn = pending.turn
        BY <3>1, <3>2
    <3>4. pending' # NoReply
        BY <3>3, TurnsArePositive DEF NoReply
    <3>5. QED
        BY <2>1, <3>3, <3>4
  <2>2. CASE ~(pending # NoReply /\ pending.boundTo = 0)
      BY <1>0, <2>2 DEF Save, TypeOK
  <2>3. QED
      BY <2>1, <2>2
<1>7. NoneIsAhead'
    BY <1>0, <1>1, <1>5 DEF NoneIsAhead
<1>8. Recorded \subseteq Recorded' /\ n \in Recorded'
    BY <1>5 DEF Recorded
<1>9. saved' \subseteq Recorded'
    BY <1>0, <1>1, <1>8 DEF TracesAreOfRecorded
<1>10. \A k \in Turns : turn'[k].state = turn[k].state
    BY <1>5
<1>11. TracesAreOfRecorded'
    BY <1>0, <1>1, <1>6, <1>8, <1>9, <1>10 DEF TracesAreOfRecorded
<1>12. CancelledIsUncommitted'
    BY <1>0, <1>1, <1>5, Zenon DEF CancelledIsUncommitted
<1>13. saved' \subseteq Turns
    BY <1>9 DEF Recorded
<1>14. TypeOK'
    BY <1>0, <1>1, <1>2, <1>5, <1>6, <1>13 DEF TypeOK
<1>15. QED
    BY <1>7, <1>11, <1>12, <1>14 DEF IInv

-------------------------------------------------------------------------------
(* The steps of the media session keep the invariant.                       *)

\* The turn that an utterance starts is a new one.
LEMMA CommitKeeps == ASSUME IInv, Commit PROVE IInv'
<1>0. TypeOK /\ NoneIsAhead /\ TracesAreOfRecorded /\ CancelledIsUncommitted /\ MaxTurns \in Nat
    BY TurnsAssumption DEF IInv
<1> DEFINE n == session.next
<1>1. /\ n \in Turns /\ n <= MaxTurns /\ n + 1 \in 1 .. MaxTurns + 1 /\ n \in Nat
      /\ session.superseded \subseteq Turns
      /\ turn[n] \in Turn /\ turn[n].step = "none"
    BY <1>0 DEF Commit, TypeOK, Session, Turns, NoneIsAhead
<1>2. PICK m \in Turns : m = n
    BY <1>1
<1>3. /\ session' = [session EXCEPT !.next = m + 1, !.inFlight = m, !.superseded = {}]
      /\ turn' = [turn EXCEPT ![m].step = "called", ![m].words = session.superseded \cup {m}]
      /\ UNCHANGED <<pending, transcript, saved, acted, abandoned, errors>>
    BY <1>2 DEF Commit
<1>4. session' \in Session /\ session'.next = m + 1
    BY <1>0, <1>1, <1>2, <1>3, Zenon DEF TypeOK, Session
<1> DEFINE called == [turn[m] EXCEPT !.step = "called", !.words = session.superseded \cup {m}]
<1>5. /\ called \in Turn /\ called.step = "called"
      /\ called.committed = turn[m].committed /\ called.state = turn[m].state
    BY <1>1, <1>2, Zenon DEF Turn, Step
<1>6. turn' = [turn EXCEPT ![m] = called]
    BY <1>0, <1>3, Zenon DEF TypeOK
<1> HIDE DEF called
<1>7. /\ turn' \in [Turns -> Turn]
      /\ \A k \in Turns \ {m} : turn'[k] = turn[k]
      /\ turn'[m].step = "called"
      /\ turn'[m].committed = turn[m].committed
      /\ turn'[m].state = turn[m].state
    BY <1>0, <1>5, <1>6 DEF TypeOK
<1>8. NoneIsAhead'
    BY <1>0, <1>1, <1>2, <1>4, <1>7, TurnsArePositive DEF NoneIsAhead
<1>9. TracesAreOfRecorded'
  <2>1. Recorded \subseteq Recorded'
      BY <1>1, <1>2, <1>7 DEF Recorded
  <2>2. \A k \in Turns : turn'[k].state = turn[k].state
      BY <1>7
  <2>3. QED
      BY <1>0, <1>3, <2>1, <2>2, TracesStay, Zenon
<1>10. CancelledIsUncommitted'
    BY <1>0, <1>3, <1>7 DEF CancelledIsUncommitted
<1>11. TypeOK'
    BY <1>0, <1>3, <1>4, <1>7 DEF TypeOK
<1>12. QED
    BY <1>8, <1>9, <1>10, <1>11 DEF IInv

\* Where a step moves no turn on, what is on record stays of recorded turns.
LEMMA SessionKeeps ==
    ASSUME IInv, turn' \in [Turns -> Turn], session' \in Session,
           \A k \in Turns : /\ turn'[k].step = turn[k].step /\ turn'[k].round = turn[k].round
                            /\ turn'[k].state = turn[k].state
                            /\ turn'[k].committed = turn[k].committed,
           session'.next = session.next,
           saved' = saved, acted' = acted, abandoned' \subseteq Turns,
           pending' \in {pending, NoReply},
           transcript' \in Seq(Row), errors' \in 0 .. MaxErrors,
           \A i \in DOMAIN transcript' :
               \/ i \in DOMAIN transcript /\ transcript'[i] = transcript[i]
               \/ pending # NoReply /\ transcript'[i].turn = pending.turn
    PROVE  IInv'
<1>0. TypeOK /\ NoneIsAhead /\ TracesAreOfRecorded /\ CancelledIsUncommitted
    BY DEF IInv
<1>1. TypeOK'
    BY <1>0 DEF TypeOK
<1>2. NoneIsAhead'
    BY <1>0 DEF NoneIsAhead
<1>3. TracesAreOfRecorded'
  <2>1. Recorded \subseteq Recorded'
      BY DEF Recorded
  <2>2. QED
      BY <1>0, <2>1, TracesStay
<1>4. CancelledIsUncommitted'
    BY <1>0 DEF CancelledIsUncommitted
<1>5. QED
    BY <1>1, <1>2, <1>3, <1>4 DEF IInv

\* Where nothing is written either.
LEMMA QuietKeeps ==
    ASSUME IInv, session' \in Session, session'.next = session.next, abandoned' \subseteq Turns,
           UNCHANGED <<turn, pending, transcript, saved, acted, errors>>
    PROVE  IInv'
<1>1. TypeOK
    BY DEF IInv
<1>2. QED
    BY <1>1, SessionKeeps DEF TypeOK

\* An abort marks the turn, and moves it nowhere.
LEMMA AbortMarks ==
    ASSUME TypeOK, NEW n \in Turns, NEW timedOut \in BOOLEAN,
           \/ turn' = [turn EXCEPT ![n].aborted = TRUE]
           \/ turn' = [turn EXCEPT ![n].aborted = TRUE, ![n].timedOut = timedOut]
    PROVE  /\ turn' \in [Turns -> Turn]
           /\ \A k \in Turns : /\ turn'[k].step = turn[k].step /\ turn'[k].round = turn[k].round
                               /\ turn'[k].state = turn[k].state
                               /\ turn'[k].committed = turn[k].committed
<1>1. turn \in [Turns -> Turn] /\ turn[n] \in Turn
    BY DEF TypeOK
<1> DEFINE a == [turn[n] EXCEPT !.aborted = TRUE]
           b == [turn[n] EXCEPT !.aborted = TRUE, !.timedOut = timedOut]
<1>2. /\ a \in Turn /\ a.step = turn[n].step /\ a.round = turn[n].round
      /\ a.state = turn[n].state /\ a.committed = turn[n].committed
    BY <1>1, Zenon DEF Turn
<1>3. /\ b \in Turn /\ b.step = turn[n].step /\ b.round = turn[n].round
      /\ b.state = turn[n].state /\ b.committed = turn[n].committed
    BY <1>1, Zenon DEF Turn
<1>4. turn' = [turn EXCEPT ![n] = a] \/ turn' = [turn EXCEPT ![n] = b]
    BY <1>1
<1> HIDE DEF a, b
<1>5. QED
    BY <1>1, <1>2, <1>3, <1>4

LEMMA AbortKeeps == ASSUME IInv, Abort PROVE IInv'
<1>1. TypeOK
    BY DEF IInv
<1>2. PICK n \in Turns : n = session.inFlight
    BY <1>1 DEF Abort, TypeOK, Session
<1>3. PICK timedOut \in BOOLEAN :
          turn' = [turn EXCEPT ![n].aborted = TRUE, ![n].timedOut = timedOut]
    BY <1>2, Zenon DEF Abort
<1>4. /\ turn' \in [Turns -> Turn]
      /\ \A k \in Turns : /\ turn'[k].step = turn[k].step /\ turn'[k].round = turn[k].round
                          /\ turn'[k].state = turn[k].state
                          /\ turn'[k].committed = turn[k].committed
    BY <1>1, <1>3, AbortMarks, Zenon
<1>5. QED
    BY <1>1, <1>4, SessionKeeps DEF Abort, TypeOK

\* A turn without a result keeps the count of the session's turns.
LEMMA SettledType ==
    ASSUME TypeOK, NEW n \in Turns
    PROVE  Settled(n) \in Session /\ Settled(n).next = session.next /\ Settled(n).inFlight = 0
           /\ Settled(n).playing = session.playing /\ Settled(n).phase = session.phase
<1>1. session \in Session /\ turn[n].words \subseteq Turns
    BY DEF TypeOK, Turn
<1>2. QED
    BY <1>1, Zenon DEF Settled, Session

LEMMA UnansweredKeeps == ASSUME IInv, Abandon \/ TurnCancelled PROVE IInv'
<1>1. TypeOK
    BY DEF IInv
<1>2. PICK n \in Turns : n = session.inFlight
    BY <1>1 DEF Abandon, TurnCancelled, TypeOK, Session
<1>3. /\ session' = Settled(n)
      /\ UNCHANGED <<turn, pending, transcript, saved, acted, errors>>
      /\ abandoned' \subseteq Turns
    BY <1>1, <1>2 DEF Abandon, TurnCancelled, TypeOK
<1>4. QED
    BY <1>1, <1>3, SettledType, QuietKeeps

LEMMA TurnFailsKeeps == ASSUME IInv, TurnFails PROVE IInv'
<1>1. TypeOK /\ session \in Session
    BY DEF IInv, TypeOK
<1>2. session' \in Session /\ session'.next = session.next
    BY <1>1 DEF TurnFails, Session
<1>3. QED
    BY <1>1, <1>2, QuietKeeps DEF TurnFails, TypeOK

\* What a delivery that is reported, or not heard, does to the store.
LEMMA DeliveryKeeps ==
    ASSUME IInv, turn' \in [Turns -> Turn], session' \in Session, session'.next = session.next,
           \A k \in Turns : /\ turn'[k].step = turn[k].step /\ turn'[k].round = turn[k].round
                            /\ turn'[k].state = turn[k].state
                            /\ turn'[k].committed = turn[k].committed,
           UNCHANGED <<saved, acted, abandoned>>,
           ResolveAny \/ \E n, delivery : delivery \in Delivery /\ Resolve(n, delivery)
    PROVE  IInv'
<1>1. TypeOK
    BY DEF IInv
<1>2. QED
    BY <1>1, ResolveType, SessionKeeps DEF TypeOK

LEMMA PlaybackKeeps == ASSUME IInv, Play \/ NotSpoken \/ PlaybackSettles \/ Close PROVE IInv'
<1>1. TypeOK /\ session \in Session /\ turn \in [Turns -> Turn]
    BY DEF IInv, TypeOK
<1>2. UNCHANGED <<turn, saved, acted, abandoned>>
    BY DEF Play, NotSpoken, PlaybackSettles, Close
<1>3. session' \in Session /\ session'.next = session.next
  <2>1. CASE Play
      BY <1>1, <2>1, Zenon DEF Play, Session
  <2>2. CASE NotSpoken
      BY <1>1, <2>2 DEF NotSpoken, Session
  <2>3. CASE PlaybackSettles
      BY <1>1, <2>3 DEF PlaybackSettles, Session
  <2>4. CASE Close
      BY <1>1, <2>4 DEF Close, Session
  <2>5. QED
      BY <2>1, <2>2, <2>3, <2>4
<1>4. ResolveAny \/ \E n, delivery : delivery \in Delivery /\ Resolve(n, delivery)
    BY Zenon DEF Play, NotSpoken, PlaybackSettles, Close, Delivery
<1>5. QED
    BY <1>1, <1>2, <1>3, <1>4, DeliveryKeeps

LEMMA EndKeeps == ASSUME IInv, End PROVE IInv'
<1>1. TypeOK /\ session \in Session /\ turn \in [Turns -> Turn]
    BY DEF IInv, TypeOK
<1>2. /\ Resolve(session.playing, "interrupted") /\ "interrupted" \in Delivery
      /\ UNCHANGED <<saved, acted, abandoned>>
    BY DEF End, Delivery
<1>3. session' \in Session /\ session'.next = session.next
    BY <1>1, Zenon DEF End, Session
<1>4. /\ turn' \in [Turns -> Turn]
      /\ \A k \in Turns : /\ turn'[k].step = turn[k].step /\ turn'[k].round = turn[k].round
                          /\ turn'[k].state = turn[k].state
                          /\ turn'[k].committed = turn[k].committed
  <2>1. CASE session.inFlight = 0
      BY <1>1, <2>1 DEF End
  <2>2. CASE session.inFlight # 0
    <3>1. PICK n \in Turns : n = session.inFlight
        BY <1>1, <2>2 DEF Session
    <3>2. turn' = [turn EXCEPT ![n].aborted = TRUE]
        BY <2>2, <3>1 DEF End
    <3>3. QED
        BY <1>1, <3>2, AbortMarks, Zenon
  <2>3. QED
      BY <2>1, <2>2
<1>5. QED
    BY <1>1, <1>2, <1>3, <1>4, DeliveryKeeps

LEMMA Inductive == IInv /\ [Next]_vars => IInv'
<1> SUFFICES ASSUME IInv, [Next]_vars
             PROVE  IInv'
    OBVIOUS
<1>1. ASSUME NEW n \in Turns,
             \/ Begin(n) \/ LoadContext(n) \/ SystemActions(n) \/ Model(n)
             \/ ToolRound(n) \/ Persist(n) \/ Save(n)
      PROVE  IInv'
    BY <1>1, BeginKeeps, LoadContextKeeps, SystemActionsKeep, ModelKeeps, ToolRoundKeeps,
       PersistKeeps, SaveKeeps
<1>2. CASE \/ Commit \/ Abort \/ Abandon \/ TurnCancelled \/ TurnFails \/ Play \/ NotSpoken
           \/ PlaybackSettles \/ End \/ Close
    BY <1>2, CommitKeeps, AbortKeeps, UnansweredKeeps, TurnFailsKeeps, PlaybackKeeps, EndKeeps
<1>3. CASE UNCHANGED vars
    BY <1>3, Zenon
       DEF vars, IInv, TypeOK, NoneIsAhead, TracesAreOfRecorded, CancelledIsUncommitted, Recorded
<1>4. QED
    BY <1>1, <1>2, <1>3 DEF Next

\* The variables keep their types.
THEOREM TypeCorrect == Spec => []TypeOK
<1>1. IInv => TypeOK
    BY DEF IInv
<1>2. QED
    BY Initial, Inductive, <1>1, PTL DEF Spec

\* Wherever the barge-in strikes, a cancelled turn has written no row, holds no reply, is
\* in no saved state, and no action of it had reported that it was done (checkpoint and
\* persistence of agent-runtime.ts).
THEOREM CancelledIsNowhere == Spec => []CancelledPersistsNothing
<1>1. IInv => CancelledPersistsNothing
  <2> SUFFICES ASSUME IInv, NEW n \in Turns, turn[n].step = "cancelled"
               PROVE  /\ ~turn[n].committed
                      /\ n \notin saved
                      /\ pending.turn # n
                      /\ \A i \in DOMAIN transcript : transcript[i].turn # n
      BY DEF CancelledPersistsNothing
  <2>1. n \notin Recorded
      BY DEF Recorded
  <2>2. pending = NoReply => pending.turn # n
      BY TurnsArePositive DEF NoReply
  <2>3. QED
      BY <2>1, <2>2 DEF IInv, TracesAreOfRecorded, CancelledIsUncommitted
<1>2. QED
    BY Initial, Inductive, <1>1, PTL DEF Spec

-------------------------------------------------------------------------------
(* The invariant: what is on record while nothing is given up and nothing fails.  *)

\* One turn at a time, and it is the last that was committed.
OneAtATime ==
    /\ \A n \in Turns : turn[n].step \in Running => n = session.inFlight
    /\ \A n \in Turns : turn[n].step # "failed"
    /\ session.inFlight # 0 => session.inFlight = session.next - 1
    /\ session.phase = "closed" => session.inFlight = 0 /\ pending = NoReply

Answered == {n \in Turns : turn[n].step = "returned"}

\* What a turn has loaded is what the turns before it saved.
StateIsCurrent ==
    /\ saved = Answered
    /\ \A n \in Turns :
          turn[n].step \in {"actions", "model", "tool", "persistence", "save"} =>
              turn[n].state = saved

\* The caller's words are written, the reply to them held.
HalfOnRecord(n) ==
    \E i \in DOMAIN transcript : RowsOf(n) = {i} /\ transcript[i] = CallerRow(n)

ReplyIsHeldOrWritten ==
    \A n \in Turns :
        /\ turn[n].step \in {"context", "actions", "model", "tool", "persistence"} =>
               pending = NoReply
        /\ turn[n].step = "save" => pending = [turn |-> n, boundTo |-> 0]
        /\ turn[n].step \in {"save", "returned"} =>
               IF pending.turn = n THEN HalfOnRecord(n) ELSE OnRecord(n)

InOrder ==
    /\ \A i, j \in DOMAIN transcript : i <= j => transcript[i].turn <= transcript[j].turn
    /\ pending # NoReply => \A i \in DOMAIN transcript : transcript[i].turn <= pending.turn

Orderly == OneAtATime /\ StateIsCurrent /\ ReplyIsHeldOrWritten /\ InOrder

OrderInv == abandoned = {} /\ errors = 0 => Orderly


-------------------------------------------------------------------------------
(* What a row does to the record.                                           *)

\* A row that is appended is the last of its turn's.
LEMMA AppendedRows ==
    ASSUME TypeOK, NEW row \in Row, transcript' = Append(transcript, row)
    PROVE  /\ Len(transcript) \in Nat
           /\ DOMAIN transcript = 1 .. Len(transcript)
           /\ DOMAIN transcript' = 1 .. Len(transcript) + 1
           /\ \A i \in DOMAIN transcript : i \in DOMAIN transcript' /\ transcript'[i] = transcript[i]
           /\ transcript'[Len(transcript) + 1] = row
           /\ \A n : RowsOf(n)' = IF row.turn = n THEN RowsOf(n) \cup {Len(transcript) + 1}
                                  ELSE RowsOf(n)
<1>1. transcript \in Seq(Row)
    BY DEF TypeOK
<1>2. /\ Len(transcript) \in Nat
      /\ DOMAIN transcript = 1 .. Len(transcript)
      /\ DOMAIN transcript' = 1 .. Len(transcript) + 1
      /\ \A i \in DOMAIN transcript : i \in DOMAIN transcript' /\ transcript'[i] = transcript[i]
      /\ transcript'[Len(transcript) + 1] = row
    BY <1>1
<1>3. ASSUME NEW n
      PROVE  RowsOf(n)' = IF row.turn = n THEN RowsOf(n) \cup {Len(transcript) + 1}
                          ELSE RowsOf(n)
  <2>1. \A i : i \in DOMAIN transcript' <=> i \in DOMAIN transcript \/ i = Len(transcript) + 1
      BY <1>2
  <2>2. RowsOf(n)' = {i \in DOMAIN transcript' : transcript'[i].turn = n}
      BY DEF RowsOf
  <2>3. \A i : i \in RowsOf(n)' <=> i \in RowsOf(n) \/ (i = Len(transcript) + 1 /\ row.turn = n)
      BY <1>2, <2>1, <2>2 DEF RowsOf
  <2>4. QED
      BY <2>3, Zenon
<1>4. QED
    BY <1>2, <1>3

\* The delivery of the held reply completes the record of its turn, and of no other.
LEMMA DeliveryIsRecorded ==
    ASSUME TypeOK, InOrder, pending # NoReply, NEW delivery \in Delivery, pending' = NoReply,
           transcript' = Append(transcript, AgentRow(pending.turn, delivery))
    PROVE  /\ \A n : n # pending.turn /\ OnRecord(n) => OnRecord(n)'
           /\ \A n : n = pending.turn /\ HalfOnRecord(n) => OnRecord(n)'
           /\ InOrder'
<1> DEFINE row == AgentRow(pending.turn, delivery)
           last == Len(transcript) + 1
<1>1. /\ row \in Row /\ row.turn = pending.turn /\ row.speaker = "agent"
      /\ pending.turn \in Turns
    BY DEF TypeOK, AgentRow, Row
<1>2. transcript' = Append(transcript, row)
    OBVIOUS
<1> HIDE DEF row
<1>3. /\ Len(transcript) \in Nat
      /\ DOMAIN transcript = 1 .. Len(transcript)
      /\ DOMAIN transcript' = 1 .. last
      /\ \A i \in DOMAIN transcript : i \in DOMAIN transcript' /\ transcript'[i] = transcript[i]
      /\ transcript'[last] = row
      /\ \A n : RowsOf(n)' = IF row.turn = n THEN RowsOf(n) \cup {last} ELSE RowsOf(n)
    BY <1>1, <1>2, AppendedRows
<1>4. ASSUME NEW n, n # pending.turn, OnRecord(n)
      PROVE  OnRecord(n)'
  <2>1. PICK i, j \in DOMAIN transcript :
            /\ i < j
            /\ RowsOf(n) = {i, j}
            /\ transcript[i] = CallerRow(n)
            /\ transcript[j].speaker = "agent"
      BY <1>4 DEF OnRecord
  <2>2. RowsOf(n)' = {i, j}
      BY <1>1, <1>3, <1>4, <2>1
  <2>3. /\ i \in DOMAIN transcript' /\ j \in DOMAIN transcript'
        /\ transcript'[i] = CallerRow(n) /\ transcript'[j].speaker = "agent"
      BY <1>3, <2>1
  <2>4. QED
      BY <2>1, <2>2, <2>3 DEF OnRecord, CallerRow
<1>5. ASSUME NEW n, n = pending.turn, HalfOnRecord(n)
      PROVE  OnRecord(n)'
  <2>1. PICK i \in DOMAIN transcript : RowsOf(n) = {i} /\ transcript[i] = CallerRow(n)
      BY <1>5 DEF HalfOnRecord
  <2>2. RowsOf(n)' = {i, last}
      BY <1>1, <1>3, <1>5, <2>1
  <2>3. i \in DOMAIN transcript' /\ last \in DOMAIN transcript' /\ i < last
      BY <1>3, <2>1
  <2>4. transcript'[i] = CallerRow(n) /\ transcript'[last].speaker = "agent"
      BY <1>1, <1>3, <2>1
  <2>5. QED
      BY <2>2, <2>3, <2>4 DEF OnRecord, CallerRow
<1>6. InOrder'
  <2>1. \A i \in DOMAIN transcript' : transcript'[i].turn \in Turns
    <3>1. \A i \in DOMAIN transcript : transcript[i] \in Row
        BY DEF TypeOK
    <3>2. QED
        BY <1>1, <1>3, <3>1 DEF Row
  <2>2. ASSUME NEW i \in DOMAIN transcript', NEW j \in DOMAIN transcript', i <= j
        PROVE  transcript'[i].turn <= transcript'[j].turn
    <3>1. CASE j \in DOMAIN transcript
      <4>1. i \in DOMAIN transcript
          BY <1>3, <2>2, <3>1
      <4>2. QED
          BY <1>3, <2>2, <3>1, <4>1 DEF InOrder
    <3>2. CASE j = last /\ i \in DOMAIN transcript
        BY <1>1, <1>3, <3>2 DEF InOrder
    <3>3. CASE j = last /\ i = last
        BY <2>1, <3>3, TurnsArePositive
    <3>4. QED
        BY <1>3, <2>2, <3>1, <3>2, <3>3
  <2>3. QED
      BY <2>2 DEF InOrder
<1>7. QED
    BY <1>4, <1>5, <1>6

\* The caller's row is the first of its turn, and the turn later than any on record.
LEMMA UtteranceIsRecorded ==
    ASSUME TypeOK, InOrder, NEW n \in Turns,
           \A i \in DOMAIN transcript : transcript[i].turn < n,
           transcript' = Append(transcript, CallerRow(n)),
           pending' = [turn |-> n, boundTo |-> 0]
    PROVE  /\ \A k : k # n /\ OnRecord(k) => OnRecord(k)'
           /\ HalfOnRecord(n)'
           /\ InOrder'
<1> DEFINE last == Len(transcript) + 1
<1>1. CallerRow(n) \in Row /\ CallerRow(n).turn = n /\ n \in Nat
    BY TurnsArePositive DEF CallerRow, Row
<1>2. /\ Len(transcript) \in Nat
      /\ DOMAIN transcript = 1 .. Len(transcript)
      /\ DOMAIN transcript' = 1 .. last
      /\ \A i \in DOMAIN transcript : i \in DOMAIN transcript' /\ transcript'[i] = transcript[i]
      /\ transcript'[last] = CallerRow(n)
      /\ \A k : RowsOf(k)' = IF n = k THEN RowsOf(k) \cup {last} ELSE RowsOf(k)
    BY <1>1, AppendedRows
<1>3. ASSUME NEW k, k # n, OnRecord(k)
      PROVE  OnRecord(k)'
  <2>1. PICK i, j \in DOMAIN transcript :
            /\ i < j
            /\ RowsOf(k) = {i, j}
            /\ transcript[i] = CallerRow(k)
            /\ transcript[j].speaker = "agent"
      BY <1>3 DEF OnRecord
  <2>2. RowsOf(k)' = {i, j}
      BY <1>2, <1>3, <2>1
  <2>3. /\ i \in DOMAIN transcript' /\ j \in DOMAIN transcript'
        /\ transcript'[i] = CallerRow(k) /\ transcript'[j].speaker = "agent"
      BY <1>2, <2>1
  <2>4. QED
      BY <2>1, <2>2, <2>3, Zenon DEF OnRecord, CallerRow
<1>4. HalfOnRecord(n)'
  <2>1. RowsOf(n) = {}
      BY <1>1 DEF RowsOf
  <2>2. RowsOf(n)' = {last} /\ last \in DOMAIN transcript'
      BY <1>2, <2>1
  <2>3. QED
      BY <1>2, <2>2 DEF HalfOnRecord, CallerRow
<1>5. \A i \in DOMAIN transcript' : transcript'[i].turn \in Nat /\ transcript'[i].turn <= n
  <2>1. \A i \in DOMAIN transcript : transcript[i] \in Row
      BY DEF TypeOK
  <2>2. \A i \in DOMAIN transcript : transcript[i].turn \in Nat
      BY <2>1, TurnsArePositive DEF Row
  <2>3. \A i \in DOMAIN transcript' : i \in DOMAIN transcript \/ i = last
      BY <1>2
  <2>4. QED
      BY <1>1, <1>2, <2>2, <2>3
<1>6. InOrder'
  <2>2. ASSUME NEW i \in DOMAIN transcript', NEW j \in DOMAIN transcript', i <= j
        PROVE  transcript'[i].turn <= transcript'[j].turn
    <3>1. CASE j \in DOMAIN transcript
      <4>1. i \in DOMAIN transcript
          BY <1>2, <2>2, <3>1
      <4>2. QED
          BY <1>2, <2>2, <3>1, <4>1 DEF InOrder
    <3>2. CASE j = last
        BY <1>1, <1>2, <1>5, <3>2
    <3>3. QED
        BY <1>2, <2>2, <3>1, <3>2
  <2>3. QED
      BY <1>5, <2>2 DEF InOrder
<1>7. QED
    BY <1>3, <1>4, <1>6

\* While no statement fails, a report is either on nothing that is held, or completes the
\* record of the held reply, which then belongs to a turn that has returned.
LEMMA ResolutionIsOrderly ==
    ASSUME IInv, ReplyIsHeldOrWritten, InOrder, errors' = errors,
           \/ ResolveAny /\ \A k \in Turns : turn[k].step # "save"
           \/ \E n, delivery : delivery \in Delivery /\ Resolve(n, delivery),
           \A k \in Turns :
              /\ turn'[k].step \in {"save", "returned"} => turn[k].step = turn'[k].step
              /\ turn'[k].step \in {"context", "actions", "model", "tool", "persistence"} =>
                    turn[k].step = turn'[k].step \/ pending' = NoReply
    PROVE  ReplyIsHeldOrWritten' /\ InOrder'
<1>1. TypeOK /\ errors \in Nat
    BY TurnsAssumption DEF IInv, TypeOK
<1>2. CASE pending' = pending /\ transcript' = transcript
  <2>1. \A k : (OnRecord(k) => OnRecord(k)') /\ (HalfOnRecord(k) => HalfOnRecord(k)')
      BY <1>2 DEF OnRecord, HalfOnRecord, RowsOf, CallerRow
  <2>2. InOrder'
      BY <1>2 DEF InOrder, NoReply
  <2>3. ReplyIsHeldOrWritten'
      BY <1>2, <2>1 DEF ReplyIsHeldOrWritten
  <2>4. QED
      BY <2>2, <2>3
<1>3. ASSUME NEW delivery \in Delivery, pending # NoReply, pending' = NoReply,
             Write(AgentRow(pending.turn, delivery)),
             \A k \in Turns : turn[k].step # "save"
      PROVE  ReplyIsHeldOrWritten' /\ InOrder'
  <2>1. transcript' = Append(transcript, AgentRow(pending.turn, delivery))
      BY <1>1, <1>3 DEF Write, Error
  <2>2. /\ \A k : k # pending.turn /\ OnRecord(k) => OnRecord(k)'
        /\ \A k : k = pending.turn /\ HalfOnRecord(k) => OnRecord(k)'
        /\ InOrder'
      BY <1>1, <1>3, <2>1, DeliveryIsRecorded
  <2>3. \A k \in Turns : pending'.turn # k
      BY <1>3, TurnsArePositive DEF NoReply
  <2>4. ReplyIsHeldOrWritten'
      BY <1>3, <2>2, <2>3 DEF ReplyIsHeldOrWritten
  <2>5. QED
      BY <2>2, <2>4
<1>4. CASE ResolveAny /\ \A k \in Turns : turn[k].step # "save"
  <2>1. "not_delivered" \in Delivery
      BY DEF Delivery
  <2>2. QED
      BY <1>2, <1>3, <1>4, <2>1 DEF ResolveAny, NoWrite
<1>5. ASSUME NEW n, NEW delivery \in Delivery, Resolve(n, delivery)
      PROVE  ReplyIsHeldOrWritten' /\ InOrder'
  <2>1. CASE pending # NoReply /\ n # 0 /\ pending.boundTo = n
    <3>1. \A k \in Turns : turn[k].step # "save"
        BY <2>1 DEF ReplyIsHeldOrWritten
    <3>2. pending' = NoReply /\ Write(AgentRow(pending.turn, delivery))
        BY <1>5, <2>1 DEF Resolve
    <3>3. QED
        BY <1>3, <2>1, <3>1, <3>2
  <2>2. CASE ~(pending # NoReply /\ n # 0 /\ pending.boundTo = n)
      BY <1>2, <1>5, <2>2 DEF Resolve, NoWrite
  <2>3. QED
      BY <2>1, <2>2
<1>6. QED
    BY <1>4, <1>5

-------------------------------------------------------------------------------
(* The steps of the pipeline keep the record in order.                      *)

\* A step to another await that writes nothing.
LEMMA AwaitIsOrderly ==
    ASSUME IInv, Orderly, NEW n \in Turns, NEW t \in Turn, NEW to, Proceed(n, t, to),
           to \in {"actions", "model", "tool", "persistence"},
           turn[n].step \in {"context", "actions", "model", "tool", "persistence"},
           t.state = saved,
           UNCHANGED <<session, pending, transcript, saved>>
    PROVE  Orderly'
<1>0. TypeOK /\ OneAtATime /\ StateIsCurrent /\ ReplyIsHeldOrWritten /\ InOrder
    BY DEF IInv, Orderly
<1>1. /\ \A k \in Turns \ {n} : turn'[k] = turn[k]
      /\ turn'[n].step \in {to, "cancelled"}
      /\ turn'[n].state = saved
  <2>1. to \in Step
      BY DEF Step
  <2>2. QED
      BY <1>0, <2>1, ProceedType
<1>2. n = session.inFlight
    BY <1>0 DEF OneAtATime, Running
<1>3. OneAtATime'
    BY <1>0, <1>1, <1>2, TurnsArePositive DEF OneAtATime, Running
<1>4. StateIsCurrent'
  <2>1. Answered' = Answered
      BY <1>1 DEF Answered
  <2>2. QED
      BY <1>0, <1>1, <2>1 DEF StateIsCurrent
<1>5. \A k : (OnRecord(k) => OnRecord(k)') /\ (HalfOnRecord(k) => HalfOnRecord(k)')
    BY DEF OnRecord, HalfOnRecord, RowsOf, CallerRow
<1>6. ReplyIsHeldOrWritten'
    BY <1>0, <1>1, <1>5 DEF ReplyIsHeldOrWritten
<1>7. InOrder'
    BY <1>0 DEF InOrder, NoReply
<1>8. QED
    BY <1>3, <1>4, <1>6, <1>7 DEF Orderly

\* The turn that is called is the only one that runs, and resolves what is held.
LEMMA BeginIsOrderly ==
    ASSUME IInv, Orderly, NEW n \in Turns, Begin(n), errors' = errors
    PROVE  Orderly'
<1>0. /\ TypeOK /\ OneAtATime /\ StateIsCurrent /\ ReplyIsHeldOrWritten /\ InOrder
      /\ turn[n] \in Turn /\ errors \in Nat
    BY TurnsAssumption DEF IInv, Orderly, TypeOK
<1>1. /\ turn[n].step = "called" /\ ResolveAny /\ Proceed(n, turn[n], "context")
      /\ session' = session /\ saved' = saved
    BY <1>0 DEF Begin
<1>2. /\ \A k \in Turns \ {n} : turn'[k] = turn[k]
      /\ turn'[n].step \in {"context", "cancelled"}
  <2>1. "context" \in Step
      BY DEF Step
  <2>2. QED
      BY <1>0, <1>1, <2>1, ProceedType
<1>3. n = session.inFlight /\ \A k \in Turns : turn[k].step # "save"
    BY <1>0, <1>1 DEF OneAtATime, Running
<1>4. pending' = NoReply
    BY <1>1 DEF ResolveAny
<1>5. ReplyIsHeldOrWritten' /\ InOrder'
  <2>1. \A k \in Turns :
           /\ turn'[k].step \in {"save", "returned"} => turn[k].step = turn'[k].step
           /\ turn'[k].step \in {"context", "actions", "model", "tool", "persistence"} =>
                 turn[k].step = turn'[k].step \/ pending' = NoReply
      BY <1>2, <1>4
  <2>2. QED
      BY <1>0, <1>1, <1>3, <2>1, ResolutionIsOrderly
<1>6. OneAtATime'
    BY <1>0, <1>1, <1>2, <1>3, TurnsArePositive DEF OneAtATime, Running
<1>7. StateIsCurrent'
  <2>1. Answered' = Answered
      BY <1>1, <1>2 DEF Answered
  <2>2. QED
      BY <1>0, <1>1, <1>2, <2>1 DEF StateIsCurrent
<1>8. QED
    BY <1>5, <1>6, <1>7 DEF Orderly

LEMMA LoadContextIsOrderly ==
    ASSUME IInv, Orderly, NEW n \in Turns, LoadContext(n), errors' = errors
    PROVE  Orderly'
<1>0. turn[n] \in Turn /\ saved \subseteq Turns /\ errors \in Nat
    BY TurnsAssumption DEF IInv, TypeOK
<1> DEFINE t == [turn[n] EXCEPT !.state = saved]
<1>1. t \in Turn /\ t.state = saved
    BY <1>0 DEF Turn
<1>2. /\ Proceed(n, t, "actions") /\ turn[n].step = "context"
      /\ UNCHANGED <<session, pending, transcript, saved>>
    BY <1>0 DEF LoadContext, Error
<1> HIDE DEF t
<1>3. QED
    BY <1>1, <1>2, AwaitIsOrderly

LEMMA PerformanceIsOrderly ==
    ASSUME IInv, Orderly, NEW n \in Turns, NEW t \in Turn, Performs(n, t),
           turn[n].step \in {"actions", "tool"}, t.state = saved,
           UNCHANGED <<session, pending, transcript, saved>>
    PROVE  Orderly'
<1>1. PICK u \in Turn : u.state = saved /\ Proceed(n, u, "model")
  <2>1. CASE Proceed(n, t, "model")
      BY <2>1
  <2>2. ASSUME NEW reported \in BOOLEAN,
               Proceed(n, [t EXCEPT !.committed = t.committed \/ reported], "model")
        PROVE  \E u \in Turn : u.state = saved /\ Proceed(n, u, "model")
    <3> DEFINE committed == t.committed \/ reported
    <3>1. committed \in BOOLEAN /\ Proceed(n, [t EXCEPT !.committed = committed], "model")
        BY <2>2
    <3> HIDE DEF committed
    <3>2. [t EXCEPT !.committed = committed] \in Turn
          /\ [t EXCEPT !.committed = committed].state = saved
        BY <3>1, Zenon DEF Turn
    <3>3. QED
        BY <3>1, <3>2
  <2>3. QED
      BY <2>1, <2>2 DEF Performs
<1>2. QED
    BY <1>1, AwaitIsOrderly

LEMMA SystemActionsAreOrderly ==
    ASSUME IInv, Orderly, NEW n \in Turns, SystemActions(n)
    PROVE  Orderly'
<1>1. /\ turn[n] \in Turn /\ turn[n].step = "actions" /\ turn[n].state = saved
      /\ UNCHANGED <<session, pending, transcript, saved>> /\ Performs(n, turn[n])
    BY DEF IInv, TypeOK, SystemActions, Orderly, StateIsCurrent
<1>2. QED
    BY <1>1, PerformanceIsOrderly

LEMMA ModelIsOrderly ==
    ASSUME IInv, Orderly, NEW n \in Turns, Model(n)
    PROVE  Orderly'
<1>0. /\ turn[n] \in Turn /\ turn[n].step = "model" /\ turn[n].state = saved
      /\ UNCHANGED <<session, pending, transcript, saved>>
    BY DEF IInv, TypeOK, Model, Orderly, StateIsCurrent
<1>1. Proceed(n, turn[n], "persistence") \/ Proceed(n, turn[n], "tool")
    BY DEF Model
<1>2. QED
    BY <1>0, <1>1, AwaitIsOrderly

LEMMA ToolRoundIsOrderly ==
    ASSUME IInv, Orderly, NEW n \in Turns, ToolRound(n)
    PROVE  Orderly'
<1>0. /\ turn[n] \in Turn /\ turn[n].step = "tool" /\ turn[n].state = saved
      /\ turn[n].round < MaxToolRounds /\ MaxToolRounds \in Nat
      /\ UNCHANGED <<session, pending, transcript, saved>>
    BY TurnsAssumption DEF IInv, TypeOK, ToolRound, Orderly, StateIsCurrent, NoneIsAhead
<1> DEFINE t == [turn[n] EXCEPT !.round = @ + 1]
<1>1. t \in Turn /\ t.state = saved
  <2>1. turn[n].round + 1 \in 0 .. MaxToolRounds
      BY <1>0 DEF Turn
  <2>2. QED
      BY <1>0, <2>1 DEF Turn
<1>2. Performs(n, t)
    BY DEF ToolRound
<1> HIDE DEF t
<1>3. QED
    BY <1>0, <1>1, <1>2, PerformanceIsOrderly

\* The words of the turn are the latest on record, and its reply is held.
LEMMA PersistIsOrderly ==
    ASSUME IInv, Orderly, NEW n \in Turns, Persist(n), errors' = errors
    PROVE  Orderly'
<1>0. /\ TypeOK /\ OneAtATime /\ StateIsCurrent /\ ReplyIsHeldOrWritten /\ InOrder
      /\ NoneIsAhead /\ TracesAreOfRecorded
      /\ turn[n] \in Turn /\ errors \in Nat /\ session \in Session
    BY TurnsAssumption DEF IInv, Orderly, TypeOK
<1>1. /\ turn[n].step = "persistence" /\ turn[n].state = saved
      /\ UNCHANGED <<session, saved, acted, abandoned>>
    BY <1>0 DEF Persist, StateIsCurrent
<1>2. CASE Cancelled(turn[n])
  <2>1. Proceed(n, turn[n], "persistence") /\ UNCHANGED <<pending, transcript>>
      BY <1>2 DEF Persist, Proceed, NoWrite
  <2>2. QED
      BY <1>0, <1>1, <2>1, AwaitIsOrderly
<1>3. CASE ~Cancelled(turn[n])
  <2>1. /\ pending' = [turn |-> n, boundTo |-> 0]
        /\ transcript' = Append(transcript, CallerRow(n))
        /\ turn' = [turn EXCEPT ![n].step = "save"]
      BY <1>0, <1>3 DEF Persist, Write, Error
  <2>2. /\ \A k \in Turns \ {n} : turn'[k] = turn[k]
        /\ turn'[n].step = "save" /\ turn'[n].state = saved
    <3> DEFINE next == [turn[n] EXCEPT !.step = "save"]
    <3>1. next.step = "save" /\ next.state = saved
        BY <1>0, <1>1 DEF Turn
    <3>2. turn' = [turn EXCEPT ![n] = next]
        BY <2>1
    <3> HIDE DEF next
    <3>3. QED
        BY <1>0, <3>1, <3>2 DEF TypeOK
  <2>3. n = session.inFlight /\ n = session.next - 1 /\ session.next \in Nat
      BY <1>0, <1>1, TurnsArePositive, TurnsAssumption DEF OneAtATime, Running, Session
  <2>4. \A i \in DOMAIN transcript : transcript[i].turn < n
    <3>1. SUFFICES ASSUME NEW k \in Recorded PROVE k < n
        BY <1>0 DEF TracesAreOfRecorded
    <3>2. k \in Turns /\ turn[k].step # "none" /\ k # n
        BY <1>1 DEF Recorded
    <3>3. k < session.next /\ k \in Nat
        BY <1>0, <2>3, <3>2, TurnsArePositive DEF NoneIsAhead
    <3>4. QED
        BY <2>3, <3>2, <3>3, TurnsArePositive
  <2>5. /\ \A k : k # n /\ OnRecord(k) => OnRecord(k)'
        /\ HalfOnRecord(n)'
        /\ InOrder'
      BY <1>0, <2>1, <2>4, UtteranceIsRecorded
  <2>6. pending'.turn = n /\ pending = NoReply
      BY <1>0, <1>1, <2>1 DEF ReplyIsHeldOrWritten
  <2>7. ReplyIsHeldOrWritten'
    <3>1. \A k \in Turns \ {n} : turn[k].step \notin Running
        BY <1>0, <2>3 DEF OneAtATime
    <3>2. \A k \in Turns : pending.turn # k
        BY <2>6, TurnsArePositive DEF NoReply
    <3>3. \A k \in Turns \ {n} : turn[k].step = "returned" => OnRecord(k)'
        BY <1>0, <2>5, <3>2 DEF ReplyIsHeldOrWritten
    <3>4. QED
        BY <2>1, <2>2, <2>5, <2>6, <3>1, <3>3 DEF ReplyIsHeldOrWritten, Running
  <2>8. OneAtATime'
      BY <1>0, <1>1, <2>2, <2>3, TurnsArePositive DEF OneAtATime, Running
  <2>9. StateIsCurrent'
    <3>1. Answered' = Answered
        BY <1>1, <2>2 DEF Answered
    <3>2. QED
        BY <1>0, <1>1, <2>2, <3>1 DEF StateIsCurrent
  <2>10. QED
      BY <2>5, <2>7, <2>8, <2>9 DEF Orderly
<1>4. QED
    BY <1>2, <1>3

\* The state that is saved has seen this turn and all before it.
LEMMA SaveIsOrderly ==
    ASSUME IInv, Orderly, NEW n \in Turns, Save(n), errors' = errors
    PROVE  Orderly'
<1>0. /\ TypeOK /\ OneAtATime /\ StateIsCurrent /\ ReplyIsHeldOrWritten /\ InOrder
      /\ turn[n] \in Turn /\ errors \in Nat
    BY TurnsAssumption DEF IInv, Orderly, TypeOK
<1>1. /\ turn[n].step = "save" /\ turn[n].state = saved
      /\ pending = [turn |-> n, boundTo |-> 0]
      /\ HalfOnRecord(n) /\ n = session.inFlight
      /\ \A k \in Turns \ {n} : turn[k].step \notin Running
    BY <1>0 DEF Save, StateIsCurrent, ReplyIsHeldOrWritten, OneAtATime, Running
<1>2. /\ saved' = saved \cup {n}
      /\ turn' = [turn EXCEPT ![n].step = "returned"]
      /\ UNCHANGED <<session, transcript>>
    BY <1>0, <1>1 DEF Save, Error
<1>3. pending' = [turn |-> n, boundTo |-> n]
  <2>1. pending # NoReply /\ pending.boundTo = 0
      BY <1>1, TurnsArePositive DEF NoReply
  <2>2. pending' = [pending EXCEPT !.boundTo = n]
      BY <2>1 DEF Save
  <2>3. QED
      BY <1>1, <2>2
<1>4. /\ \A k \in Turns \ {n} : turn'[k] = turn[k]
      /\ turn'[n].step = "returned"
  <2> DEFINE next == [turn[n] EXCEPT !.step = "returned"]
  <2>1. next.step = "returned"
      BY <1>0 DEF Turn
  <2>2. turn' = [turn EXCEPT ![n] = next]
      BY <1>2
  <2> HIDE DEF next
  <2>3. QED
      BY <1>0, <2>1, <2>2 DEF TypeOK
<1>5. OneAtATime'
    BY <1>0, <1>1, <1>2, <1>4, TurnsArePositive DEF OneAtATime, Running
<1>6. StateIsCurrent'
  <2>1. Answered' = Answered \cup {n}
      BY <1>4 DEF Answered
  <2>2. \A k \in Turns : turn'[k].step \notin Running
      BY <1>1, <1>4 DEF Running
  <2>3. QED
      BY <1>0, <1>2, <2>1, <2>2 DEF StateIsCurrent, Running
<1>7. \A k : (OnRecord(k) => OnRecord(k)') /\ (HalfOnRecord(k) => HalfOnRecord(k)')
    BY <1>2 DEF OnRecord, HalfOnRecord, RowsOf, CallerRow
<1>8. ReplyIsHeldOrWritten'
  <2>1. pending.turn = n /\ pending'.turn = n /\ HalfOnRecord(n)'
      BY <1>1, <1>3, <1>7
  <2>2. \A k \in Turns \ {n} : turn[k].step = "returned" => OnRecord(k)'
      BY <1>0, <1>7, <2>1 DEF ReplyIsHeldOrWritten
  <2>3. \A k \in Turns : turn'[k].step \notin Running
      BY <1>1, <1>4 DEF Running
  <2>4. QED
      BY <1>4, <2>1, <2>2, <2>3 DEF ReplyIsHeldOrWritten, Running
<1>9. InOrder'
    BY <1>0, <1>1, <1>2, <1>3, TurnsArePositive DEF InOrder, NoReply
<1>10. QED
    BY <1>5, <1>6, <1>8, <1>9 DEF Orderly

-------------------------------------------------------------------------------
(* The steps of the media session keep the record in order.                 *)

\* A step of the session that moves no turn on, while the next utterance waits.
LEMMA SessionIsOrderly ==
    ASSUME IInv, Orderly, saved' = saved, session'.next = session.next,
           \A k \in Turns : turn'[k].step = turn[k].step /\ turn'[k].state = turn[k].state,
           \/ session'.inFlight = session.inFlight
           \/ session'.inFlight = 0 /\ turn[session.inFlight].step \notin Running,
           \/ session'.phase = session.phase /\ (pending' \in {pending, NoReply})
           \/ session'.phase # "closed"
           \/ session'.inFlight = 0 /\ pending' = NoReply,
           \/ UNCHANGED <<pending, transcript>>
           \/ errors' = errors /\ ResolveAny /\ \A k \in Turns : turn[k].step # "save"
           \/ errors' = errors /\ \E n, delivery : delivery \in Delivery /\ Resolve(n, delivery)
    PROVE  Orderly'
<1>0. TypeOK /\ OneAtATime /\ StateIsCurrent /\ ReplyIsHeldOrWritten /\ InOrder
    BY DEF IInv, Orderly
<1>1. OneAtATime'
    BY <1>0 DEF OneAtATime, Running
<1>2. StateIsCurrent'
  <2>1. Answered' = Answered
      BY DEF Answered
  <2>2. QED
      BY <1>0, <2>1 DEF StateIsCurrent
<1>3. ReplyIsHeldOrWritten' /\ InOrder'
  <2>1. CASE UNCHANGED <<pending, transcript>>
    <3>1. \A k : (OnRecord(k) => OnRecord(k)') /\ (HalfOnRecord(k) => HalfOnRecord(k)')
        BY <2>1 DEF OnRecord, HalfOnRecord, RowsOf, CallerRow
    <3>2. ReplyIsHeldOrWritten'
        BY <1>0, <2>1, <3>1 DEF ReplyIsHeldOrWritten
    <3>3. InOrder'
        BY <1>0, <2>1 DEF InOrder, NoReply
    <3>4. QED
        BY <3>2, <3>3
  <2>2. CASE \/ errors' = errors /\ ResolveAny /\ \A k \in Turns : turn[k].step # "save"
             \/ errors' = errors /\ \E n, delivery : delivery \in Delivery /\ Resolve(n, delivery)
      BY <1>0, <2>2, ResolutionIsOrderly
  <2>3. QED
      BY <2>1, <2>2
<1>4. QED
    BY <1>1, <1>2, <1>3 DEF Orderly

\* The utterance that is committed finds no turn in flight.
LEMMA CommitIsOrderly == ASSUME IInv, Orderly, Commit PROVE Orderly'
<1>0. /\ TypeOK /\ OneAtATime /\ StateIsCurrent /\ ReplyIsHeldOrWritten /\ InOrder
      /\ session \in Session /\ turn \in [Turns -> Turn] /\ NoneIsAhead /\ MaxTurns \in Nat
    BY TurnsAssumption DEF IInv, Orderly, TypeOK
<1>1. PICK n \in Turns : n = session.next
    BY <1>0 DEF Commit, Session, Turns
<1>2. /\ turn' = [turn EXCEPT ![n].step = "called", ![n].words = session.superseded \cup {n}]
      /\ session.phase = "open" /\ session.inFlight = 0
      /\ session' = [session EXCEPT !.next = n + 1, !.inFlight = n, !.superseded = {}]
      /\ UNCHANGED <<pending, transcript, saved>>
    BY <1>1 DEF Commit
<1>3. session'.next = n + 1 /\ session'.inFlight = n /\ session'.phase = "open"
    BY <1>0, <1>2 DEF Session
<1> DEFINE called == [turn[n] EXCEPT !.step = "called", !.words = session.superseded \cup {n}]
<1>4. turn[n] \in Turn /\ turn[n].step = "none" /\ n \in Nat
    BY <1>0, <1>1, TurnsArePositive DEF NoneIsAhead
<1>5. called.step = "called" /\ called.state = turn[n].state
    BY <1>4 DEF Turn
<1>6. turn' = [turn EXCEPT ![n] = called]
    BY <1>0, <1>2, Zenon
<1> HIDE DEF called
<1>7. /\ \A k \in Turns \ {n} : turn'[k] = turn[k]
      /\ turn'[n].step = "called"
    BY <1>0, <1>5, <1>6
<1>8. \A k \in Turns : turn[k].step \notin Running
    BY <1>0, <1>2, TurnsArePositive DEF OneAtATime
<1>9. OneAtATime'
  <2>1. \A k \in Turns : turn'[k].step \in Running => k = session'.inFlight
      BY <1>3, <1>7, <1>8
  <2>2. \A k \in Turns : turn'[k].step # "failed"
      BY <1>0, <1>7 DEF OneAtATime
  <2>3. session'.inFlight = session'.next - 1
      BY <1>3, <1>4
  <2>4. QED
      BY <1>3, <2>1, <2>2, <2>3 DEF OneAtATime
<1>10. StateIsCurrent'
  <2>1. Answered' = Answered
      BY <1>4, <1>7, Zenon DEF Answered
  <2>2. QED
      BY <1>0, <1>2, <1>7, <1>8, <2>1 DEF StateIsCurrent, Running
<1>11. \A k : (OnRecord(k) => OnRecord(k)') /\ (HalfOnRecord(k) => HalfOnRecord(k)')
    BY <1>2 DEF OnRecord, HalfOnRecord, RowsOf, CallerRow
<1>12. ReplyIsHeldOrWritten'
    BY <1>0, <1>2, <1>7, <1>11 DEF ReplyIsHeldOrWritten
<1>13. InOrder'
    BY <1>0, <1>2 DEF InOrder, NoReply
<1>14. QED
    BY <1>9, <1>10, <1>12, <1>13 DEF Orderly

LEMMA AbortIsOrderly == ASSUME IInv, Orderly, Abort PROVE Orderly'
<1>1. TypeOK
    BY DEF IInv
<1>2. PICK n \in Turns : n = session.inFlight
    BY <1>1 DEF Abort, TypeOK, Session
<1>3. PICK timedOut \in BOOLEAN :
          turn' = [turn EXCEPT ![n].aborted = TRUE, ![n].timedOut = timedOut]
    BY <1>2, Zenon DEF Abort
<1>4. \A k \in Turns : turn'[k].step = turn[k].step /\ turn'[k].state = turn[k].state
    BY <1>1, <1>3, AbortMarks, Zenon
<1>5. QED
    BY <1>4, SessionIsOrderly, Zenon DEF Abort

\* A turn that ends without a reply is not running any more.
LEMMA CancelledIsOrderly == ASSUME IInv, Orderly, TurnCancelled PROVE Orderly'
<1>1. TypeOK /\ turn[session.inFlight].step \notin Running
    BY DEF IInv, TurnCancelled, Running
<1>2. PICK n \in Turns : n = session.inFlight
    BY <1>1 DEF TurnCancelled, TypeOK, Session
<1>3. session'.next = session.next /\ session'.inFlight = 0 /\ session'.phase = session.phase
    BY <1>1, <1>2, SettledType DEF TurnCancelled
<1>4. QED
    BY <1>1, <1>3, SessionIsOrderly DEF TurnCancelled

\* A reply is played, or is not, and the one before it is reported on.
LEMMA PlaybackIsOrderly ==
    ASSUME IInv, Orderly, Play \/ NotSpoken \/ PlaybackSettles, errors' = errors
    PROVE  Orderly'
<1>1. session \in Session /\ UNCHANGED <<turn, saved>>
    BY DEF IInv, TypeOK, Play, NotSpoken, PlaybackSettles
<1>2. session'.next = session.next /\ session'.phase = session.phase
    BY <1>1, Zenon DEF Play, NotSpoken, PlaybackSettles, Session
<1>3. \/ session'.inFlight = session.inFlight
      \/ session'.inFlight = 0 /\ turn[session.inFlight].step \notin Running
    BY <1>1, Zenon DEF Play, NotSpoken, PlaybackSettles, Session, Running
<1>4. \E n, delivery : delivery \in Delivery /\ Resolve(n, delivery)
    BY Zenon DEF Play, NotSpoken, PlaybackSettles, Delivery
<1>5. pending' \in {pending, NoReply}
    BY <1>4 DEF Resolve
<1>6. QED
    BY <1>1, <1>2, <1>3, <1>4, <1>5, SessionIsOrderly

LEMMA EndIsOrderly == ASSUME IInv, Orderly, End, errors' = errors PROVE Orderly'
<1>1. TypeOK /\ session \in Session
    BY DEF IInv, TypeOK
<1>2. /\ session'.next = session.next /\ session'.phase = "ending"
      /\ session'.inFlight = session.inFlight
    BY <1>1 DEF End, Session
<1>3. "interrupted" \in Delivery /\ Resolve(session.playing, "interrupted") /\ saved' = saved
    BY DEF End, Delivery
<1>4. \A k \in Turns : turn'[k].step = turn[k].step /\ turn'[k].state = turn[k].state
  <2>1. CASE session.inFlight = 0
      BY <2>1 DEF End
  <2>2. CASE session.inFlight # 0
    <3>1. PICK n \in Turns : n = session.inFlight
        BY <1>1, <2>2 DEF Session
    <3>2. turn' = [turn EXCEPT ![n].aborted = TRUE]
        BY <2>2, <3>1 DEF End
    <3>3. QED
        BY <1>1, <3>2, AbortMarks
  <2>3. QED
      BY <2>1, <2>2
<1>5. QED
    BY <1>2, <1>3, <1>4, SessionIsOrderly

\* Nothing is in flight when the session closes, and nothing is held afterwards.
LEMMA CloseIsOrderly == ASSUME IInv, Orderly, Close, errors' = errors PROVE Orderly'
<1>1. session \in Session /\ OneAtATime
    BY DEF IInv, TypeOK, Orderly
<1>2. /\ session'.next = session.next /\ session'.inFlight = 0 /\ session.inFlight = 0
      /\ UNCHANGED <<turn, saved>> /\ ResolveAny
    BY <1>1 DEF Close, Session
<1>3. \A k \in Turns : turn[k].step # "save"
    BY <1>1, <1>2, TurnsArePositive DEF OneAtATime, Running
<1>4. pending' = NoReply
    BY <1>2 DEF ResolveAny
<1>5. QED
    BY <1>2, <1>3, <1>4, SessionIsOrderly

LEMMA OrderInductive == IInv /\ OrderInv /\ [Next]_vars => OrderInv'
<1> SUFFICES ASSUME IInv, OrderInv, [Next]_vars, abandoned' = {}, errors' = 0
             PROVE  Orderly'
    BY DEF OrderInv
<1>0. TypeOK /\ errors \in Nat /\ MaxErrors \in Nat
    BY TurnsAssumption DEF IInv, TypeOK
<1>1. CASE UNCHANGED vars
  <2>1. Orderly
      BY <1>1 DEF vars, OrderInv
  <2>2. QED
      BY <1>1, <2>1 DEF vars, Orderly, OneAtATime, StateIsCurrent, Answered, ReplyIsHeldOrWritten,
            HalfOnRecord, OnRecord, RowsOf, CallerRow, InOrder, NoReply
<1>2. CASE Next
  <2>1. abandoned = {} /\ errors = 0
    <3>1. ASSUME NEW row, Write(row) PROVE errors = 0
        BY <1>0, <3>1 DEF Write, Error
    <3>2. ASSUME NEW n, NEW delivery, Resolve(n, delivery) PROVE errors = 0
        BY <3>1, <3>2 DEF Resolve, NoWrite
    <3>3. ASSUME ResolveAny PROVE errors = 0
        BY <3>1, <3>3 DEF ResolveAny, NoWrite
    <3>4. ASSUME NEW n \in Turns, Begin(n) PROVE abandoned = {} /\ errors = 0
        BY <3>3, <3>4 DEF Begin
    <3>5. ASSUME NEW n \in Turns, Persist(n) PROVE abandoned = {} /\ errors = 0
        BY <3>1, <3>5 DEF Persist, NoWrite
    <3>6. ASSUME NEW n \in Turns, LoadContext(n) \/ SystemActions(n) \/ Model(n) \/ ToolRound(n)
                                  \/ Save(n)
          PROVE  abandoned = {} /\ errors = 0
        BY <1>0, <3>6 DEF LoadContext, SystemActions, Model, ToolRound, Save, Error
    <3>7. ASSUME Commit \/ Abort \/ Abandon \/ TurnCancelled \/ TurnFails
          PROVE  abandoned = {} /\ errors = 0
        BY <3>7 DEF Commit, Abort, Abandon, TurnCancelled, TurnFails
    <3>8. ASSUME Play \/ NotSpoken \/ PlaybackSettles \/ End \/ Close
          PROVE  abandoned = {} /\ errors = 0
        BY <3>2, <3>3, <3>8 DEF Play, NotSpoken, PlaybackSettles, End, Close
    <3>9. QED
        BY <1>2, <3>4, <3>5, <3>6, <3>7, <3>8 DEF Next
  <2>2. Orderly /\ errors' = errors
      BY <2>1 DEF OrderInv
  <2>3. ASSUME NEW n \in Turns,
               \/ Begin(n) \/ LoadContext(n) \/ SystemActions(n) \/ Model(n)
               \/ ToolRound(n) \/ Persist(n) \/ Save(n)
        PROVE  Orderly'
      BY <2>2, <2>3, BeginIsOrderly, LoadContextIsOrderly, SystemActionsAreOrderly,
         ModelIsOrderly, ToolRoundIsOrderly, PersistIsOrderly, SaveIsOrderly
  <2>4. ~Abandon
    <3>1. Abandon => session.inFlight \in abandoned'
        BY DEF Abandon
    <3>2. QED
        BY <3>1
  <2>5. ~TurnFails
    <3>1. TurnFails => session.inFlight \in Turns
        BY <1>0 DEF TurnFails, TypeOK, Session
    <3>2. QED
        BY <2>2, <3>1 DEF TurnFails, Orderly, OneAtATime
  <2>6. CASE Commit \/ Abort \/ TurnCancelled \/ Play \/ NotSpoken \/ PlaybackSettles \/ End \/ Close
      BY <2>2, <2>6, CommitIsOrderly, AbortIsOrderly, CancelledIsOrderly, PlaybackIsOrderly,
         EndIsOrderly, CloseIsOrderly
  <2>7. QED
      BY <1>2, <2>3, <2>4, <2>5, <2>6 DEF Next
<1>3. QED
    BY <1>1, <1>2

LEMMA OrderInitial == Init => OrderInv
BY TurnsArePositive DEF Init, OrderInv, Orderly, OneAtATime, StateIsCurrent, Answered,
   ReplyIsHeldOrWritten, InOrder, Running, NoReply

\* Deliveries are reported late, twice or never, and utterances committed while a reply
\* plays, but a closed conversation is on record: the caller's words and one delivery of
\* the reply for every answered turn, in the order of the turns, all of them in the saved
\* state, if no turn was given up and no statement failed (deferred-assistant-store.ts).
THEOREM OnRecordWhenClosed == Spec => []ConversationIsOnRecord
<1>1. IInv /\ OrderInv => ConversationIsOnRecord
  <2> SUFFICES ASSUME IInv, Orderly, session.phase = "closed"
               PROVE  /\ saved = Answered
                      /\ \A n \in Answered : OnRecord(n)
                      /\ InOrder
      BY DEF OrderInv, ConversationIsOnRecord, Answered, InOrder
  <2>1. pending = NoReply
      BY DEF Orderly, OneAtATime
  <2>2. ASSUME NEW n \in Turns, turn[n].step = "returned"
        PROVE  OnRecord(n)
    <3>1. pending.turn # n
        BY <2>1, TurnsArePositive DEF NoReply
    <3>2. QED
        BY <2>2, <3>1 DEF Orderly, ReplyIsHeldOrWritten
  <2>3. QED
      BY <2>2 DEF Orderly, StateIsCurrent, Answered
<1>2. QED
    BY Initial, Inductive, OrderInitial, OrderInductive, <1>1, PTL DEF Spec

-------------------------------------------------------------------------------
(* The streamed reply.  The sentences that are held belong to a round that    *)
(* offers tools and those released to the round that offers none, so that     *)
(* there are never both; each belongs to the call in flight, and what was    *)
(* said before a tool call belongs to an earlier one.                        *)

\* The sentences of earlier calls, and of those up to the one in flight.
Earlier == run.calls * MaxSentences

UpToNow == run.calls * MaxSentences + MaxSentences

SpeechTyped ==
    /\ step \in {"model", "tools", "repair", "done", "cancelled"}
    /\ run \in [round : 0 .. ToolRounds, calls : Nat, acted : BOOLEAN, aborted : BOOLEAN,
                retried : BOOLEAN, live : BOOLEAN, draft : Seq(Nat), reply : Seq(Nat),
                preambles : SUBSET Nat]
    /\ stream \in Speech!Stream
    /\ channel \in Speech!Channel

\* The channel was told what the stream did.
SameWords == channel.held = stream.held /\ channel.heard = stream.released

\* What is held is waiting for the end of a streamed round that offers tools.
HeldInItsRound ==
    stream.held # <<>> => /\ step = "model" /\ run.round < ToolRounds
                          /\ run.live /\ ~stream.revoked

\* What is released before the end is of the round that offers none.
ReleasedInTheLast ==
    channel.heard # <<>> => \/ step = "model" /\ run.round = ToolRounds
                            \/ step = "done" /\ run.reply = channel.heard

\* Only a revoked stream is not used, and a round follows the calls of tools.
RoundsFollow ==
    /\ ~run.live => stream.revoked
    /\ step = "tools" => run.round < ToolRounds

WordsOfThisCall ==
    /\ \A i \in DOMAIN stream.held : stream.held[i] > Earlier
    /\ \A i \in DOMAIN channel.heard : channel.heard[i] > Earlier
    /\ \A i \in DOMAIN run.draft : run.draft[i] <= UpToNow
    /\ Len(run.draft) <= MaxSentences
    /\ \A p \in run.preambles : p <= UpToNow
    /\ step \notin {"tools", "cancelled"} => \A p \in run.preambles : p <= Earlier

SpeechInv ==
    /\ SpeechTyped
    /\ SameWords
    /\ HeldInItsRound
    /\ ReleasedInTheLast
    /\ RoundsFollow
    /\ WordsOfThisCall
    /\ step = "cancelled" => channel.heard = <<>>

\* The invariant says that what was heard is the reply.
LEMMA SpeechInvImplies == SpeechInv => Speech!HeardIsTheReply
<1> SUFFICES ASSUME SpeechInv PROVE Speech!HeardIsTheReply
    OBVIOUS
<1>1. /\ step = "done" /\ channel.heard # <<>> => run.reply = channel.heard
      /\ step = "cancelled" => channel.heard = <<>>
    BY DEF SpeechInv, ReleasedInTheLast
<1>2. step \in {"done", "cancelled"} => channel.held = <<>>
    BY DEF SpeechInv, HeldInItsRound, SameWords
<1>3. \A i \in DOMAIN channel.heard : channel.heard[i] \notin run.preambles
  <2> SUFFICES ASSUME NEW i \in DOMAIN channel.heard, channel.heard[i] \in run.preambles
               PROVE  FALSE
      OBVIOUS
  <2>1. channel.heard # <<>> /\ channel.heard \in Seq(Nat)
      BY DEF SpeechInv, SpeechTyped, Speech!Channel
  <2>2. step \notin {"tools", "cancelled"}
      BY <2>1 DEF SpeechInv, ReleasedInTheLast
  <2>3. channel.heard[i] > Earlier /\ channel.heard[i] <= Earlier
      BY <2>2 DEF SpeechInv, WordsOfThisCall
  <2>4. channel.heard[i] \in Nat /\ Earlier \in Int
      BY <2>1, SpeechBounds DEF SpeechInv, SpeechTyped, Earlier
  <2>5. QED
      BY <2>3, <2>4
<1>4. QED
    BY <1>1, <1>2, <1>3 DEF Speech!HeardIsTheReply

\* It holds of the first call.
LEMMA SpeechStarts == Speech!Init => SpeechInv
<1> SUFFICES ASSUME Speech!Init PROVE SpeechInv
    OBVIOUS
<1>1. /\ SpeechTyped /\ SameWords /\ HeldInItsRound /\ ReleasedInTheLast
    BY SpeechBounds DEF Speech!Init, SpeechTyped, SameWords, HeldInItsRound,
       ReleasedInTheLast, Speech!Stream, Speech!Channel
<1>2. RoundsFollow /\ WordsOfThisCall /\ step # "cancelled"
    BY SpeechBounds DEF Speech!Init, RoundsFollow, WordsOfThisCall
<1>3. QED
    BY <1>1, <1>2 DEF SpeechInv

\* The next call begins after all the sentences of this one.
LEMMA CallsAreApart ==
    ASSUME NEW call \in Nat, NEW i \in 1 .. MaxSentences
    PROVE  /\ Speech!Sentence(call, i) \in Nat
           /\ Speech!Sentence(call, i) > call * MaxSentences
           /\ Speech!Sentence(call, i) <= call * MaxSentences + MaxSentences
           /\ call * MaxSentences \in Nat
           /\ (call + 1) * MaxSentences = call * MaxSentences + MaxSentences
BY SpeechBounds DEF Speech!Sentence

\* What revoke leaves of the stream, and retract of the channel.
LEMMA RevokedType ==
    ASSUME SpeechTyped
    PROVE  /\ Speech!Revoked(stream) \in Speech!Stream
           /\ Speech!Revoked(stream).held = <<>>
           /\ Speech!Revoked(stream).released = stream.released
           /\ Speech!Revoked(stream).revoked
           /\ Speech!Retracted(stream) \in Speech!Stream
           /\ Speech!Retracted(stream).held = <<>>
           /\ Speech!Retracted(stream).released = stream.released
           /\ Speech!Retracted(stream).revoked = stream.revoked
           /\ Speech!RetractFrom(channel) \in Speech!Channel
           /\ Speech!RetractFrom(channel).held = <<>>
           /\ Speech!RetractFrom(channel).heard = channel.heard
<1> DEFINE none == <<>>
<1>1. none \in Seq(Nat) /\ none = <<>>
    OBVIOUS
<1>2. /\ Speech!Retracted(stream) = [stream EXCEPT !.held = none]
      /\ Speech!Revoked(stream) = [stream EXCEPT !.held = none, !.revoked = TRUE]
      /\ Speech!RetractFrom(channel) = [channel EXCEPT !.held = none]
    BY DEF Speech!Revoked, Speech!Retracted, Speech!RetractFrom
<1> HIDE DEF none
<1>3. QED
    BY <1>1, <1>2, Zenon DEF SpeechTyped, Speech!Stream, Speech!Channel

\* A sentence of the model is held, released or neither.
LEMMA DeltaKeepsSpeech ==
    ASSUME SpeechInv, NEW verdict \in {"valid", "too_long", "invalid"}, Speech!Delta(verdict)
    PROVE  SpeechInv'
<1> DEFINE sentence == Speech!Sentence(run.calls, Len(run.draft) + 1)
           drafted == [run EXCEPT !.draft = Append(@, sentence)]
<1>0. /\ SpeechTyped /\ SameWords /\ HeldInItsRound /\ ReleasedInTheLast /\ RoundsFollow
      /\ WordsOfThisCall /\ step = "model"
    BY DEF SpeechInv, Speech!Delta
<1>1. /\ run.calls \in Nat /\ run.draft \in Seq(Nat)
      /\ Len(run.draft) + 1 \in 1 .. MaxSentences
    BY <1>0, SpeechBounds DEF SpeechTyped, Speech!Delta
<1>2. /\ sentence \in Nat
      /\ sentence > Earlier
      /\ sentence <= UpToNow
      /\ Earlier \in Nat
    BY <1>1, CallsAreApart, Zenon DEF Earlier, UpToNow
<1>3. /\ run' = drafted
      /\ step' = "model"
    BY <1>0 DEF Speech!Delta
<1> HIDE DEF sentence
<1>4. /\ run'.round = run.round /\ run'.calls = run.calls /\ run'.live = run.live
      /\ run'.preambles = run.preambles /\ run'.reply = run.reply
      /\ run'.draft = Append(run.draft, sentence)
    BY <1>0, <1>3 DEF SpeechTyped
<1>5. run' \in [round : 0 .. ToolRounds, calls : Nat, acted : BOOLEAN, aborted : BOOLEAN,
                retried : BOOLEAN, live : BOOLEAN, draft : Seq(Nat), reply : Seq(Nat),
                preambles : SUBSET Nat]
  <2>1. Append(run.draft, sentence) \in Seq(Nat)
      BY <1>1, <1>2
  <2> DEFINE next == Append(run.draft, sentence)
  <2>2. run' = [run EXCEPT !.draft = next]
      BY <1>0, <1>3 DEF SpeechTyped
  <2>3. next \in Seq(Nat)
      BY <2>1
  <2> HIDE DEF next
  <2>4. QED
      BY <1>0, <2>2, <2>3, Zenon DEF SpeechTyped
<1>6. Earlier' = Earlier /\ UpToNow' = UpToNow
    BY <1>4 DEF Earlier, UpToNow
<1>7. /\ \A i \in DOMAIN run'.draft : run'.draft[i] <= UpToNow'
      /\ Len(run'.draft) <= MaxSentences
      /\ \A p \in run'.preambles : p <= UpToNow' /\ p <= Earlier'
  <2>1. \A i \in DOMAIN run'.draft : run'.draft[i] \in {run.draft[j] : j \in DOMAIN run.draft} \cup {sentence}
      BY <1>1, <1>2, <1>4
  <2>2. Len(run'.draft) <= MaxSentences
      BY <1>1, <1>2, <1>4, SpeechBounds
  <2>3. \A p \in run.preambles : p <= UpToNow /\ p <= Earlier
      BY <1>0 DEF WordsOfThisCall
  <2>4. QED
      BY <2>1, <2>2, <2>3, <1>0, <1>2, <1>4, <1>6 DEF WordsOfThisCall
<1>8. CASE /\ Speech!Accepting /\ Speech!RoundHeld
           /\ stream' = [stream EXCEPT !.held = Append(@, sentence)]
           /\ channel' = [channel EXCEPT !.held = Append(@, sentence)]
  <2>1. /\ stream'.held = Append(stream.held, sentence) /\ stream'.released = stream.released
        /\ stream'.revoked = stream.revoked
        /\ channel'.held = Append(channel.held, sentence) /\ channel'.heard = channel.heard
      BY <1>0, <1>8, Zenon DEF SpeechTyped, Speech!Stream, Speech!Channel
  <2>2. stream' \in Speech!Stream /\ channel' \in Speech!Channel
    <3> DEFINE next == Append(stream.held, sentence)
    <3>1. stream.held \in Seq(Nat)
        BY <1>0 DEF SpeechTyped, Speech!Stream
    <3>2. next \in Seq(Nat)
        BY <1>2, <3>1
    <3>3. stream' = [stream EXCEPT !.held = next] /\ channel' = [channel EXCEPT !.held = next]
        BY <1>0, <1>8 DEF SameWords, SpeechTyped, Speech!Stream, Speech!Channel
    <3> HIDE DEF next
    <3>4. QED
        BY <1>0, <3>2, <3>3, Zenon DEF SpeechTyped, Speech!Stream, Speech!Channel
  <2>3. \A i \in DOMAIN stream'.held : stream'.held[i] > Earlier'
    <3>1. stream.held \in Seq(Nat) /\ \A i \in DOMAIN stream.held : stream.held[i] > Earlier
        BY <1>0 DEF SpeechTyped, Speech!Stream, WordsOfThisCall
    <3>2. QED
        BY <1>2, <1>6, <2>1, <3>1
  <2>4. SameWords' /\ HeldInItsRound' /\ ReleasedInTheLast' /\ RoundsFollow'
      BY <1>0, <1>3, <1>4, <1>8, <2>1 DEF SameWords, HeldInItsRound, ReleasedInTheLast,
         RoundsFollow, Speech!Accepting, Speech!RoundHeld
  <2>5. WordsOfThisCall'
      BY <1>0, <1>6, <1>7, <2>1, <2>3 DEF WordsOfThisCall
  <2>6. QED
      BY <1>3, <1>5, <2>2, <2>4, <2>5, Zenon DEF SpeechInv, SpeechTyped
<1>9. CASE /\ Speech!Accepting /\ ~Speech!RoundHeld
           /\ stream' = [stream EXCEPT !.released = Append(@, sentence)]
           /\ channel' = [channel EXCEPT !.heard = Append(@, sentence)]
  <2>1. /\ stream'.released = Append(stream.released, sentence) /\ stream'.held = stream.held
        /\ stream'.revoked = stream.revoked
        /\ channel'.heard = Append(channel.heard, sentence) /\ channel'.held = channel.held
      BY <1>0, <1>9, Zenon DEF SpeechTyped, Speech!Stream, Speech!Channel
  <2>2. stream' \in Speech!Stream /\ channel' \in Speech!Channel
    <3> DEFINE next == Append(stream.released, sentence)
    <3>1. stream.released \in Seq(Nat)
        BY <1>0 DEF SpeechTyped, Speech!Stream
    <3>2. next \in Seq(Nat)
        BY <1>2, <3>1
    <3>3. /\ stream' = [stream EXCEPT !.released = next]
          /\ channel' = [channel EXCEPT !.heard = next]
        BY <1>0, <1>9 DEF SameWords, SpeechTyped, Speech!Stream, Speech!Channel
    <3> HIDE DEF next
    <3>4. QED
        BY <1>0, <3>2, <3>3, Zenon DEF SpeechTyped, Speech!Stream, Speech!Channel
  <2>3. \A i \in DOMAIN channel'.heard : channel'.heard[i] > Earlier'
    <3>1. channel.heard \in Seq(Nat) /\ \A i \in DOMAIN channel.heard : channel.heard[i] > Earlier
        BY <1>0 DEF SpeechTyped, Speech!Channel, WordsOfThisCall
    <3>2. QED
        BY <1>2, <1>6, <2>1, <3>1
  <2>4. run.round = ToolRounds
      BY <1>0, <1>9, SpeechBounds DEF SpeechTyped, Speech!RoundHeld
  <2>5. SameWords' /\ HeldInItsRound' /\ ReleasedInTheLast' /\ RoundsFollow'
      BY <1>0, <1>3, <1>4, <2>1, <2>4 DEF SameWords, HeldInItsRound, ReleasedInTheLast,
         RoundsFollow
  <2>6. WordsOfThisCall'
      BY <1>0, <1>6, <1>7, <2>1, <2>3 DEF WordsOfThisCall
  <2>7. QED
      BY <1>3, <1>5, <2>2, <2>5, <2>6, Zenon DEF SpeechInv, SpeechTyped
<1>10. CASE /\ stream'.released = stream.released /\ channel'.heard = channel.heard
            /\ \/ stream'.held = stream.held /\ channel'.held = channel.held
                  /\ stream'.revoked = stream.revoked
               \/ stream'.held = <<>> /\ channel'.held = <<>> /\ stream'.revoked
            /\ stream' \in Speech!Stream /\ channel' \in Speech!Channel
  <2>1. SameWords' /\ HeldInItsRound' /\ ReleasedInTheLast' /\ RoundsFollow'
      BY <1>0, <1>3, <1>4, <1>10 DEF SameWords, HeldInItsRound, ReleasedInTheLast,
         RoundsFollow
  <2>2. WordsOfThisCall'
      BY <1>0, <1>6, <1>7, <1>10 DEF WordsOfThisCall
  <2>3. QED
      BY <1>3, <1>5, <1>10, <2>1, <2>2, Zenon DEF SpeechInv, SpeechTyped
<1>11. QED
  <2>1. CASE /\ Speech!Accepting /\ stream' = [stream EXCEPT !.capped = TRUE]
             /\ UNCHANGED channel
      BY <1>0, <1>10, <2>1, Zenon DEF SpeechTyped, Speech!Stream, Speech!Channel
  <2>2. CASE stream' = Speech!Revoked(stream) /\ channel' = Speech!RetractFrom(channel)
      BY <1>0, <1>10, <2>2, RevokedType
  <2>3. CASE UNCHANGED <<stream, channel>>
      BY <1>0, <1>10, <2>3 DEF SpeechTyped
  <2>4. QED
      BY <1>8, <1>9, <2>1, <2>2, <2>3 DEF Speech!Delta, sentence

\* A turn that ends, or whose reply is repaired, with nothing held and with what was heard
\* as its reply.
LEMMA EndingKeepsSpeech ==
    ASSUME SpeechInv, step \in {"model", "repair"}, step' \in {"done", "repair", "cancelled"},
           NEW reply \in Seq(Nat), run' \in {run, [run EXCEPT !.reply = reply]},
           stream' \in Speech!Stream, channel' \in Speech!Channel,
           stream'.held = <<>>, channel'.held = <<>>,
           channel'.heard = stream'.released,
           ~run.live => stream'.revoked,
           channel'.heard # <<>> => step' = "done" /\ run'.reply = channel'.heard,
           \A i \in DOMAIN channel'.heard : channel'.heard[i] > Earlier
    PROVE  SpeechInv'
<1>0. SpeechTyped /\ RoundsFollow /\ WordsOfThisCall
    BY DEF SpeechInv
<1>1. /\ run'.round = run.round /\ run'.calls = run.calls /\ run'.live = run.live
      /\ run'.preambles = run.preambles /\ run'.draft = run.draft
      /\ run' \in [round : 0 .. ToolRounds, calls : Nat, acted : BOOLEAN, aborted : BOOLEAN,
                   retried : BOOLEAN, live : BOOLEAN, draft : Seq(Nat), reply : Seq(Nat),
                   preambles : SUBSET Nat]
    BY <1>0, Zenon DEF SpeechTyped
<1>2. Earlier' = Earlier /\ UpToNow' = UpToNow
    BY <1>1 DEF Earlier, UpToNow
<1>3. SpeechTyped' /\ SameWords' /\ HeldInItsRound' /\ ReleasedInTheLast' /\ RoundsFollow'
    BY <1>0, <1>1 DEF SpeechTyped, SameWords, HeldInItsRound, ReleasedInTheLast, RoundsFollow
<1>4. WordsOfThisCall'
    BY <1>0, <1>1, <1>2 DEF WordsOfThisCall
<1>5. step' = "cancelled" => channel'.heard = <<>>
    OBVIOUS
<1>6. QED
    BY <1>3, <1>4, <1>5 DEF SpeechInv

\* What the invariant says of the words heard so far.
LEMMA HeardSoFar ==
    ASSUME SpeechInv
    PROVE  /\ stream \in Speech!Stream /\ channel \in Speech!Channel
           /\ stream.held \in Seq(Nat) /\ stream.released \in Seq(Nat)
           /\ run.draft \in Seq(Nat)
           /\ channel.held = stream.held /\ channel.heard = stream.released
           /\ stream.held # <<>> => channel.heard = <<>> /\ run.live
           /\ step # "model" => stream.held = <<>>
           /\ step \in {"tools", "repair", "cancelled"} => channel.heard = <<>>
           /\ ~run.live => stream.revoked /\ stream.held = <<>>
           /\ \A i \in DOMAIN channel.heard : channel.heard[i] > Earlier
           /\ \A i \in DOMAIN stream.held : stream.held[i] > Earlier
BY DEF SpeechInv, SpeechTyped, SameWords, HeldInItsRound, ReleasedInTheLast, RoundsFollow,
   WordsOfThisCall, Speech!Stream, Speech!Channel

\* The model has answered: what was released is the reply, what was held becomes it, or the
\* draft, which nobody has heard, is judged.
LEMMA RoundEndsKeepsSpeech == ASSUME SpeechInv, Speech!RoundEnds PROVE SpeechInv'
<1>0. SpeechTyped /\ step = "model"
    BY DEF SpeechInv, Speech!RoundEnds
<1>1. CASE /\ Speech!HasReleased /\ Speech!Finish(stream.released)
           /\ UNCHANGED <<stream, channel>>
    <2>1. run' = [run EXCEPT !.reply = stream.released] /\ step' = "done"
        BY <1>1 DEF Speech!Finish
    <2>2. run'.reply = channel.heard
        BY <2>1, <1>0, HeardSoFar DEF SpeechTyped
    <2>3. channel.held = <<>>
        BY <1>1, HeardSoFar DEF Speech!HasReleased
    <2>4. QED
        BY <1>0, <1>1, <2>1, <2>2, <2>3, HeardSoFar, EndingKeepsSpeech
<1>2. CASE /\ Speech!HasHeld /\ Speech!Finish(stream.held)
           /\ stream' = Speech!Committed(stream) /\ channel' = Speech!CommitTo(channel)
    <2> DEFINE none == <<>>
    <2>0. none = <<>> /\ none \in Seq(Nat)
        OBVIOUS
    <2>1. run' = [run EXCEPT !.reply = stream.held] /\ step' = "done"
        BY <1>2 DEF Speech!Finish
    <2>2. run'.reply = stream.held
        BY <2>1, <1>0, HeardSoFar DEF SpeechTyped
    <2>3. stream.released \o stream.held = stream.held /\ channel.heard \o channel.held = stream.held
      <3>1. stream.released = <<>> /\ channel.heard = <<>> /\ channel.held = stream.held
          BY <1>2, HeardSoFar DEF Speech!HasHeld
      <3>2. <<>> \o stream.held = stream.held
          BY HeardSoFar, ConcatEmptySeq
      <3>3. QED
          BY <3>1, <3>2
    <2>4. /\ stream' = [stream EXCEPT !.released = stream.held, !.held = none]
          /\ channel' = [heard |-> stream.held, held |-> none]
        BY <1>2, <2>3, HeardSoFar DEF Speech!Committed, Speech!CommitTo, Speech!Stream
    <2> HIDE DEF none
    <2>5. /\ stream' \in Speech!Stream /\ channel' \in Speech!Channel
          /\ stream'.held = <<>> /\ channel'.held = <<>>
          /\ stream'.released = stream.held /\ channel'.heard = stream.held
          /\ stream'.revoked = stream.revoked
        BY <2>0, <2>4, HeardSoFar, Zenon DEF Speech!Stream, Speech!Channel
    <2>6. QED
        BY <1>0, <2>1, <2>2, <2>5, HeardSoFar, EndingKeepsSpeech
<1>3. CASE /\ Speech!HasHeld /\ step' = "repair" /\ UNCHANGED run
           /\ stream' = Speech!Revoked(stream) /\ channel' = Speech!RetractFrom(channel)
    <2>1. channel.heard = <<>>
        BY <1>3, HeardSoFar DEF Speech!HasHeld
    <2>2. QED
        BY <1>0, <1>3, <2>1, HeardSoFar, RevokedType, EndingKeepsSpeech
<1>4. CASE /\ ~Speech!HasReleased /\ ~Speech!HasHeld /\ Speech!Judge(run.draft)
           /\ stream' = Speech!Revoked(stream) /\ UNCHANGED channel
    <2>1. channel.heard = <<>> /\ channel.held = <<>>
        BY <1>4, HeardSoFar DEF Speech!HasHeld, Speech!HasReleased
    <2>2. run' \in {run, [run EXCEPT !.reply = run.draft]} /\ step' \in {"done", "repair"}
        BY <1>4 DEF Speech!Judge, Speech!Finish
    <2>3. QED
        BY <1>0, <1>4, <2>1, <2>2, HeardSoFar, RevokedType, EndingKeepsSpeech
<1>5. QED
    BY <1>1, <1>2, <1>3, <1>4 DEF Speech!RoundEnds

\* The barge-in rejects the call.
LEMMA CallCancelledKeepsSpeech == ASSUME SpeechInv, Speech!CallCancelled PROVE SpeechInv'
<1>0. SpeechTyped /\ step \in {"model", "repair"}
    BY DEF SpeechInv, Speech!CallCancelled
<1>1. /\ stream' = Speech!Revoked(stream)
      /\ channel' = Speech!RetractFrom(channel)
    BY DEF Speech!CallCancelled
<1>2. CASE Speech!HasReleased
    <2>1. run' = [run EXCEPT !.reply = stream.released] /\ step' = "done"
        BY <1>2 DEF Speech!Finish, Speech!CallCancelled
    <2>2. run'.reply = channel.heard
        BY <2>1, <1>0, HeardSoFar DEF SpeechTyped
    <2>3. QED
        BY <1>0, <1>1, <2>1, <2>2, HeardSoFar, RevokedType, EndingKeepsSpeech, Zenon
<1>3. CASE ~Speech!HasReleased
    <2>1. run' = run /\ step' = "cancelled" /\ channel.heard = <<>>
        BY <1>3, HeardSoFar DEF Speech!CallCancelled, Speech!HasReleased
    <2>2. QED
        BY <1>0, <1>1, <2>1, HeardSoFar, RevokedType, EndingKeepsSpeech
<1>4. QED
    BY <1>2, <1>3

\* The repaired reply replaces one that nobody has heard.
LEMMA RepairEndsKeepsSpeech == ASSUME SpeechInv, Speech!RepairEnds PROVE SpeechInv'
<1>1. step = "repair" /\ UNCHANGED <<stream, channel>> /\ step' = "done"
    BY DEF Speech!RepairEnds, Speech!Finish
<1>2. PICK reply \in Seq(Nat) : run' = [run EXCEPT !.reply = reply]
  <2>1. Speech!Sentence(run.calls + 1, 1) \in Nat
    <3>1. run.calls + 1 \in Nat /\ MaxSentences \in Nat
        BY SpeechBounds DEF SpeechInv, SpeechTyped
    <3>2. (run.calls + 1) * MaxSentences \in Nat
        BY <3>1
    <3>3. QED
        BY <3>2 DEF Speech!Sentence
  <2>2. /\ <<Speech!Sentence(run.calls + 1, 1)>> \in Seq(Nat)
        /\ Speech!Fallback \in Seq(Nat)
      BY <2>1 DEF Speech!Fallback
  <2>3. QED
      BY <2>2, Zenon DEF Speech!RepairEnds, Speech!Finish
<1>3. channel.heard = <<>>
    BY <1>1, HeardSoFar
<1>4. QED
    BY <1>1, <1>2, <1>3, HeardSoFar, EndingKeepsSpeech

\* The model has called tools: what is held is forgotten, and what it said is of this call.
LEMMA ToolCallsKeepsSpeech == ASSUME SpeechInv, Speech!ToolCalls PROVE SpeechInv'
<1> DEFINE said == run.preambles \cup {run.draft[i] : i \in DOMAIN run.draft}
<1>0. /\ SpeechTyped /\ RoundsFollow /\ WordsOfThisCall /\ step = "model" /\ step' = "tools"
      /\ run' = [run EXCEPT !.preambles = said] /\ run.round < ToolRounds
    BY DEF SpeechInv, Speech!ToolCalls
<1>1. said \subseteq Nat
    BY <1>0 DEF SpeechTyped
<1>2. \A p \in said : p <= UpToNow
    BY <1>0 DEF WordsOfThisCall
<1> HIDE DEF said
<1>3. /\ run'.round = run.round /\ run'.calls = run.calls /\ run'.live = run.live
      /\ run'.preambles = said /\ run'.draft = run.draft
      /\ run' \in [round : 0 .. ToolRounds, calls : Nat, acted : BOOLEAN, aborted : BOOLEAN,
                   retried : BOOLEAN, live : BOOLEAN, draft : Seq(Nat), reply : Seq(Nat),
                   preambles : SUBSET Nat]
    BY <1>0, <1>1, Zenon DEF SpeechTyped
<1>4. Earlier' = Earlier /\ UpToNow' = UpToNow
    BY <1>3 DEF Earlier, UpToNow
<1>5. stream' = Speech!Retracted(stream) /\ channel' = Speech!RetractFrom(channel)
    BY <1>0 DEF Speech!ToolCalls, Speech!RoundHeld
<1>6. channel.heard = <<>>
    BY <1>0, SpeechBounds DEF SpeechInv, SpeechTyped, ReleasedInTheLast
<1>7. /\ stream' \in Speech!Stream /\ channel' \in Speech!Channel
      /\ stream'.held = <<>> /\ channel'.held = <<>>
      /\ stream'.released = <<>> /\ channel'.heard = <<>>
      /\ stream'.revoked = stream.revoked
    BY <1>0, <1>5, <1>6, HeardSoFar, RevokedType
<1>8. SpeechTyped' /\ SameWords' /\ HeldInItsRound' /\ ReleasedInTheLast' /\ RoundsFollow'
    BY <1>0, <1>3, <1>7 DEF SpeechTyped, SameWords, HeldInItsRound, ReleasedInTheLast,
       RoundsFollow
<1>9. WordsOfThisCall'
    BY <1>0, <1>2, <1>3, <1>4, <1>7 DEF WordsOfThisCall
<1>10. QED
    BY <1>0, <1>7, <1>8, <1>9 DEF SpeechInv

\* The next call of the model: nothing is held or was heard, and what was said is of earlier
\* calls.
LEMMA NextCallKeepsSpeech ==
    ASSUME SpeechInv, step \in {"model", "tools"}, step' = "model",
           NEW r, r \in [round : 0 .. ToolRounds, calls : Nat, acted : BOOLEAN,
                         aborted : BOOLEAN, retried : BOOLEAN, live : BOOLEAN,
                         draft : Seq(Nat), reply : Seq(Nat), preambles : SUBSET Nat],
           r.calls = run.calls, r.preambles = run.preambles,
           run' = Speech!Call(r),
           stream' \in Speech!Stream, channel' \in Speech!Channel,
           stream'.held = <<>>, channel'.held = <<>>,
           stream'.released = channel'.heard,
           channel'.heard = <<>>
    PROVE  SpeechInv'
<1> DEFINE none == <<>>
<1>0. none = <<>> /\ none \in Seq(Nat)
    OBVIOUS
<1>1. run' = [r EXCEPT !.calls = r.calls + 1, !.draft = none, !.live = ~stream'.revoked]
    BY DEF Speech!Call
<1> HIDE DEF none
<1>2. /\ run'.calls = run.calls + 1 /\ run'.live = ~stream'.revoked
      /\ run'.preambles = run.preambles /\ run'.draft = <<>>
      /\ run' \in [round : 0 .. ToolRounds, calls : Nat, acted : BOOLEAN, aborted : BOOLEAN,
                   retried : BOOLEAN, live : BOOLEAN, draft : Seq(Nat), reply : Seq(Nat),
                   preambles : SUBSET Nat]
  <2>1. r.calls + 1 \in Nat /\ run.calls + 1 = r.calls + 1
      OBVIOUS
  <2>2. (~stream'.revoked) \in BOOLEAN
      OBVIOUS
  <2> DEFINE calls == r.calls + 1
             live == ~stream'.revoked
  <2>3. run' = [r EXCEPT !.calls = calls, !.draft = none, !.live = live]
      BY <1>1
  <2>4. calls \in Nat /\ live \in BOOLEAN
      BY <2>1, <2>2
  <2> HIDE DEF calls, live
  <2>5. /\ run'.calls = calls /\ run'.live = live
        /\ run'.preambles = run.preambles /\ run'.draft = <<>>
        /\ run' \in [round : 0 .. ToolRounds, calls : Nat, acted : BOOLEAN, aborted : BOOLEAN,
                     retried : BOOLEAN, live : BOOLEAN, draft : Seq(Nat), reply : Seq(Nat),
                     preambles : SUBSET Nat]
      BY <1>0, <2>3, <2>4, Zenon
  <2>6. QED
      BY <2>1, <2>5 DEF calls, live
<1>3. /\ Earlier' = UpToNow /\ UpToNow' = UpToNow + MaxSentences
      /\ UpToNow \in Nat /\ Earlier \in Nat
  <2>1. run.calls \in Nat /\ MaxSentences \in Nat
      BY SpeechBounds DEF SpeechInv, SpeechTyped
  <2>2. /\ (run.calls + 1) * MaxSentences = run.calls * MaxSentences + MaxSentences
        /\ run.calls * MaxSentences \in Nat
      BY <2>1
  <2>3. QED
      BY <1>2, <2>1, <2>2, SMTT(30) DEF Earlier, UpToNow
<1>4. SpeechTyped' /\ SameWords' /\ HeldInItsRound' /\ ReleasedInTheLast' /\ RoundsFollow'
    BY <1>2 DEF SpeechTyped, SameWords, HeldInItsRound, ReleasedInTheLast, RoundsFollow
<1>5. \A p \in run'.preambles : p <= Earlier' /\ p <= UpToNow'
  <2>1. \A p \in run.preambles : p <= UpToNow /\ p \in Nat
      BY DEF SpeechInv, WordsOfThisCall, SpeechTyped
  <2>2. QED
      BY <1>2, <1>3, <2>1, SpeechBounds
<1>6. WordsOfThisCall'
    BY <1>2, <1>5, SpeechBounds DEF WordsOfThisCall
<1>7. QED
    BY <1>4, <1>6 DEF SpeechInv

\* The tools have run: the turn was cancelled, or the next round is asked.
LEMMA ToolsRunKeepsSpeech == ASSUME SpeechInv, Speech!ToolsRun PROVE SpeechInv'
<1>0. /\ SpeechTyped /\ step = "tools" /\ UNCHANGED <<stream, channel>>
      /\ run.round < ToolRounds
    BY DEF SpeechInv, RoundsFollow, Speech!ToolsRun
<1>1. channel.heard = <<>> /\ channel.held = <<>> /\ stream.held = <<>> /\ stream.released = <<>>
    BY <1>0, HeardSoFar
<1>2. PICK did \in {run.acted, TRUE} :
          IF run.aborted /\ ~did /\ ~Speech!HasReleased
          THEN step' = "cancelled" /\ UNCHANGED run
          ELSE /\ step' = "model"
               /\ run' = Speech!Call([run EXCEPT !.round = @ + 1, !.acted = did])
    BY Zenon DEF Speech!ToolsRun
<1>3. CASE step' = "cancelled" /\ UNCHANGED run
  <2>1. SpeechTyped' /\ SameWords' /\ HeldInItsRound' /\ ReleasedInTheLast' /\ RoundsFollow'
      BY <1>0, <1>1, <1>3 DEF SpeechInv, SpeechTyped, SameWords, HeldInItsRound,
         ReleasedInTheLast, RoundsFollow
  <2>2. Earlier' = Earlier /\ UpToNow' = UpToNow
      BY <1>3 DEF Earlier, UpToNow
  <2>3. WordsOfThisCall'
      BY <1>0, <1>1, <1>3, <2>2 DEF SpeechInv, WordsOfThisCall
  <2>4. QED
      BY <1>0, <1>1, <2>1, <2>3 DEF SpeechInv
<1>4. CASE /\ step' = "model"
           /\ run' = Speech!Call([run EXCEPT !.round = @ + 1, !.acted = did])
  <2> DEFINE r == [run EXCEPT !.round = @ + 1, !.acted = did]
  <2>1. /\ run.round + 1 \in 0 .. ToolRounds
        /\ did \in BOOLEAN
    <3>1. run.round \in 0 .. ToolRounds /\ run.acted \in BOOLEAN
        BY <1>0 DEF SpeechTyped
    <3>2. run.round + 1 \in 0 .. ToolRounds
        BY <1>0, <3>1, SpeechBounds
    <3>3. did \in BOOLEAN
        BY <3>1, Zenon
    <3>4. QED
        BY <3>2, <3>3
  <2>2. /\ r \in [round : 0 .. ToolRounds, calls : Nat, acted : BOOLEAN, aborted : BOOLEAN,
                  retried : BOOLEAN, live : BOOLEAN, draft : Seq(Nat), reply : Seq(Nat),
                  preambles : SUBSET Nat]
        /\ r.calls = run.calls /\ r.preambles = run.preambles
      BY <1>0, <2>1, Zenon DEF SpeechTyped
  <2>3. run' = Speech!Call(r)
      BY <1>4
  <2> HIDE DEF r
  <2>4. QED
      BY <1>0, <1>1, <1>4, <2>2, <2>3, HeardSoFar, NextCallKeepsSpeech, Zenon
<1>5. QED
    BY <1>2, <1>3, <1>4

\* The stream dies: what was heard stands, or the call is made again, or the fallback is said.
LEMMA CallFailsKeepsSpeech == ASSUME SpeechInv, Speech!CallFails PROVE SpeechInv'
<1>0. SpeechTyped /\ step = "model"
    BY DEF SpeechInv, Speech!CallFails
<1>1. /\ stream' \in Speech!Stream /\ channel' \in Speech!Channel
      /\ stream'.held = <<>> /\ channel'.held = <<>>
      /\ stream'.released = stream.released /\ channel'.heard = channel.heard
      /\ ~run.live => stream'.revoked
  <2>1. CASE run.live
      BY <1>0, <2>1, RevokedType DEF Speech!CallFails
  <2>2. CASE ~run.live
      BY <2>2, HeardSoFar DEF Speech!CallFails
  <2>3. QED
      BY <2>1, <2>2
<1>2. CASE Speech!HasReleased /\ Speech!Finish(stream.released)
  <2>1. run' = [run EXCEPT !.reply = stream.released] /\ step' = "done"
      BY <1>2 DEF Speech!Finish
  <2>2. run'.reply = channel'.heard
      BY <1>0, <1>1, <2>1, HeardSoFar DEF SpeechTyped
  <2>3. QED
      BY <1>0, <1>1, <2>1, <2>2, HeardSoFar, EndingKeepsSpeech
<1>3. CASE /\ ~Speech!HasReleased /\ step' = "model"
           /\ run' = Speech!Call([run EXCEPT !.retried = TRUE])
  <2> DEFINE r == [run EXCEPT !.retried = TRUE]
  <2>1. /\ r \in [round : 0 .. ToolRounds, calls : Nat, acted : BOOLEAN, aborted : BOOLEAN,
                  retried : BOOLEAN, live : BOOLEAN, draft : Seq(Nat), reply : Seq(Nat),
                  preambles : SUBSET Nat]
        /\ r.calls = run.calls /\ r.preambles = run.preambles
      BY <1>0, Zenon DEF SpeechTyped
  <2>2. run' = Speech!Call(r)
      BY <1>3
  <2>3. channel'.heard = <<>>
      BY <1>1, <1>3, HeardSoFar DEF Speech!HasReleased
  <2> HIDE DEF r
  <2>4. QED
      BY <1>0, <1>1, <1>3, <2>1, <2>2, <2>3, HeardSoFar, NextCallKeepsSpeech, Zenon
<1>4. CASE ~Speech!HasReleased /\ Speech!Finish(Speech!Fallback)
  <2>1. /\ run' = [run EXCEPT !.reply = Speech!Fallback] /\ step' = "done"
        /\ Speech!Fallback \in Seq(Nat)
      BY <1>4 DEF Speech!Finish, Speech!Fallback
  <2>2. channel'.heard = <<>>
      BY <1>1, <1>4, HeardSoFar DEF Speech!HasReleased
  <2>3. QED
      BY <1>0, <1>1, <2>1, <2>2, HeardSoFar, EndingKeepsSpeech
<1>5. QED
    BY <1>2, <1>3, <1>4 DEF Speech!CallFails

\* The barge-in itself says nothing.
LEMMA AbortKeepsSpeech == ASSUME SpeechInv, Speech!Abort PROVE SpeechInv'
<1>0. /\ SpeechTyped /\ RoundsFollow /\ WordsOfThisCall /\ UNCHANGED <<step, stream, channel>>
      /\ run' = [run EXCEPT !.aborted = TRUE]
    BY DEF SpeechInv, Speech!Abort
<1>1. /\ run'.round = run.round /\ run'.calls = run.calls /\ run'.live = run.live
      /\ run'.preambles = run.preambles /\ run'.draft = run.draft /\ run'.reply = run.reply
      /\ run' \in [round : 0 .. ToolRounds, calls : Nat, acted : BOOLEAN, aborted : BOOLEAN,
                   retried : BOOLEAN, live : BOOLEAN, draft : Seq(Nat), reply : Seq(Nat),
                   preambles : SUBSET Nat]
    BY <1>0, Zenon DEF SpeechTyped
<1>2. Earlier' = Earlier /\ UpToNow' = UpToNow
    BY <1>1 DEF Earlier, UpToNow
<1>3. SpeechTyped' /\ SameWords' /\ HeldInItsRound' /\ ReleasedInTheLast' /\ RoundsFollow'
    BY <1>0, <1>1, Zenon
       DEF SpeechInv, SpeechTyped, SameWords, HeldInItsRound, ReleasedInTheLast,
       RoundsFollow
<1>4. WordsOfThisCall'
    BY <1>0, <1>1, <1>2 DEF WordsOfThisCall
<1>5. QED
    BY <1>0, <1>3, <1>4 DEF SpeechInv

\* Every step of a turn, and every step of anything else, preserves the invariant.
LEMMA StepsKeepSpeech == SpeechInv /\ [Speech!Next]_speechVars => SpeechInv'
<1> SUFFICES ASSUME SpeechInv, [Speech!Next]_speechVars PROVE SpeechInv'
    OBVIOUS
<1>1. CASE UNCHANGED speechVars
  <2>1. UNCHANGED <<step, run, stream, channel>>
      BY <1>1 DEF speechVars
  <2>2. Earlier' = Earlier /\ UpToNow' = UpToNow
      BY <2>1 DEF Earlier, UpToNow
  <2>3. WordsOfThisCall'
      BY <2>1, <2>2 DEF SpeechInv, WordsOfThisCall
  <2>4. QED
      BY <2>1, <2>3 DEF SpeechInv, SpeechTyped, SameWords, HeldInItsRound, ReleasedInTheLast,
         RoundsFollow
<1>2. CASE Speech!Next
    BY <1>2, DeltaKeepsSpeech, RoundEndsKeepsSpeech, ToolCallsKeepsSpeech, ToolsRunKeepsSpeech,
       CallCancelledKeepsSpeech, CallFailsKeepsSpeech, RepairEndsKeepsSpeech,
       AbortKeepsSpeech DEF Speech!Next
<1>3. QED
    BY <1>1, <1>2

\* A turn streams at its own steps.
LEMMA RepliesOnly == MCNext => [Speech!Next]_speechVars
BY DEF MCNext, Call, Reply, Interview, CustomerSync, Routing, Synthesizing, Hearing

\* "Once anything has been heard it is never retracted and never repeated": for any number
\* of tool rounds, of sentences and of model calls, what the caller heard of a streamed reply
\* is the reply, a cancelled turn was not heard, nothing stays held when the turn is over, and
\* the words before a tool call are never heard (speech-stream.ts, agent-runtime.ts).
THEOREM ReplyIsHeardOnce == MCSpec => []HeardIsTheReply
<1>1. MCInit => SpeechInv
    BY SpeechStarts DEF MCInit
<1>2. SpeechInv /\ [MCNext]_<<scope, vars, speechVars, salesVars, crmVars, providerVars>>
          => SpeechInv'
  <2>1. UNCHANGED <<scope, vars, speechVars, salesVars, crmVars, providerVars>>
            => UNCHANGED speechVars
      OBVIOUS
  <2>2. QED
      BY <2>1, RepliesOnly, StepsKeepSpeech
<1>3. SpeechInv => HeardIsTheReply
    BY SpeechInvImplies DEF HeardIsTheReply
<1>4. QED
    BY <1>1, <1>2, <1>3, PTL DEF MCSpec

-------------------------------------------------------------------------------
(* A line of speech.  The provider whose audio was released stays the one    *)
(* that is asked, and what is given and queued is what it made.              *)

LineTyped ==
    /\ line \in Synthesis!Line
    /\ vendor \in Synthesis!Vendor
    /\ spoken \in [outcome : {"open", "answered", "failed"}, source : {0, 1, 2},
                   pieces : 0 .. MaxChunks]

\* The audio that was given is of the provider asked.
OneVoice ==
    IF line.released THEN spoken.pieces > 0 /\ spoken.source = line.index
    ELSE spoken.pieces = 0 /\ spoken.source = 0

\* What was given and what is queued was made by the provider asked.
GivenWasMade ==
    /\ line.stage = "idle" => ~line.released
    /\ line.stage = "asking" => spoken.pieces + vendor.chunks <= vendor.made

\* A line that goes on is not settled, but by the cut of its playback.
SettledWhenOver ==
    line.stage # "over" => spoken.outcome = IF line.aborted THEN "failed" ELSE "open"

LineInv == LineTyped /\ OneVoice /\ GivenWasMade /\ SettledWhenOver

\* What a line of speech may give.
GivesOneVoice == Synthesis!Heard!Next \/ UNCHANGED spoken

\* The parts of a line, a provider and what was given are what the types say.
LEMMA LineFields ==
    ASSUME LineTyped
    PROVE  /\ line.stage \in {"idle", "asking", "over"} /\ line.index \in {1, 2}
           /\ line.released \in BOOLEAN /\ line.aborted \in BOOLEAN
           /\ vendor.chunks \in 0 .. MaxChunks /\ vendor.made \in 0 .. MaxChunks
           /\ vendor.done \in {"no", "finished", "recoverable", "refused"}
           /\ spoken.pieces \in 0 .. MaxChunks /\ spoken.source \in {0, 1, 2}
           /\ spoken.outcome \in {"open", "answered", "failed"}
BY DEF LineTyped, Synthesis!Line, Synthesis!Vendor

\* A provider that is asked anew, and one that is gone, have made nothing.
LEMMA NewVendorType ==
    /\ Synthesis!NewVendor \in Synthesis!Vendor
    /\ Synthesis!NewVendor.chunks = 0 /\ Synthesis!NewVendor.made = 0
    /\ Synthesis!NoVendor \in Synthesis!Vendor
    /\ Synthesis!NoVendor.chunks = 0 /\ Synthesis!NoVendor.made = 0
<1>1. 0 \in 0 .. MaxChunks
    BY ProviderBounds
<1>2. /\ Synthesis!NewVendor \in Synthesis!Vendor
      /\ Synthesis!NewVendor.chunks = 0 /\ Synthesis!NewVendor.made = 0
    BY <1>1 DEF Synthesis!NewVendor, Synthesis!Vendor
<1>3. /\ Synthesis!NoVendor \in Synthesis!Vendor
      /\ Synthesis!NoVendor.chunks = Synthesis!NewVendor.chunks
      /\ Synthesis!NoVendor.made = Synthesis!NewVendor.made
    BY <1>2, Zenon DEF Synthesis!NoVendor, Synthesis!Vendor
<1>4. QED
    BY <1>2, <1>3

\* No piece of audio comes before the line is asked for.
LEMMA LineStarts == Synthesis!TtsInit => LineInv /\ Synthesis!Heard!Init
<1> SUFFICES ASSUME Synthesis!TtsInit PROVE LineInv /\ Synthesis!Heard!Init
    OBVIOUS
<1>1. /\ line \in Synthesis!Line /\ line.stage = "idle" /\ line.released = FALSE
      /\ line.aborted = FALSE
    BY Zenon DEF Synthesis!TtsInit, Synthesis!Line
<1>2. spoken = [outcome |-> "open", source |-> 0, pieces |-> 0] /\ vendor = Synthesis!NoVendor
    BY DEF Synthesis!TtsInit
<1>3. LineTyped /\ OneVoice /\ GivenWasMade /\ SettledWhenOver
    BY <1>1, <1>2, NewVendorType, ProviderBounds DEF LineTyped, OneVoice, GivenWasMade,
       SettledWhenOver
<1>4. QED
    BY <1>2, <1>3 DEF LineInv, Synthesis!Heard!Init

\* The queue of a provider that ends, fails or waits is what it made so far.
LEMMA QueueKeeps ==
    ASSUME LineTyped, NEW v \in Synthesis!Vendor,
           NEW failure \in {"finished", "recoverable", "refused"}
    PROVE  /\ Synthesis!Finish(v) \in Synthesis!Vendor
           /\ Synthesis!Finish(v).chunks = v.chunks /\ Synthesis!Finish(v).made = v.made
           /\ Synthesis!FailWith(v, failure) \in Synthesis!Vendor
           /\ Synthesis!FailWith(v, failure).chunks = v.chunks
           /\ Synthesis!FailWith(v, failure).made = v.made
BY DEF Synthesis!Finish, Synthesis!FailWith, Synthesis!Vendor

\* A step of the provider alone keeps the invariant when it gives nothing it has not made.
LEMMA VendorKeepsLine ==
    ASSUME LineInv, UNCHANGED <<line, spoken>>, vendor' \in Synthesis!Vendor,
           line.stage = "asking" => spoken.pieces + vendor'.chunks <= vendor'.made
    PROVE  LineInv' /\ GivesOneVoice
BY DEF LineInv, LineTyped, OneVoice, GivenWasMade, SettledWhenOver, GivesOneVoice

\* The callbacks and the timers of the provider that is asked.
LEMMA CallbacksKeepLine ==
    ASSUME LineInv,
           \/ Synthesis!Opens \/ Synthesis!Audio \/ Synthesis!Completed
           \/ Synthesis!SocketCloses \/ Synthesis!VendorFails \/ Synthesis!TimerFires
    PROVE  LineInv' /\ GivesOneVoice
<1>0. LineTyped /\ vendor \in Synthesis!Vendor
    BY DEF LineInv, LineTyped
<1>1. CASE Synthesis!Opens
  <2>1. vendor' \in Synthesis!Vendor /\ vendor'.chunks = vendor.chunks /\ vendor'.made = vendor.made
      BY <1>0, <1>1, Zenon DEF Synthesis!Opens, Synthesis!Vendor
  <2>2. UNCHANGED <<line, spoken>>
      BY <1>1 DEF Synthesis!Opens
  <2>3. QED
      BY <2>1, <2>2, VendorKeepsLine DEF LineInv, GivenWasMade
<1>2. CASE Synthesis!Audio
  <2> DEFINE v == [vendor EXCEPT !.heard = TRUE]
  <2>1. v \in Synthesis!Vendor /\ v.chunks = vendor.chunks /\ v.made = vendor.made
      BY <1>0, Zenon DEF Synthesis!Vendor
  <2>2. vendor' = Synthesis!Push(v) \/ vendor' = v
      BY <1>2 DEF Synthesis!Audio
  <2>3. line.stage = "asking" /\ vendor.made < MaxChunks /\ UNCHANGED <<line, spoken>>
      BY <1>2 DEF Synthesis!Audio, Synthesis!Asking
  <2>4. spoken.pieces + v.chunks <= v.made
      BY <2>1, <2>3 DEF LineInv, GivenWasMade
  <2> HIDE DEF v
  <2>5. CASE vendor' = v
      BY <2>1, <2>3, <2>4, <2>5, VendorKeepsLine
  <2>6. CASE vendor' = Synthesis!Push(v)
    <3>1. CASE v.done = "no"
      <4>1. vendor' = [v EXCEPT !.chunks = @ + 1, !.made = @ + 1]
          BY <2>6, <3>1 DEF Synthesis!Push
      <4>2. /\ vendor.chunks \in 0 .. MaxChunks /\ vendor.made \in 0 .. MaxChunks
            /\ spoken.pieces \in 0 .. MaxChunks
          BY <1>0, LineFields
      <4>3. v.chunks + 1 \in 0 .. MaxChunks /\ v.made + 1 \in 0 .. MaxChunks
          BY <2>1, <2>3, <2>4, <4>2, ProviderBounds
      <4>4. /\ vendor' \in Synthesis!Vendor
            /\ vendor'.chunks = v.chunks + 1 /\ vendor'.made = v.made + 1
          BY <2>1, <4>1, <4>3, Zenon DEF Synthesis!Vendor
      <4>5. QED
          BY <2>1, <2>3, <2>4, <4>2, <4>4, VendorKeepsLine, ProviderBounds
    <3>2. CASE v.done # "no"
        BY <2>1, <2>3, <2>4, <2>6, <3>2, VendorKeepsLine DEF Synthesis!Push
    <3>3. QED
        BY <3>1, <3>2
  <2>7. QED
      BY <2>2, <2>5, <2>6
<1>3. CASE Synthesis!Completed \/ Synthesis!SocketCloses \/ Synthesis!VendorFails
  <2>1. UNCHANGED <<line, spoken>> /\ line.stage = "asking"
      BY <1>3 DEF Synthesis!Completed, Synthesis!SocketCloses, Synthesis!VendorFails,
         Synthesis!Asking
  <2>2. \E failure \in {"finished", "recoverable", "refused"} :
            vendor' \in {Synthesis!Finish(vendor), Synthesis!FailWith(vendor, failure)}
      BY <1>3 DEF Synthesis!Completed, Synthesis!SocketCloses, Synthesis!VendorFails
  <2>3. vendor' \in Synthesis!Vendor /\ vendor'.chunks = vendor.chunks /\ vendor'.made = vendor.made
      BY <1>0, <2>2, QueueKeeps
  <2>4. QED
      BY <2>1, <2>3, VendorKeepsLine DEF LineInv, GivenWasMade
<1>4. CASE Synthesis!TimerFires
  <2> DEFINE quiet == [vendor EXCEPT !.timers = FALSE]
             failed == [vendor EXCEPT !.timers = FALSE, !.done = "recoverable"]
  <2>1. /\ quiet \in Synthesis!Vendor /\ quiet.chunks = vendor.chunks
        /\ quiet.made = vendor.made
        /\ failed \in Synthesis!Vendor /\ failed.chunks = vendor.chunks
        /\ failed.made = vendor.made
      BY <1>0, Zenon DEF Synthesis!Vendor
  <2>2. vendor' \in {quiet, failed, Synthesis!FailWith(quiet, "recoverable")}
      BY <1>4 DEF Synthesis!TimerFires
  <2>3. UNCHANGED <<line, spoken>> /\ line.stage = "asking"
      BY <1>4 DEF Synthesis!TimerFires, Synthesis!Asking
  <2> HIDE DEF quiet, failed
  <2>4. vendor' \in Synthesis!Vendor /\ vendor'.chunks = vendor.chunks /\ vendor'.made = vendor.made
      BY <1>0, <2>1, <2>2, QueueKeeps
  <2>5. QED
      BY <2>3, <2>4, VendorKeepsLine DEF LineInv, GivenWasMade
<1>5. QED
    BY <1>1, <1>2, <1>3, <1>4

\* synthesize(): a provider is asked, or the line is cut already.
LEMMA AskKeepsLine == ASSUME LineInv, Synthesis!Ask PROVE LineInv' /\ GivesOneVoice
<1> DEFINE stage == IF line.aborted THEN "over" ELSE "asking"
<1>1. /\ line.stage = "idle" /\ spoken' = spoken /\ line' = [line EXCEPT !.stage = stage]
      /\ vendor' = IF line.aborted THEN vendor ELSE Synthesis!NewVendor
    BY DEF Synthesis!Ask
<1>2. stage \in {"asking", "over"} /\ (stage = "over" <=> line.aborted)
    OBVIOUS
<1> HIDE DEF stage
<1>3. /\ line' \in Synthesis!Line /\ line'.stage = stage /\ line'.index = line.index
      /\ line'.released = line.released /\ line'.aborted = line.aborted
    BY <1>1, <1>2 DEF LineInv, LineTyped, Synthesis!Line
<1>4. vendor' \in Synthesis!Vendor
    BY <1>1, NewVendorType DEF LineInv, LineTyped
<1>5. ~line.released /\ spoken.pieces = 0 /\ spoken.source = 0
    BY <1>1 DEF LineInv, GivenWasMade, OneVoice
<1>6. GivenWasMade'
    BY <1>1, <1>2, <1>3, <1>5, NewVendorType DEF GivenWasMade
<1>7. OneVoice' /\ SettledWhenOver' /\ LineTyped'
    BY <1>1, <1>2, <1>3, <1>4, <1>5 DEF LineInv, LineTyped, OneVoice, SettledWhenOver
<1>8. QED
    BY <1>1, <1>6, <1>7 DEF LineInv, GivesOneVoice

\* The next piece of audio is the provider's that gave the ones before it.
LEMMA PullKeepsLine == ASSUME LineInv, Synthesis!Pull PROVE LineInv' /\ GivesOneVoice
<1>0. LineTyped /\ line.stage = "asking" /\ ~line.aborted /\ vendor.chunks > 0
    BY DEF LineInv, Synthesis!Pull, Synthesis!Asking
<1>1. /\ vendor' = [vendor EXCEPT !.chunks = @ - 1]
      /\ line' = [line EXCEPT !.released = TRUE]
      /\ spoken' = [spoken EXCEPT !.source = line.index, !.pieces = @ + 1]
    BY DEF Synthesis!Pull
<1>2. /\ vendor.chunks \in 0 .. MaxChunks /\ vendor.made \in 0 .. MaxChunks
      /\ spoken.pieces \in 0 .. MaxChunks /\ spoken.pieces + vendor.chunks <= vendor.made
    BY <1>0, LineFields DEF LineInv, GivenWasMade
<1>3. vendor.chunks - 1 \in 0 .. MaxChunks /\ spoken.pieces + 1 \in 0 .. MaxChunks
    BY <1>0, <1>2, ProviderBounds
<1>4. /\ vendor' \in Synthesis!Vendor /\ vendor'.chunks = vendor.chunks - 1
      /\ vendor'.made = vendor.made
    BY <1>0, <1>1, <1>3 DEF LineTyped, Synthesis!Vendor
<1>5. /\ line' \in Synthesis!Line /\ line'.stage = line.stage /\ line'.index = line.index
      /\ line'.released = TRUE /\ line'.aborted = line.aborted
    BY <1>0, <1>1, Zenon DEF LineTyped, Synthesis!Line
<1>6. /\ spoken'.source = line.index /\ spoken'.pieces = spoken.pieces + 1
      /\ spoken'.outcome = spoken.outcome
      /\ spoken' \in [outcome : {"open", "answered", "failed"}, source : {0, 1, 2},
                      pieces : 0 .. MaxChunks]
    BY <1>0, <1>1, <1>3, LineFields, Zenon DEF LineTyped
<1>7. spoken.outcome = "open"
    BY <1>0 DEF LineInv, SettledWhenOver
<1>8. LineInv'
  <2>1. LineTyped'
      BY <1>4, <1>5, <1>6 DEF LineTyped
  <2>2. OneVoice' /\ SettledWhenOver'
      BY <1>0, <1>2, <1>5, <1>6, <1>7 DEF LineInv, OneVoice, SettledWhenOver
  <2>3. GivenWasMade'
      BY <1>0, <1>2, <1>4, <1>5, <1>6 DEF GivenWasMade
  <2>4. QED
      BY <2>1, <2>2, <2>3 DEF LineInv
<1>9. Synthesis!Heard!Give
  <2>1. spoken'.source \in IF spoken.pieces = 0 THEN {1, 2} ELSE {spoken.source}
      BY <1>0, <1>6, LineFields DEF LineInv, OneVoice
  <2>2. spoken'.pieces \in spoken.pieces + 1 .. MaxChunks
      BY <1>2, <1>3, <1>6, ProviderBounds
  <2>3. QED
      BY <1>6, <1>7, <2>1, <2>2 DEF Synthesis!Heard!Give
<1>10. QED
    BY <1>8, <1>9 DEF GivesOneVoice, Synthesis!Heard!Next

\* Another provider is asked, or the session tries again, when nothing was given.
LEMMA AskedAnewKeepsLine ==
    ASSUME LineInv, spoken.pieces = 0, NEW l \in Synthesis!Line, line' = l,
           l.stage = line.stage, l.aborted = line.aborted, l.released = line.released,
           vendor' = Synthesis!NewVendor, UNCHANGED spoken
    PROVE  LineInv' /\ GivesOneVoice
<1>1. ~line.released /\ spoken.source = 0
    BY LineFields DEF LineInv, OneVoice
<1>2. LineTyped' /\ OneVoice' /\ GivenWasMade' /\ SettledWhenOver'
    BY <1>1, NewVendorType DEF LineInv, LineTyped, OneVoice, GivenWasMade, SettledWhenOver
<1>3. QED
    BY <1>2 DEF LineInv, GivesOneVoice

\* The iteration ends, and what was given stays.
LEMMA OverKeepsLine ==
    ASSUME LineInv, NEW outcome \in {"answered", "failed", spoken.outcome},
           line' = [line EXCEPT !.stage = "over"], vendor' = Synthesis!NoVendor,
           spoken' = [spoken EXCEPT !.outcome = outcome]
    PROVE  /\ LineInv'
           /\ spoken'.outcome = outcome /\ spoken'.source = spoken.source
           /\ spoken'.pieces = spoken.pieces
<1>0. LineTyped /\ outcome \in {"open", "answered", "failed"}
    BY LineFields DEF LineInv
<1>1. /\ line' \in Synthesis!Line /\ line'.stage = "over" /\ line'.index = line.index
      /\ line'.released = line.released
    BY <1>0 DEF LineTyped, Synthesis!Line
<1>2. /\ spoken'.outcome = outcome /\ spoken'.source = spoken.source
      /\ spoken'.pieces = spoken.pieces
      /\ spoken' \in [outcome : {"open", "answered", "failed"}, source : {0, 1, 2},
                      pieces : 0 .. MaxChunks]
    BY <1>0 DEF LineTyped
<1>3. LineTyped' /\ OneVoice' /\ GivenWasMade' /\ SettledWhenOver'
    BY <1>1, <1>2, NewVendorType DEF LineInv, LineTyped, OneVoice, GivenWasMade,
       SettledWhenOver
<1>4. QED
    BY <1>2, <1>3 DEF LineInv

\* The provider has no more: the line is said, another is asked, or it failed.
LEMMA DrainedKeepsLine == ASSUME LineInv, Synthesis!Drained PROVE LineInv' /\ GivesOneVoice
<1>0. LineTyped /\ line.stage = "asking" /\ ~line.aborted /\ spoken.outcome = "open"
    BY DEF LineInv, SettledWhenOver, Synthesis!Drained, Synthesis!Asking
<1>1. CASE line.released /\ Synthesis!Over("answered")
  <2>1. /\ LineInv' /\ spoken'.outcome = "answered" /\ spoken'.source = spoken.source
        /\ spoken'.pieces = spoken.pieces
      BY <1>1, OverKeepsLine DEF Synthesis!Over
  <2>2. spoken.pieces > 0
      BY <1>1 DEF LineInv, OneVoice
  <2>3. QED
      BY <1>0, <2>1, <2>2 DEF GivesOneVoice, Synthesis!Heard!Next, Synthesis!Heard!Answer
<1>2. CASE /\ Synthesis!MovesOn(vendor.done) /\ line' = [line EXCEPT !.index = 2]
           /\ vendor' = Synthesis!NewVendor /\ UNCHANGED spoken
  <2> DEFINE l == [line EXCEPT !.index = 2]
  <2>1. /\ l \in Synthesis!Line /\ l.stage = line.stage /\ l.aborted = line.aborted
        /\ l.released = line.released
      BY <1>0 DEF LineTyped, Synthesis!Line
  <2>2. spoken.pieces = 0
      BY <1>2 DEF LineInv, OneVoice, Synthesis!MovesOn
  <2> HIDE DEF l
  <2>3. line' = l
      BY <1>2 DEF l
  <2>4. QED
      BY <1>2, <2>1, <2>2, <2>3, AskedAnewKeepsLine
<1>3. CASE /\ Synthesis!TriesAgain(vendor.done)
           /\ line' = [line EXCEPT !.index = 1, !.again = TRUE]
           /\ vendor' = Synthesis!NewVendor /\ UNCHANGED spoken
  <2> DEFINE l == [line EXCEPT !.index = 1, !.again = TRUE]
  <2>1. /\ l \in Synthesis!Line /\ l.stage = line.stage /\ l.aborted = line.aborted
        /\ l.released = line.released
      BY <1>0, Zenon DEF LineTyped, Synthesis!Line
  <2>2. spoken.pieces = 0
      BY <1>3 DEF Synthesis!TriesAgain
  <2> HIDE DEF l
  <2>3. line' = l
      BY <1>3 DEF l
  <2>4. QED
      BY <1>3, <2>1, <2>2, <2>3, AskedAnewKeepsLine
<1>4. CASE Synthesis!Over("failed")
  <2>1. /\ LineInv' /\ spoken'.outcome = "failed" /\ spoken'.source = spoken.source
        /\ spoken'.pieces = spoken.pieces
      BY <1>4, OverKeepsLine DEF Synthesis!Over
  <2>2. QED
      BY <1>0, <2>1 DEF GivesOneVoice, Synthesis!Heard!Next, Synthesis!Heard!Fail
<1>5. QED
    BY <1>1, <1>2, <1>3, <1>4 DEF Synthesis!Drained

\* The playback is cut: for the session the line has failed.
LEMMA CutOffKeepsLine == ASSUME LineInv, Synthesis!CutOff PROVE LineInv' /\ GivesOneVoice
<1>0. /\ LineTyped /\ line.stage # "over" /\ ~line.aborted /\ spoken.outcome = "open"
      /\ line' = [line EXCEPT !.aborted = TRUE]
      /\ spoken' = [spoken EXCEPT !.outcome = "failed"]
    BY DEF LineInv, SettledWhenOver, Synthesis!CutOff
<1>1. /\ line' \in Synthesis!Line /\ line'.stage = line.stage /\ line'.index = line.index
      /\ line'.released = line.released /\ line'.aborted
    BY <1>0, Zenon DEF LineTyped, Synthesis!Line
<1>2. /\ spoken'.outcome = "failed" /\ spoken'.source = spoken.source
      /\ spoken'.pieces = spoken.pieces
      /\ spoken' \in [outcome : {"open", "answered", "failed"}, source : {0, 1, 2},
                      pieces : 0 .. MaxChunks]
    BY <1>0 DEF LineTyped
<1>3. /\ vendor' \in Synthesis!Vendor /\ vendor'.chunks = vendor.chunks
      /\ vendor'.made = vendor.made
    BY <1>0, QueueKeeps DEF LineTyped, Synthesis!CutOff
<1>4. LineTyped' /\ OneVoice' /\ GivenWasMade' /\ SettledWhenOver'
    BY <1>0, <1>1, <1>2, <1>3 DEF LineInv, LineTyped, OneVoice, GivenWasMade, SettledWhenOver
<1>5. Synthesis!Heard!Fail
    BY <1>0, <1>2 DEF Synthesis!Heard!Fail
<1>6. QED
    BY <1>4, <1>5 DEF LineInv, GivesOneVoice, Synthesis!Heard!Next

\* The provider finds out that the line was cut.
LEMMA GivesUpKeepsLine == ASSUME LineInv, Synthesis!GivesUp PROVE LineInv' /\ GivesOneVoice
<1>1. /\ line' = [line EXCEPT !.stage = "over"] /\ vendor' = Synthesis!NoVendor
      /\ spoken' = spoken
    BY DEF Synthesis!GivesUp
<1>2. spoken' = [spoken EXCEPT !.outcome = spoken.outcome]
    BY <1>1 DEF LineInv, LineTyped
<1>3. LineInv'
    BY <1>1, <1>2, OverKeepsLine, Zenon
<1>4. QED
    BY <1>1, <1>3 DEF GivesOneVoice

\* Every step keeps the invariant, and what it gives comes from one provider.
LEMMA StepsKeepLine ==
    LineInv /\ [Synthesis!TtsNext]_lineVars => LineInv' /\ GivesOneVoice
<1> SUFFICES ASSUME LineInv, [Synthesis!TtsNext]_lineVars PROVE LineInv' /\ GivesOneVoice
    OBVIOUS
<1>1. CASE UNCHANGED lineVars
    BY <1>1 DEF lineVars, LineInv, LineTyped, OneVoice, GivenWasMade, SettledWhenOver,
       GivesOneVoice
<1>2. CASE Synthesis!TtsNext
    BY <1>2, CallbacksKeepLine, AskKeepsLine, PullKeepsLine, DrainedKeepsLine,
       CutOffKeepsLine, GivesUpKeepsLine DEF Synthesis!TtsNext
<1>3. QED
    BY <1>1, <1>2

\* A line of speech goes on at its own steps.
LEMMA LinesOnly == MCNext => [Synthesis!TtsNext]_lineVars
BY DEF MCNext, Call, Reply, Interview, CustomerSync, Routing, Synthesizing, Hearing,
   providerVars

\* "Replaying after partial speech would repeat promises to the caller": whichever provider
\* fails and whatever is tried again or cut, a line of any number of pieces is heard in one
\* voice, once, and is not said to be spoken when nothing was (fallback-tts-provider.ts).
THEOREM LineIsHeardInOneVoice == MCSpec => Synthesis!ImplementsOneSource
<1>1. MCInit => LineInv /\ Synthesis!Heard!Init
    BY LineStarts DEF MCInit
<1>2. LineInv /\ [MCNext]_<<scope, vars, speechVars, salesVars, crmVars, providerVars>>
          => LineInv' /\ [Synthesis!Heard!Next]_spoken
  <2>1. UNCHANGED <<scope, vars, speechVars, salesVars, crmVars, providerVars>>
            => UNCHANGED lineVars
      BY DEF providerVars
  <2>2. QED
      BY <2>1, LinesOnly, StepsKeepLine DEF GivesOneVoice
<1>3. QED
    BY <1>1, <1>2, PTL DEF MCSpec, Synthesis!ImplementsOneSource

-------------------------------------------------------------------------------
(* Calls of the model.  What a consumer was given is the answer, so far, of   *)
(* the candidate that is asked, and a call that is settled is not answered.   *)

\* The locals of a call, which waits for any of these times.
RouteOf(wakes) ==
    [stage : {"idle", "sleeping", "asking", "over"}, mode : Router!Modes,
     index : Router!Indices, deadline : Int, wake : wakes, got : 0 .. MaxDeltas,
     committed : BOOLEAN, aborted : BOOLEAN]

\* Of a call of which nothing was given, and of one that is being given.
NothingGiven(r, p) ==
    p.pieces = 0 /\ p.source = 0 /\ ~r.committed /\ (r.mode = "live" => r.got = 0)

BeingGiven(r, p) ==
    /\ r.stage = "asking" /\ r.committed /\ r.mode = "live"
    /\ r.got > 0 /\ p.pieces = r.got /\ p.source = r.index

\* The locals r of a call go with what its consumer was given, p, at this time.
GoesWith(r, p, time) ==
    /\ r.stage = "idle" => p.outcome = "open"
    /\ r.stage = "over" => p.outcome # "open"
    /\ r.stage # "over" => NothingGiven(r, p) \/ BeingGiven(r, p)
    /\ r.stage # "over" /\ p.outcome # "open" => r.aborted \/ time >= r.deadline

RouterTyped ==
    /\ now \in Int
    /\ \E wakes : routes \in [ModelCalls -> RouteOf(wakes)]
    /\ replies \in [ModelCalls -> Router!Reply]

RouterInv == RouterTyped /\ \A c \in ModelCalls : GoesWith(routes[c], replies[c], now)

\* What a call may give its consumer.
GivesOneAnswer == \A c \in ModelCalls : Router!Consumer(c)!Next \/ UNCHANGED replies[c]

\* There are three candidates.
LEMMA ThreeCandidates == Router!Indices = 1 .. 3 /\ Router!Cardinality(Router!Indices) = 3
<1>1. Router!Indices = 1 .. 3
    BY DEF Router!Indices
<1>2. 1 \in Int /\ 3 \in Int
    OBVIOUS
<1>3. Cardinality(1 .. 3) = IF 1 > 3 THEN 0 ELSE 3 - 1 + 1
    BY <1>2, FS_Interval, Zenon
<1>4. Router!Cardinality(1 .. 3) = Cardinality(1 .. 3)
    BY Zenon DEF Router!Cardinality, Cardinality
<1>5. QED
    BY <1>1, <1>3, <1>4

\* The first of some candidates is one of them.
LEMMA FirstCandidate ==
    ASSUME NEW S \in SUBSET (1 .. 3), S # {}
    PROVE  Router!Min(S) \in S
<1>1. \E x \in S : \A y \in S : x <= y
  <2>1. CASE 1 \in S
      BY <2>1
  <2>2. CASE 1 \notin S /\ 2 \in S
      BY <2>2
  <2>3. CASE 1 \notin S /\ 2 \notin S
    <3>1. \A x \in S : x = 3
        BY <2>3
    <3>2. PICK x \in S : TRUE
        BY Zenon
    <3>3. x = 3 /\ \A y \in S : 3 <= y
        BY <3>1
    <3>4. QED
        BY <3>3
  <2>4. QED
      BY <2>1, <2>2, <2>3
<1>2. QED
    BY <1>1, Zenon DEF Router!Min

\* More times to wait for only widen the type.
LEMMA RouteWidens ==
    ASSUME NEW wakes, NEW more, wakes \subseteq more
    PROVE  RouteOf(wakes) \subseteq RouteOf(more)
BY DEF RouteOf

\* waitForProvider from some candidate on: the call is over, or another candidate is waited
\* for or asked, of which nothing was given yet.
LEMMA EnteredType ==
    ASSUME NEW wakes, NEW r \in RouteOf(wakes), NEW table, NEW i \in 1 .. 4, ~r.committed
    PROVE  LET e == Router!Entered(r, table, i) IN
           /\ \E more : wakes \subseteq more /\ e \in RouteOf(more)
           /\ e.stage \in {"over", "sleeping", "asking"}
           /\ e.mode = r.mode /\ e.deadline = r.deadline /\ e.aborted = r.aborted
           /\ ~e.committed
           /\ e.stage # "over" => e.got = 0 /\ Router!Active(r)
<1> DEFINE open == {j \in i .. Router!Cardinality(Router!Indices) : ~Router!Skipped(r, table, j)}
           first == Router!Min(open)
           until == table[<<"groq", "groq", "openrouter">>[first]].until
           next == [r EXCEPT !.index = first, !.got = 0]
           e == Router!Entered(r, table, i)
<1>1. open \subseteq 1 .. 3
    BY ThreeCandidates
<1>2. open # {} => first \in Router!Indices
    BY <1>1, FirstCandidate, ThreeCandidates
<1>3. 0 \in 0 .. MaxDeltas
    BY ProviderBounds
<1>4. e = CASE ~Router!Active(r) \/ open = {} -> [r EXCEPT !.stage = "over"]
            [] Router!Active(r) /\ open # {} /\ Router!Cooling(table, first) ->
                 [next EXCEPT !.stage = "sleeping", !.wake = until]
            [] Router!Active(r) /\ open # {} /\ ~Router!Cooling(table, first) ->
                 [next EXCEPT !.stage = "asking"]
    BY Zenon DEF Router!Entered
<1> HIDE DEF open, first, until, e
<1>5. CASE ~Router!Active(r) \/ open = {}
  <2>1. e = [r EXCEPT !.stage = "over"]
      BY <1>4, <1>5
  <2>2. QED
      BY <2>1 DEF RouteOf, e
<1>6. CASE Router!Active(r) /\ open # {} /\ Router!Cooling(table, first)
  <2>1. e = [next EXCEPT !.stage = "sleeping", !.wake = until]
      BY <1>4, <1>6
  <2>2. next \in RouteOf(wakes \cup {until})
      BY <1>2, <1>3, <1>6, Zenon DEF RouteOf
  <2>3. e \in RouteOf(wakes \cup {until}) /\ wakes \subseteq wakes \cup {until}
      BY <2>1, <2>2, Zenon DEF RouteOf
  <2>4. /\ e.stage = "sleeping" /\ e.mode = r.mode /\ e.deadline = r.deadline
        /\ e.aborted = r.aborted /\ e.committed = r.committed /\ e.got = 0
      BY <2>1 DEF RouteOf
  <2>5. QED
      BY <1>6, <2>3, <2>4 DEF e
<1>7. CASE Router!Active(r) /\ open # {} /\ ~Router!Cooling(table, first)
  <2>1. e = [next EXCEPT !.stage = "asking"]
      BY <1>4, <1>7
  <2>2. next \in RouteOf(wakes)
      BY <1>2, <1>3, <1>7, Zenon DEF RouteOf
  <2>3. e \in RouteOf(wakes)
      BY <2>1, <2>2, Zenon DEF RouteOf
  <2>4. /\ e.stage = "asking" /\ e.mode = r.mode /\ e.deadline = r.deadline
        /\ e.aborted = r.aborted /\ e.committed = r.committed /\ e.got = 0
      BY <2>1 DEF RouteOf
  <2>5. QED
      BY <1>7, <2>3, <2>4 DEF e
<1>8. QED
    BY <1>5, <1>6, <1>7

\* A call goes on as r, its consumer having been given p.
LEMMA MovesKeepRouter ==
    ASSUME RouterInv, NEW c \in ModelCalls, NEW wakes, NEW r \in RouteOf(wakes),
           routes \in [ModelCalls -> RouteOf(wakes)],
           NEW p \in Router!Reply, Router!Moves(c, r, p), UNCHANGED now,
           r.stage # "over" => GoesWith(r, p, now)
    PROVE  /\ RouterInv'
           /\ replies' = [replies EXCEPT ![c] = Router!Settled(p, r)]
<1> DEFINE q == Router!Settled(p, r)
           k == Router!Kept(r)
           more == wakes \cup {0}
<1>1. routes' = [routes EXCEPT ![c] = k] /\ replies' = [replies EXCEPT ![c] = q]
    BY DEF Router!Moves
<1>2. q \in Router!Reply /\ (r.stage = "over" => q.outcome # "open") /\ (r.stage # "over" => q = p)
    BY DEF Router!Settled, Router!Reply
<1>3. k \in RouteOf(more) /\ k.stage = r.stage
  <2>1. 1 \in Router!Indices /\ 0 \in 0 .. MaxDeltas /\ 0 \in Int /\ 0 \in more
      BY ThreeCandidates, ProviderBounds
  <2>2. r \in RouteOf(more)
      BY RouteWidens
  <2> HIDE DEF more
  <2>3. QED
      BY <2>1, <2>2, Zenon DEF Router!Kept, RouteOf
<1>4. GoesWith(k, q, now)
  <2>1. CASE r.stage = "over"
      BY <1>2, <1>3, <2>1 DEF GoesWith
  <2>2. CASE r.stage # "over"
    <3>1. /\ k.mode = r.mode /\ k.index = r.index /\ k.deadline = r.deadline
          /\ k.got = r.got /\ k.committed = r.committed /\ k.aborted = r.aborted
        BY <2>2 DEF Router!Kept, RouteOf
    <3>2. GoesWith(r, q, now)
        BY <1>2, <2>2
    <3> HIDE DEF k, q
    <3>3. QED
        BY <1>3, <3>1, <3>2 DEF GoesWith, NothingGiven, BeingGiven
  <2>3. QED
      BY <2>1, <2>2
<1> HIDE DEF k, q
<1>5. RouterTyped'
  <2>1. RouteOf(wakes) \subseteq RouteOf(more)
      BY RouteWidens
  <2>2. routes' \in [ModelCalls -> RouteOf(more)]
      BY <1>1, <1>3, <2>1, Zenon
  <2>3. replies' \in [ModelCalls -> Router!Reply]
      BY <1>1, <1>2 DEF RouterInv, RouterTyped
  <2>4. QED
      BY <2>2, <2>3 DEF RouterInv, RouterTyped
<1>6. \A d \in ModelCalls : GoesWith(routes'[d], replies'[d], now')
  <2> TAKE d \in ModelCalls
  <2>1. CASE d = c
      BY <1>1, <1>4, <2>1 DEF RouterInv, RouterTyped
  <2>2. CASE d # c
      BY <1>1, <2>2 DEF RouterInv, RouterTyped
  <2>3. QED
      BY <2>1, <2>2
<1>7. QED
    BY <1>1, <1>5, <1>6 DEF RouterInv, q

\* What the invariant says of one call.
LEMMA RouteFields ==
    ASSUME RouterInv, NEW c \in ModelCalls, NEW wakes, routes \in [ModelCalls -> RouteOf(wakes)]
    PROVE  /\ routes[c] \in RouteOf(wakes) /\ replies[c] \in Router!Reply
           /\ GoesWith(routes[c], replies[c], now)
           /\ routes[c].index \in 1 .. 3 /\ routes[c].got \in 0 .. MaxDeltas
           /\ routes[c].deadline \in Int /\ now \in Int
BY ThreeCandidates DEF RouterInv, RouterTyped, RouteOf

\* A call that settles or is waited for gives nothing more.
LEMMA SettlesOnly ==
    ASSUME RouterInv, NEW c \in ModelCalls, NEW r,
           replies' = [replies EXCEPT ![c] = Router!Settled(replies[c], r)]
    PROVE  GivesOneAnswer
<1> DEFINE q == Router!Settled(replies[c], r)
<1>0. replies \in [ModelCalls -> Router!Reply]
    BY DEF RouterInv, RouterTyped
<1>1. \/ q = replies[c]
      \/ /\ replies[c].outcome = "open" /\ q.outcome = "failed"
         /\ q.source = replies[c].source /\ q.pieces = replies[c].pieces
    BY <1>0 DEF Router!Settled, Router!Reply
<1> HIDE DEF q
<1>2. replies'[c] = q /\ \A d \in ModelCalls \ {c} : replies'[d] = replies[d]
    BY <1>0 DEF q
<1>3. ASSUME NEW d \in ModelCalls
      PROVE  Router!Consumer(d)!Next \/ replies'[d] = replies[d]
  <2>1. CASE d = c
      BY <1>1, <1>2, <2>1 DEF Router!Consumer!Next, Router!Consumer!Fail
  <2>2. CASE d # c
      BY <1>2, <2>2
  <2>3. QED
      BY <2>1, <2>2
<1>4. QED
    BY <1>3 DEF GivesOneAnswer

\* Only c's consumer is given something, in a step of the abstract specification.
LEMMA GivesToOne ==
    ASSUME RouterInv, NEW c \in ModelCalls, NEW q, replies' = [replies EXCEPT ![c] = q],
           Router!Consumer(c)!Next
    PROVE  GivesOneAnswer
<1>1. \A d \in ModelCalls \ {c} : replies'[d] = replies[d]
    BY DEF RouterInv, RouterTyped
<1>2. QED
    BY <1>1 DEF GivesOneAnswer

\* No call has been given anything.
LEMMA RouterStarts ==
    Router!Init => RouterInv /\ \A c \in ModelCalls : Router!Consumer(c)!Init
<1> SUFFICES ASSUME Router!Init
             PROVE  RouterInv /\ \A c \in ModelCalls : Router!Consumer(c)!Init
    OBVIOUS
<1>1. 1 \in Router!Indices /\ 0 \in 0 .. MaxDeltas /\ now = 0
    BY ThreeCandidates, ProviderBounds DEF Router!Init
<1>2. \A c \in ModelCalls :
          /\ routes[c] \in RouteOf({0}) /\ routes[c].stage = "idle" /\ routes[c].got = 0
          /\ routes[c].committed = FALSE
  <2> TAKE c \in ModelCalls
  <2>1. routes[c] \in [stage : {"idle"}, mode : Router!Modes, index : {1}, deadline : {0},
                       wake : {0}, got : {0}, committed : {FALSE}, aborted : {FALSE}]
      BY Zenon DEF Router!Init
  <2>2. PICK m \in Router!Modes :
            routes[c] = [stage |-> "idle", mode |-> m, index |-> 1, deadline |-> 0, wake |-> 0,
                         got |-> 0, committed |-> FALSE, aborted |-> FALSE]
      BY <2>1, Zenon
  <2>3. QED
      BY <1>1, <2>2 DEF RouteOf
<1>3. routes \in [ModelCalls -> RouteOf({0})]
    BY <1>2 DEF Router!Init
<1>4. \A c \in ModelCalls : replies[c] = [outcome |-> "open", source |-> 0, pieces |-> 0]
    BY DEF Router!Init
<1>5. replies \in [ModelCalls -> Router!Reply]
  <2> DEFINE none == [outcome |-> "open", source |-> 0, pieces |-> 0]
  <2>1. none \in Router!Reply
      BY <1>1 DEF Router!Reply
  <2>2. replies = [c \in ModelCalls |-> none]
      BY DEF Router!Init
  <2> HIDE DEF none
  <2>3. QED
      BY <2>1, <2>2
<1>6. RouterInv
    BY <1>1, <1>2, <1>3, <1>4, <1>5 DEF RouterInv, RouterTyped, GoesWith, NothingGiven
<1>7. QED
    BY <1>4, <1>6 DEF Router!Consumer!Init

\* A call enters the candidates from i on, with nothing given of those before.
LEMMA EntersKeepsRouter ==
    ASSUME RouterInv, NEW c \in ModelCalls, NEW wakes, NEW r \in RouteOf(wakes),
           routes \in [ModelCalls -> RouteOf(wakes)], NEW table, NEW i \in 1 .. 4,
           ~r.committed, replies[c].pieces = 0, replies[c].source = 0,
           replies[c].outcome # "open" => r.aborted \/ now >= r.deadline,
           Router!Moves(c, Router!Entered(r, table, i), replies[c]), UNCHANGED now
    PROVE  RouterInv' /\ GivesOneAnswer
<1> DEFINE e == Router!Entered(r, table, i)
<1>1. /\ \E more : wakes \subseteq more /\ e \in RouteOf(more)
      /\ e.mode = r.mode /\ e.deadline = r.deadline /\ e.aborted = r.aborted /\ ~e.committed
      /\ e.stage \in {"over", "sleeping", "asking"}
      /\ e.stage # "over" => e.got = 0
    BY EnteredType
<1> HIDE DEF e
<1>2. PICK more : wakes \subseteq more /\ e \in RouteOf(more)
    BY <1>1
<1>3. routes \in [ModelCalls -> RouteOf(more)]
    BY <1>2, RouteWidens
<1>4. e.stage # "over" => GoesWith(e, replies[c], now)
    BY <1>1 DEF GoesWith, NothingGiven
<1>5. replies[c] \in Router!Reply /\ Router!Moves(c, e, replies[c])
    BY DEF RouterInv, RouterTyped, e
<1>6. RouterInv' /\ replies' = [replies EXCEPT ![c] = Router!Settled(replies[c], e)]
    BY <1>2, <1>3, <1>4, <1>5, MovesKeepRouter
<1>7. QED
    BY <1>6, SettlesOnly, Zenon

\* invokeModel: the first candidate is asked.
LEMMA RequestKeepsRouter ==
    ASSUME RouterInv, NEW c \in ModelCalls, Router!Request(c)
    PROVE  RouterInv' /\ GivesOneAnswer
<1>1. PICK wakes : routes \in [ModelCalls -> RouteOf(wakes)]
    BY DEF RouterInv, RouterTyped
<1> DEFINE r == [routes[c] EXCEPT !.deadline = now + Timeout]
<1>2. now + Timeout \in Int
    BY <1>1, RouteFields, ProviderBounds
<1>3. routes[c] \in RouteOf(wakes) /\ routes[c].stage = "idle"
    BY <1>1, RouteFields DEF Router!Request
<1>4. r \in RouteOf(wakes) /\ r.committed = routes[c].committed
    BY <1>2, <1>3 DEF RouteOf
<1>5. /\ Router!Moves(c, Router!Entered(r, cooldowns, 1), replies[c])
      /\ UNCHANGED now
    BY DEF Router!Request
<1> HIDE DEF r
<1>6. /\ NothingGiven(routes[c], replies[c]) /\ replies[c].outcome = "open"
    BY <1>1, <1>3, RouteFields DEF GoesWith, BeingGiven
<1>7. QED
    BY <1>1, <1>4, <1>5, <1>6, EntersKeepsRouter DEF NothingGiven

\* The wait for a candidate is over.
LEMMA WakesKeepsRouter ==
    ASSUME RouterInv, NEW c \in ModelCalls, Router!Wakes(c)
    PROVE  RouterInv' /\ GivesOneAnswer
<1>1. PICK wakes : routes \in [ModelCalls -> RouteOf(wakes)]
    BY DEF RouterInv, RouterTyped
<1> DEFINE stage == IF Router!Active(routes[c]) THEN "asking" ELSE "over"
           r == [routes[c] EXCEPT !.stage = stage]
<1>2. routes[c] \in RouteOf(wakes) /\ routes[c].stage = "sleeping"
    BY <1>1, RouteFields DEF Router!Wakes
<1>3. stage \in {"asking", "over"}
    OBVIOUS
<1>4. Router!Moves(c, r, replies[c]) /\ UNCHANGED now
    BY DEF Router!Wakes
<1> HIDE DEF stage
<1>5. /\ r \in RouteOf(wakes) /\ r.stage = stage /\ r.mode = routes[c].mode /\ r.got = routes[c].got
      /\ r.committed = routes[c].committed /\ r.aborted = routes[c].aborted
      /\ r.deadline = routes[c].deadline
    BY <1>2, <1>3 DEF RouteOf
<1> HIDE DEF r
<1>6. GoesWith(routes[c], replies[c], now) /\ replies[c] \in Router!Reply
    BY <1>1, RouteFields
<1>7. r.stage # "over" => GoesWith(r, replies[c], now)
    BY <1>2, <1>3, <1>5, <1>6 DEF GoesWith, NothingGiven, BeingGiven
<1>8. RouterInv' /\ replies' = [replies EXCEPT ![c] = Router!Settled(replies[c], r)]
    BY <1>1, <1>4, <1>5, <1>6, <1>7, MovesKeepRouter
<1>9. QED
    BY <1>8, SettlesOnly, Zenon

\* The catch of stream() and complete(): the failure is final once something was given.
LEMMA CatchKeepsRouter ==
    ASSUME RouterInv, NEW c \in ModelCalls, NEW failure, NEW retryAfter,
           routes[c].stage = "asking", Router!Catch(c, failure, retryAfter), UNCHANGED now
    PROVE  RouterInv' /\ GivesOneAnswer
<1>1. PICK wakes : routes \in [ModelCalls -> RouteOf(wakes)]
    BY DEF RouterInv, RouterTyped
<1>2. /\ routes[c] \in RouteOf(wakes) /\ replies[c] \in Router!Reply
      /\ GoesWith(routes[c], replies[c], now) /\ routes[c].index \in 1 .. 3
    BY <1>1, RouteFields
<1>3. CASE Router!Final(routes[c], failure)
  <2> DEFINE r == [routes[c] EXCEPT !.stage = "over"]
  <2>1. Router!Moves(c, r, replies[c])
      BY <1>3 DEF Router!Catch
  <2>2. r \in RouteOf(wakes) /\ r.stage = "over"
      BY <1>2 DEF RouteOf
  <2> HIDE DEF r
  <2>3. RouterInv' /\ replies' = [replies EXCEPT ![c] = Router!Settled(replies[c], r)]
      BY <1>1, <1>2, <2>1, <2>2, MovesKeepRouter
  <2>4. QED
      BY <2>3, SettlesOnly, Zenon
<1>4. CASE ~Router!Final(routes[c], failure)
  <2> DEFINE table == Router!Limited(cooldowns,
                          <<"groq", "groq", "openrouter">>[routes[c].index], failure, retryAfter)
  <2>1. Router!Moves(c, Router!Entered(routes[c], table, routes[c].index + 1), replies[c])
      BY <1>4 DEF Router!Catch
  <2> HIDE DEF table
  <2>2. /\ ~routes[c].committed /\ NothingGiven(routes[c], replies[c])
        /\ routes[c].index + 1 \in 1 .. 4
        /\ replies[c].outcome # "open" => routes[c].aborted \/ now >= routes[c].deadline
      BY <1>2, <1>4 DEF Router!Final, GoesWith, BeingGiven
  <2>3. QED
      BY <1>1, <1>2, <2>1, <2>2, EntersKeepsRouter DEF NothingGiven
<1>5. QED
    BY <1>3, <1>4

\* The candidate that is asked fails.
LEMMA ProviderFailsKeepsRouter ==
    ASSUME RouterInv, NEW c \in ModelCalls, Router!ProviderFails(c)
    PROVE  RouterInv' /\ GivesOneAnswer
BY CatchKeepsRouter DEF Router!ProviderFails

\* A delta is passed on as it comes when the call is live.
LEMMA DeltaKeepsRouter ==
    ASSUME RouterInv, NEW c \in ModelCalls, Router!Delta(c)
    PROVE  RouterInv' /\ GivesOneAnswer
<1>1. PICK wakes : routes \in [ModelCalls -> RouteOf(wakes)]
    BY DEF RouterInv, RouterTyped
<1>2. /\ routes[c] \in RouteOf(wakes) /\ replies[c] \in Router!Reply
      /\ GoesWith(routes[c], replies[c], now) /\ routes[c].index \in 1 .. 3
      /\ routes[c].got \in 0 .. MaxDeltas /\ routes[c].deadline \in Int /\ now \in Int
    BY <1>1, RouteFields
<1>3. routes[c].stage = "asking" /\ routes[c].got < MaxDeltas /\ UNCHANGED now
    BY DEF Router!Delta
<1> DEFINE live == routes[c].mode = "live"
           r == [routes[c] EXCEPT !.got = @ + 1, !.committed = live]
           p == IF live THEN Router!Heard(replies[c], r) ELSE replies[c]
<1>4. /\ r \in RouteOf(wakes) /\ r.stage = "asking" /\ r.mode = routes[c].mode
      /\ r.got = routes[c].got + 1 /\ r.committed = live /\ r.aborted = routes[c].aborted
      /\ r.deadline = routes[c].deadline /\ r.index = routes[c].index
  <2> DEFINE got == routes[c].got + 1
  <2>1. got \in 0 .. MaxDeltas
      BY <1>2, <1>3, ProviderBounds
  <2>2. live \in BOOLEAN
      OBVIOUS
  <2>3. r = [routes[c] EXCEPT !.got = got, !.committed = live]
      BY <1>2 DEF RouteOf
  <2> HIDE DEF got, live, r
  <2>4. QED
      BY <1>2, <1>3, <2>1, <2>2, <2>3, Zenon DEF RouteOf, got
<1>5. CASE Router!Active(r) /\ Router!Moves(c, r, p)
  <2>1. replies[c].outcome = "open"
      BY <1>2, <1>3, <1>4, <1>5 DEF Router!Active, GoesWith
  <2>2. CASE live
    <3>1. /\ p = [replies[c] EXCEPT !.source = r.index, !.pieces = r.got]
          /\ r.committed
        BY <1>4, <2>2, Zenon DEF Router!Heard
    <3>2. /\ p.source = r.index /\ p.pieces = r.got /\ p.outcome = "open"
          /\ r.got \in 1 .. MaxDeltas /\ r.index \in Router!Indices
      <4>1. r.got \in 1 .. MaxDeltas
          BY <1>2, <1>3, <1>4, ProviderBounds
      <4>2. r.index \in Router!Indices
          BY <1>2, <1>4, ThreeCandidates
      <4> HIDE DEF r, p
      <4>3. p.source = r.index /\ p.pieces = r.got /\ p.outcome = "open"
          BY <1>2, <2>1, <3>1 DEF Router!Reply
      <4>4. QED
          BY <4>1, <4>2, <4>3
    <3>3. p \in Router!Reply
      <4>1. r.got \in 0 .. MaxDeltas /\ r.index \in {0} \cup Router!Indices
          BY <3>2
      <4> HIDE DEF r, p
      <4>2. QED
          BY <1>2, <3>1, <4>1, Zenon DEF Router!Reply
    <3> HIDE DEF r, p
    <3>4. GoesWith(r, p, now)
        BY <1>4, <2>2, <3>1, <3>2 DEF GoesWith, BeingGiven
    <3>5. RouterInv' /\ replies' = [replies EXCEPT ![c] = Router!Settled(p, r)]
        BY <1>1, <1>3, <1>4, <1>5, <3>3, <3>4, MovesKeepRouter
    <3>6. replies' = [replies EXCEPT ![c] = p]
        BY <1>4, <3>5 DEF Router!Settled
    <3>7. replies'[c] = p
        BY <3>6 DEF RouterInv, RouterTyped
    <3>8. /\ r.got \in replies[c].pieces + 1 .. MaxDeltas
          /\ r.index \in IF replies[c].pieces = 0 THEN Router!Indices ELSE {replies[c].source}
      <4>1. \/ NothingGiven(routes[c], replies[c])
            \/ BeingGiven(routes[c], replies[c])
          BY <1>2, <1>3 DEF GoesWith
      <4>2. CASE NothingGiven(routes[c], replies[c])
          BY <1>2, <1>3, <1>4, <3>2, <4>2, ProviderBounds DEF NothingGiven
      <4>3. CASE BeingGiven(routes[c], replies[c])
          BY <1>2, <1>3, <1>4, <3>2, <4>3, ProviderBounds DEF BeingGiven
      <4>4. QED
          BY <4>1, <4>2, <4>3
    <3>9. Router!Consumer(c)!Give
        BY <2>1, <3>2, <3>7, <3>8 DEF Router!Consumer!Give
    <3>10. QED
        BY <3>5, <3>6, <3>9, GivesToOne, Zenon DEF Router!Consumer!Next
  <2>3. CASE ~live
    <3>1. p = replies[c] /\ ~r.committed
        BY <1>4, <2>3, Zenon
    <3> HIDE DEF r, p
    <3>2. GoesWith(r, replies[c], now)
        BY <1>2, <1>3, <1>4, <2>1, <2>3, <3>1 DEF GoesWith, NothingGiven, BeingGiven
    <3>3. RouterInv' /\ replies' = [replies EXCEPT ![c] = Router!Settled(replies[c], r)]
        BY <1>1, <1>2, <1>3, <1>4, <1>5, <3>1, <3>2, MovesKeepRouter
    <3>4. QED
        BY <3>3, SettlesOnly, Zenon
  <2>4. QED
      BY <2>2, <2>3
<1>6. CASE Router!Catch(c, "outage", 0)
    BY <1>3, <1>6, CatchKeepsRouter
<1>7. QED
    BY <1>5, <1>6 DEF Router!Delta

\* A call that ends with an answer of the candidate that was asked, which was given so far or
\* is given now as a whole.
LEMMA AnswersKeepsRouter ==
    ASSUME RouterInv, NEW c \in ModelCalls, NEW r, NEW outcome \in {"answered", "failed"},
           NEW q, q \in Router!Reply, q.outcome = outcome,
           \/ /\ q.source = replies[c].source /\ q.pieces = replies[c].pieces
              /\ q.pieces > 0
           \/ /\ q.source \in Router!Indices /\ q.pieces \in 1 .. MaxDeltas
              /\ replies[c].pieces = 0,
           replies[c].outcome = "open", r.stage = "over",
           NEW wakes, r \in RouteOf(wakes), routes \in [ModelCalls -> RouteOf(wakes)],
           Router!Moves(c, r, q), UNCHANGED now
    PROVE  RouterInv' /\ GivesOneAnswer
<1>1. RouterInv' /\ replies' = [replies EXCEPT ![c] = Router!Settled(q, r)]
    BY MovesKeepRouter
<1>2. replies' = [replies EXCEPT ![c] = q] /\ replies'[c] = q
    BY <1>1, Zenon DEF Router!Settled, RouterInv, RouterTyped
<1>3. CASE q.source = replies[c].source /\ q.pieces = replies[c].pieces /\ q.pieces > 0
    BY <1>1, <1>2, <1>3, GivesToOne, Zenon DEF Router!Consumer!Next, Router!Consumer!Answer,
       Router!Consumer!Fail
<1>4. CASE /\ q.source \in Router!Indices /\ q.pieces \in 1 .. MaxDeltas
           /\ replies[c].pieces = 0
  <2>1. /\ q.pieces \in replies[c].pieces + 1 .. MaxDeltas
        /\ q.source \in IF replies[c].pieces = 0 THEN Router!Indices ELSE {replies[c].source}
      BY <1>4
  <2>2. Router!Consumer(c)!Give
      BY <1>2, <2>1 DEF Router!Consumer!Give
  <2>3. QED
      BY <1>1, <1>2, <2>2, GivesToOne, Zenon DEF Router!Consumer!Next
<1>5. QED
    BY <1>3, <1>4

\* The stream ends: with an answer, or with one that was cut, or with none.
LEMMA StreamEndsKeepsRouter ==
    ASSUME RouterInv, NEW c \in ModelCalls, Router!StreamEnds(c)
    PROVE  RouterInv' /\ GivesOneAnswer
<1>1. PICK wakes : routes \in [ModelCalls -> RouteOf(wakes)]
    BY DEF RouterInv, RouterTyped
<1>2. /\ routes[c] \in RouteOf(wakes) /\ replies[c] \in Router!Reply
      /\ GoesWith(routes[c], replies[c], now) /\ routes[c].index \in Router!Indices
      /\ routes[c].got \in 0 .. MaxDeltas /\ routes[c].deadline \in Int /\ now \in Int
    BY <1>1, RouteFields, ThreeCandidates
<1>3. routes[c].stage = "asking" /\ UNCHANGED now
    BY DEF Router!StreamEnds
<1> DEFINE whole == IF routes[c].mode = "live" THEN replies[c]
                    ELSE Router!Heard(replies[c], routes[c])
           r == [routes[c] EXCEPT !.stage = "over"]
<1>4. r \in RouteOf(wakes) /\ r.stage = "over"
    BY <1>2 DEF RouteOf
<1>5. ASSUME NEW outcome \in {"answered", "failed"}, Router!Active(routes[c]), routes[c].got > 0,
             Router!Moves(c, r, [whole EXCEPT !.outcome = outcome])
      PROVE  RouterInv' /\ GivesOneAnswer
  <2> DEFINE q == [whole EXCEPT !.outcome = outcome]
  <2>1. replies[c].outcome = "open"
      BY <1>2, <1>3, <1>5 DEF Router!Active, GoesWith
  <2>2. CASE routes[c].mode = "live"
    <3>1. BeingGiven(routes[c], replies[c])
        BY <1>2, <1>3, <1>5, <2>2 DEF GoesWith, NothingGiven
    <3>2. /\ q \in Router!Reply /\ q.outcome = outcome
          /\ q.source = replies[c].source /\ q.pieces = replies[c].pieces
        BY <1>2, <2>2 DEF Router!Reply
    <3> HIDE DEF q, r
    <3>3. QED
        BY <1>1, <1>3, <1>4, <1>5, <2>1, <3>1, <3>2, AnswersKeepsRouter, Zenon
           DEF BeingGiven, q
  <2>3. CASE routes[c].mode # "live"
    <3>1. NothingGiven(routes[c], replies[c])
        BY <1>2, <1>3, <2>3 DEF GoesWith, BeingGiven
    <3>2. whole = [replies[c] EXCEPT !.source = routes[c].index, !.pieces = routes[c].got]
        BY <2>3 DEF Router!Heard
    <3>3. /\ q \in Router!Reply /\ q.outcome = outcome
          /\ q.source = routes[c].index /\ q.pieces = routes[c].got
        BY <1>2, <3>2, Zenon DEF Router!Reply
    <3>4. q.pieces \in 1 .. MaxDeltas /\ q.source \in Router!Indices
        BY <1>2, <1>5, <3>3
    <3> HIDE DEF q, r
    <3>5. QED
        BY <1>1, <1>3, <1>4, <1>5, <2>1, <3>1, <3>3, <3>4, AnswersKeepsRouter, Zenon
           DEF NothingGiven, q
  <2>4. QED
      BY <2>2, <2>3
<1>6. CASE Router!Catch(c, "outage", 0)
    BY <1>3, <1>6, CatchKeepsRouter
<1>7. QED
    BY <1>5, <1>6 DEF Router!StreamEnds

\* complete(): the whole answer at once.
LEMMA CompletesKeepsRouter ==
    ASSUME RouterInv, NEW c \in ModelCalls, Router!Completes(c)
    PROVE  RouterInv' /\ GivesOneAnswer
<1>1. PICK wakes : routes \in [ModelCalls -> RouteOf(wakes)]
    BY DEF RouterInv, RouterTyped
<1>2. /\ routes[c] \in RouteOf(wakes) /\ replies[c] \in Router!Reply
      /\ GoesWith(routes[c], replies[c], now) /\ routes[c].index \in Router!Indices
      /\ routes[c].deadline \in Int /\ now \in Int
    BY <1>1, RouteFields, ThreeCandidates
<1>3. routes[c].stage = "asking" /\ routes[c].mode = "complete" /\ UNCHANGED now
    BY DEF Router!Completes
<1> DEFINE full == [routes[c] EXCEPT !.got = MaxDeltas]
           r == [full EXCEPT !.stage = "over"]
           q == [Router!Heard(replies[c], full) EXCEPT !.outcome = "answered"]
<1>4. CASE Router!Active(full) /\ Router!Moves(c, r, q)
  <2>1. /\ full \in RouteOf(wakes) /\ full.aborted = routes[c].aborted
        /\ full.deadline = routes[c].deadline /\ full.got = MaxDeltas
        /\ full.index = routes[c].index
      BY <1>2, ProviderBounds DEF RouteOf
  <2>2. replies[c].outcome = "open"
      BY <1>2, <1>3, <1>4, <2>1 DEF Router!Active, GoesWith
  <2>3. NothingGiven(routes[c], replies[c])
      BY <1>2, <1>3 DEF GoesWith, BeingGiven
  <2> HIDE DEF full
  <2>4. r \in RouteOf(wakes) /\ r.stage = "over"
      BY <2>1 DEF RouteOf
  <2>5. Router!Heard(replies[c], full) =
            [replies[c] EXCEPT !.source = routes[c].index, !.pieces = MaxDeltas]
      BY <2>1 DEF Router!Heard
  <2>6. MaxDeltas \in 0 .. MaxDeltas /\ MaxDeltas \in 1 .. MaxDeltas
      BY ProviderBounds
  <2>7. /\ q \in Router!Reply /\ q.outcome = "answered"
        /\ q.source = routes[c].index /\ q.pieces = MaxDeltas
      BY <1>2, <2>5, <2>6, Zenon DEF Router!Reply
  <2> HIDE DEF q, r
  <2>8. QED
      BY <1>1, <1>2, <1>3, <1>4, <2>2, <2>3, <2>4, <2>6, <2>7, AnswersKeepsRouter
         DEF NothingGiven
<1>5. CASE Router!Catch(c, "outage", 0)
    BY <1>3, <1>5, CatchKeepsRouter
<1>6. QED
    BY <1>4, <1>5 DEF Router!Completes

\* The consumer does not wait for the route any longer: it is aborted, or too late.
LEMMA GivenUpKeepsRouter ==
    ASSUME RouterInv, NEW c \in ModelCalls, Router!Abort(c) \/ Router!DeadlinePasses(c)
    PROVE  RouterInv' /\ GivesOneAnswer
<1>1. PICK wakes : routes \in [ModelCalls -> RouteOf(wakes)]
    BY DEF RouterInv, RouterTyped
<1>2. /\ routes[c] \in RouteOf(wakes) /\ replies[c] \in Router!Reply
      /\ GoesWith(routes[c], replies[c], now)
    BY <1>1, RouteFields
<1>3. PICK r : /\ Router!GivenUp(c, r)
               /\ \/ r = [routes[c] EXCEPT !.aborted = TRUE]
                  \/ r = routes[c] /\ now >= routes[c].deadline
    BY DEF Router!Abort, Router!DeadlinePasses
<1>4. routes[c].stage # "idle" /\ replies[c].outcome = "open"
    BY DEF Router!Abort, Router!DeadlinePasses
<1> DEFINE q == [replies[c] EXCEPT !.outcome = "failed"]
<1>5. /\ r \in RouteOf(wakes) /\ r.stage = routes[c].stage /\ r.mode = routes[c].mode
      /\ r.index = routes[c].index /\ r.got = routes[c].got /\ r.committed = routes[c].committed
      /\ r.deadline = routes[c].deadline
      /\ r.aborted \/ now >= r.deadline
    BY <1>2, <1>3, Zenon DEF RouteOf
<1>6. /\ q \in Router!Reply /\ q.outcome = "failed" /\ q.source = replies[c].source
      /\ q.pieces = replies[c].pieces
    BY <1>2 DEF Router!Reply
<1>7. routes' = [routes EXCEPT ![c] = r] /\ replies' = [replies EXCEPT ![c] = q] /\ now' = now
    BY <1>3 DEF Router!GivenUp, RouterInv, RouterTyped
<1> HIDE DEF q
<1>8. GoesWith(r, q, now)
    BY <1>2, <1>4, <1>5, <1>6 DEF GoesWith, NothingGiven, BeingGiven
<1>9. RouterTyped'
    BY <1>1, <1>5, <1>6, <1>7 DEF RouterInv, RouterTyped
<1>10. \A d \in ModelCalls : GoesWith(routes'[d], replies'[d], now')
  <2> TAKE d \in ModelCalls
  <2>1. CASE d = c
      BY <1>7, <1>8, <2>1 DEF RouterInv, RouterTyped
  <2>2. CASE d # c
      BY <1>7, <2>2 DEF RouterInv, RouterTyped
  <2>3. QED
      BY <2>1, <2>2
<1>11. Router!Consumer(c)!Fail
    BY <1>4, <1>6, <1>7 DEF Router!Consumer!Fail, RouterInv, RouterTyped
<1>12. QED
    BY <1>7, <1>9, <1>10, <1>11, GivesToOne, Zenon DEF RouterInv, Router!Consumer!Next

\* The time a call is too late for comes and stays.
LEMMA TickKeepsRouter == ASSUME RouterInv, Router!Tick PROVE RouterInv' /\ GivesOneAnswer
<1>1. PICK wakes : routes \in [ModelCalls -> RouteOf(wakes)]
    BY DEF RouterInv, RouterTyped
<1>2. now' = now + 1 /\ UNCHANGED <<routes, replies>>
    BY DEF Router!Tick
<1>3. ASSUME NEW c \in ModelCalls PROVE GoesWith(routes'[c], replies'[c], now')
  <2>1. GoesWith(routes[c], replies[c], now) /\ routes[c].deadline \in Int /\ now \in Int
      BY <1>1, RouteFields
  <2>2. now' >= now /\ now' \in Int
      BY <1>2, <2>1
  <2>3. now >= routes[c].deadline => now' >= routes[c].deadline
      BY <2>1, <2>2
  <2>4. QED
      BY <1>2, <2>1, <2>3 DEF GoesWith
<1>4. QED
    BY <1>2, <1>3 DEF RouterInv, RouterTyped, GivesOneAnswer

\* Every step keeps the invariant, and what it gives comes from one candidate.
LEMMA StepsKeepRouter == RouterInv /\ [Router!Next]_modelVars => RouterInv' /\ GivesOneAnswer
<1> SUFFICES ASSUME RouterInv, [Router!Next]_modelVars PROVE RouterInv' /\ GivesOneAnswer
    OBVIOUS
<1>1. CASE UNCHANGED modelVars
    BY <1>1 DEF modelVars, RouterInv, RouterTyped, GivesOneAnswer
<1>2. CASE Router!Next
    BY <1>2, RequestKeepsRouter, WakesKeepsRouter, ProviderFailsKeepsRouter,
       DeltaKeepsRouter, StreamEndsKeepsRouter, CompletesKeepsRouter, GivenUpKeepsRouter,
       TickKeepsRouter DEF Router!Next
<1>3. QED
    BY <1>1, <1>2

\* A call of the model goes on at its own steps.
LEMMA RoutesOnly == MCNext => [Router!Next]_modelVars
BY DEF MCNext, Call, Reply, Interview, CustomerSync, Routing, Synthesizing, Hearing,
   providerVars

\* "From here the first candidate is committed to the consumer": for any number of concurrent
\* calls, whatever waits, timeouts and limits their providers ask for, the consumer of a call
\* hears one model, and nothing once the call has settled (fallback-router.ts, llm-adapter.ts).
THEOREM AnswerIsOfOneModel == MCSpec => Router!ImplementsOneSource
<1>1. MCInit => RouterInv /\ \A c \in ModelCalls : Router!Consumer(c)!Init
    BY RouterStarts DEF MCInit
<1>2. RouterInv /\ [MCNext]_<<scope, vars, speechVars, salesVars, crmVars, providerVars>>
          => /\ RouterInv'
             /\ [\A c \in ModelCalls : Router!Consumer(c)!Next \/ UNCHANGED replies[c]]_replies
  <2>1. UNCHANGED <<scope, vars, speechVars, salesVars, crmVars, providerVars>>
            => UNCHANGED modelVars
      BY DEF providerVars
  <2>2. QED
      BY <2>1, RoutesOnly, StepsKeepRouter DEF GivesOneAnswer
<1>3. QED
    BY <1>1, <1>2, PTL DEF MCSpec, Router!ImplementsOneSource

-------------------------------------------------------------------------------
(* Induction, and what it says of two operators of the community modules that *)
(* recognition is made of: the fold over the frames kept, and FlattenSeq.     *)

\* A set of numbers that has zero, and with each its successor, has all of them.
LEMMA Induction ==
    ASSUME NEW S, 0 \in S, \A n \in Nat : n \in S => n + 1 \in S
    PROVE  \A n \in Nat : n \in S
<1> SUFFICES ASSUME Nat \ S # {} PROVE FALSE
    OBVIOUS
<1> DEFINE R == {p \in Nat \X Nat : p[1] < p[2]}
<1>1. IsWellFoundedOn(R, Nat)
    BY NatLessThanWellFounded DEF OpToRel
<1>2. PICK x \in Nat \ S : \A y \in Nat \ S : <<y, x>> \notin R
    BY <1>1, WFMin, Zenon
<1>3. x # 0 /\ x - 1 \in Nat
    BY <1>2
<1>4. x - 1 \in S
  <2>1. <<x - 1, x>> \in R
      BY <1>3
  <2>2. QED
      BY <1>2, <1>3, <2>1
<1>5. QED
    BY <1>3, <1>4

\* The last of some positions of a sequence.
LEMMA LastOf ==
    ASSUME NEW n \in Nat, NEW S \in SUBSET (1 .. n), S # {}
    PROVE  /\ Recognition!Max(S) \in S
           /\ \A y \in S : y <= Recognition!Max(S)
<1> DEFINE T == {m \in Nat : \A P \in SUBSET (1 .. m) :
                                 P # {} => \E x \in P : \A y \in P : x >= y}
<1>1. 0 \in T
  <2>1. 1 .. 0 = {}
      OBVIOUS
  <2>2. QED
      BY <2>1, Zenon
<1>2. ASSUME NEW m \in Nat, m \in T PROVE m + 1 \in T
  <2> SUFFICES ASSUME NEW P \in SUBSET (1 .. m + 1), P # {}
               PROVE  \E x \in P : \A y \in P : x >= y
      OBVIOUS
  <2>1. CASE m + 1 \in P
      BY <2>1
  <2>2. CASE m + 1 \notin P
    <3>1. P \in SUBSET (1 .. m)
        BY <2>2
    <3>2. QED
        BY <1>2, <3>1
  <2>3. QED
      BY <2>1, <2>2
<1> HIDE DEF T
<1>3. n \in T
    BY <1>1, <1>2, Induction
<1>4. \E x \in S : \A y \in S : x >= y
    BY <1>3 DEF T
<1>5. QED
    BY <1>4, Zenon DEF Recognition!Max

\* A new recognizer after the writes of some of the items.
Writes(kind, items) ==
    CHOOSE iter : iter = [s \in SUBSET (DOMAIN items) |->
        IF s = {} THEN Recognition!NewRecognizer
        ELSE LET x == Recognition!Max(s)
             IN  Recognition!Written(kind, iter[s \ {x}], items[x])]

\* After the writes of all that is kept.
Filled(kind) == Writes(kind, ear.buffered)[DOMAIN ear.buffered]

\* A recognizer is replayed to by the writes of what is kept.
LEMMA ReplayedIs ==
    \A kind : Recognition!Replayed(kind) =
                 IF ear.pendingFinalize THEN Recognition!Finalized(kind, Filled(kind))
                 ELSE Filled(kind)
BY Zenon DEF Filled, Writes, Recognition!Replayed, Recognition!FoldLeft,
   Recognition!MapThenFoldSet

\* The writes of a sequence are well defined.
LEMMA WriteUnfolds ==
    ASSUME NEW kind, NEW items \in Seq(Nat)
    PROVE  Writes(kind, items) = [s \in SUBSET (1 .. Len(items)) |->
               IF s = {} THEN Recognition!NewRecognizer
               ELSE Recognition!Written(kind, Writes(kind, items)[s \ {Recognition!Max(s)}],
                                        items[Recognition!Max(s)])]
<1> DEFINE Good(f, n) ==
               f = [s \in SUBSET (1 .. n) |->
                       IF s = {} THEN Recognition!NewRecognizer
                       ELSE Recognition!Written(kind, f[s \ {Recognition!Max(s)}],
                                                items[Recognition!Max(s)])]
           T == {n \in Nat : \E f : Good(f, n)}
<1>1. 0 \in T
  <2> DEFINE f == [s \in SUBSET (1 .. 0) |-> Recognition!NewRecognizer]
  <2>1. \A s \in SUBSET (1 .. 0) : s = {}
      OBVIOUS
  <2>2. Good(f, 0)
      BY <2>1
  <2>3. QED
      BY <2>2
<1>2. ASSUME NEW n \in Nat, n \in T PROVE n + 1 \in T
  <2>1. PICK g : Good(g, n)
      BY <1>2, Zenon
  <2> DEFINE f == [s \in SUBSET (1 .. n + 1) |->
                      IF n + 1 \in s
                      THEN Recognition!Written(kind, g[s \ {n + 1}], items[n + 1])
                      ELSE g[s]]
  <2>2. ASSUME NEW s \in SUBSET (1 .. n + 1)
        PROVE  f[s] = IF s = {} THEN Recognition!NewRecognizer
                      ELSE Recognition!Written(kind, f[s \ {Recognition!Max(s)}],
                                               items[Recognition!Max(s)])
    <3>1. CASE n + 1 \in s
      <4>1. Recognition!Max(s) = n + 1
        <5>1. n + 1 \in Nat /\ s # {}
            BY <3>1
        <5>2. Recognition!Max(s) \in s /\ n + 1 <= Recognition!Max(s)
            BY <3>1, <5>1, LastOf, Zenon
        <5>3. Recognition!Max(s) \in 1 .. n + 1
            BY <5>2, Zenon
        <5>4. QED
            BY <5>2, <5>3
      <4>2. s \ {n + 1} \in SUBSET (1 .. n + 1) /\ n + 1 \notin s \ {n + 1}
          OBVIOUS
      <4>3. f[s \ {n + 1}] = g[s \ {n + 1}]
          BY <4>2
      <4>4. f[s] = Recognition!Written(kind, g[s \ {n + 1}], items[n + 1])
          BY <3>1
      <4> HIDE DEF f
      <4>5. QED
          BY <3>1, <4>1, <4>3, <4>4
    <3>2. CASE n + 1 \notin s /\ s # {}
      <4>1. s \in SUBSET (1 .. n)
          BY <3>2
      <4>2. Recognition!Max(s) \in s
          BY <3>2, <4>1, LastOf, Zenon
      <4> DEFINE t == s \ {Recognition!Max(s)}
      <4>3. t \in SUBSET (1 .. n + 1) /\ n + 1 \notin t
          BY <3>2, Zenon
      <4>4. f[t] = g[t] /\ f[s] = g[s]
          BY <3>2, <4>3
      <4>5. g[s] = Recognition!Written(kind, g[t], items[Recognition!Max(s)])
          BY <2>1, <3>2, <4>1, Zenon
      <4> HIDE DEF f, Good
      <4>6. QED
          BY <3>2, <4>4, <4>5, Zenon
    <3>3. CASE s = {}
      <4>1. s \in SUBSET (1 .. n) /\ n + 1 \notin s
          BY <3>3
      <4>2. g[s] = Recognition!NewRecognizer
          BY <2>1, <3>3, <4>1
      <4>3. QED
          BY <3>3, <4>1, <4>2
    <3>4. QED
        BY <3>1, <3>2, <3>3, Zenon
  <2>3. Good(f, n + 1)
    <3>1. DOMAIN f = SUBSET (1 .. n + 1)
        OBVIOUS
    <3>2. f = [s \in SUBSET (1 .. n + 1) |-> f[s]]
        OBVIOUS
    <3> HIDE DEF f
    <3>3. QED
        BY <2>2, <3>2, Zenon
  <2>4. n + 1 \in Nat
      OBVIOUS
  <2> HIDE DEF Good
  <2>5. QED
      BY <2>3, <2>4
<1> HIDE DEF T
<1>3. Len(items) \in T
    BY <1>1, <1>2, Induction, SMTT(30)
<1>4. DOMAIN items = 1 .. Len(items)
    OBVIOUS
<1>5. \E f : f = [s \in SUBSET (DOMAIN items) |->
                       IF s = {} THEN Recognition!NewRecognizer
                       ELSE LET x == Recognition!Max(s)
                            IN  Recognition!Written(kind, f[s \ {x}], items[x])]
    BY <1>3, <1>4, Zenon DEF T
<1>6. Writes(kind, items) = [s \in SUBSET (DOMAIN items) |->
                       IF s = {} THEN Recognition!NewRecognizer
                       ELSE LET x == Recognition!Max(s)
                            IN  Recognition!Written(kind, Writes(kind, items)[s \ {x}], items[x])]
    BY <1>5, Zenon DEF Writes
<1>7. QED
    BY <1>4, <1>6, Zenon

\* The frames are written one after the other.
LEMMA WriteSteps ==
    ASSUME NEW kind, NEW items \in Seq(Nat)
    PROVE  /\ Writes(kind, items)[1 .. 0] = Recognition!NewRecognizer
           /\ \A m \in 0 .. Len(items) - 1 :
                  Writes(kind, items)[1 .. m + 1] =
                      Recognition!Written(kind, Writes(kind, items)[1 .. m], items[m + 1])
<1> DEFINE f == Writes(kind, items)
<1>1. f = [s \in SUBSET (1 .. Len(items)) |->
               IF s = {} THEN Recognition!NewRecognizer
               ELSE Recognition!Written(kind, f[s \ {Recognition!Max(s)}],
                                        items[Recognition!Max(s)])]
    BY WriteUnfolds, Zenon
<1> HIDE DEF f
<1>2. f[1 .. 0] = Recognition!NewRecognizer
  <2>1. (1 .. 0) \in SUBSET (1 .. Len(items)) /\ (1 .. 0) = {}
      OBVIOUS
  <2>2. QED
      BY <1>1, <2>1
<1>3. ASSUME NEW m \in 0 .. Len(items) - 1
      PROVE  f[1 .. m + 1] = Recognition!Written(kind, f[1 .. m], items[m + 1])
  <2> DEFINE s == 1 .. m + 1
  <2>1. s \in SUBSET (1 .. Len(items)) /\ s # {} /\ m + 1 \in s /\ m + 1 \in Nat
    <3>1. Len(items) \in Nat /\ m \in Nat /\ m + 1 <= Len(items)
        OBVIOUS
    <3>2. m + 1 \in s /\ m + 1 \in Nat
        BY <3>1
    <3>3. s \in SUBSET (1 .. Len(items))
        BY <3>1
    <3>4. s # {}
        BY <3>2
    <3> HIDE DEF s
    <3>5. QED
        BY <3>2, <3>3, <3>4
  <2>2. Recognition!Max(s) = m + 1
    <3>1. Recognition!Max(s) \in s /\ m + 1 <= Recognition!Max(s)
        BY <2>1, LastOf, Zenon
    <3>2. Recognition!Max(s) \in 1 .. m + 1
        BY <3>1
    <3>3. QED
        BY <3>1, <3>2
  <2>3. s \ {m + 1} = 1 .. m
      OBVIOUS
  <2> HIDE DEF s
  <2>4. f[s] = Recognition!Written(kind, f[s \ {m + 1}], items[m + 1])
      BY <1>1, <2>1, <2>2, Zenon
  <2>5. QED
      BY <2>3, <2>4, Zenon DEF s
<1>4. QED
    BY <1>2, <1>3 DEF f
\* The words of some utterances, up to each.
Joined(seqs) ==
    CHOOSE f : f = [i \in 1 .. Len(seqs) |-> IF i = 1 THEN seqs[i] ELSE f[i - 1] \o seqs[i]]

\* FlattenSeq is the last of them.
LEMMA JoinedIs ==
    \A seqs : Recognition!FlattenSeq(seqs) =
                 IF Len(seqs) = 0 THEN seqs ELSE Joined(seqs)[Len(seqs)]
BY Zenon DEF Recognition!FlattenSeq, Joined

\* They are well defined, and sequences of words.
LEMMA JoinedUnfolds ==
    ASSUME NEW seqs \in Seq(Seq(Nat))
    PROVE  /\ Joined(seqs) = [i \in 1 .. Len(seqs) |->
                                 IF i = 1 THEN seqs[i] ELSE Joined(seqs)[i - 1] \o seqs[i]]
           /\ \A i \in 1 .. Len(seqs) : Joined(seqs)[i] \in Seq(Nat)
<1> DEFINE Good(f, n) ==
               f = [i \in 1 .. n |-> IF i = 1 THEN seqs[i] ELSE f[i - 1] \o seqs[i]]
           T == {n \in Nat : \E f : Good(f, n)}
<1>1. 0 \in T
  <2> DEFINE f == [i \in 1 .. 0 |-> 0]
  <2>1. Good(f, 0)
      OBVIOUS
  <2>2. QED
      BY <2>1, Zenon
<1>2. ASSUME NEW n \in Nat, n \in T PROVE n + 1 \in T
  <2>1. PICK g : Good(g, n)
      BY <1>2, Zenon
  <2> DEFINE last == IF n + 1 = 1 THEN seqs[n + 1] ELSE g[n] \o seqs[n + 1]
             f == [i \in 1 .. n + 1 |-> IF i = n + 1 THEN last ELSE g[i]]
  <2>2. ASSUME NEW i \in 1 .. n + 1
        PROVE  f[i] = IF i = 1 THEN seqs[i] ELSE f[i - 1] \o seqs[i]
    <3>1. CASE i = n + 1
      <4>1. f[i] = last
          BY <3>1
      <4>2. i # 1 => i - 1 \in 1 .. n + 1 /\ i - 1 # n + 1 /\ i - 1 = n
          BY <3>1
      <4>3. i # 1 => f[i - 1] = g[n]
          BY <4>2
      <4> HIDE DEF f
      <4>4. QED
          BY <3>1, <4>1, <4>3
    <3>2. CASE i # n + 1
      <4>1. i \in 1 .. n
          BY <3>2
      <4>2. f[i] = g[i]
          BY <3>2
      <4>3. i # 1 => i - 1 \in 1 .. n + 1 /\ i - 1 # n + 1
          BY <4>1
      <4>4. i # 1 => f[i - 1] = g[i - 1]
          BY <4>3
      <4>5. g[i] = IF i = 1 THEN seqs[i] ELSE g[i - 1] \o seqs[i]
          BY <2>1, <4>1, Zenon
      <4> HIDE DEF f, Good
      <4>6. QED
          BY <4>2, <4>4, <4>5
    <3>3. QED
        BY <3>1, <3>2
  <2>3. Good(f, n + 1)
    <3>1. f = [i \in 1 .. n + 1 |-> f[i]]
        OBVIOUS
    <3> HIDE DEF f
    <3>2. QED
        BY <2>2, <3>1, Zenon
  <2>4. n + 1 \in Nat
      OBVIOUS
  <2> HIDE DEF Good
  <2>5. QED
      BY <2>3, <2>4
<1>3. Len(seqs) \in T
  <2> HIDE DEF T
  <2>1. QED
      BY <1>1, <1>2, Induction, SMTT(30)
<1>4. \E f : f = [i \in 1 .. Len(seqs) |-> IF i = 1 THEN seqs[i] ELSE f[i - 1] \o seqs[i]]
    BY <1>3, Zenon
<1>5. Joined(seqs) = [i \in 1 .. Len(seqs) |->
                         IF i = 1 THEN seqs[i] ELSE Joined(seqs)[i - 1] \o seqs[i]]
    BY <1>4, Zenon DEF Joined
<1>6. \A i \in 1 .. Len(seqs) : Joined(seqs)[i] \in Seq(Nat)
  <2> DEFINE U == {n \in Nat : n \in 1 .. Len(seqs) => Joined(seqs)[n] \in Seq(Nat)}
  <2>1. 0 \in U
      OBVIOUS
  <2>2. ASSUME NEW n \in Nat, n \in U PROVE n + 1 \in U
    <3> SUFFICES ASSUME n + 1 \in 1 .. Len(seqs) PROVE Joined(seqs)[n + 1] \in Seq(Nat)
        OBVIOUS
    <3>1. seqs[n + 1] \in Seq(Nat)
        OBVIOUS
    <3>2. CASE n = 0
        BY <1>5, <3>1, <3>2
    <3>3. CASE n # 0
      <4>1. n \in 1 .. Len(seqs) /\ n + 1 # 1 /\ (n + 1) - 1 = n
          BY <3>3
      <4>2. Joined(seqs)[n] \in Seq(Nat)
          BY <2>2, <4>1
      <4>3. Joined(seqs)[n + 1] = Joined(seqs)[n] \o seqs[n + 1]
          BY <1>5, <4>1, Zenon
      <4>4. QED
          BY <3>1, <4>2, <4>3, ConcatProperties
    <3>4. QED
        BY <3>2, <3>3
  <2> HIDE DEF U
  <2>3. \A n \in Nat : n \in U
      BY <2>1, <2>2, Induction, Zenon
  <2>4. QED
      BY <2>3 DEF U
<1>7. QED
    BY <1>5, <1>6, Zenon

\* Words said one after the other.
LEMMA WordsAssociate == \A s, t, u \in Seq(Nat) : (s \o t) \o u = s \o (t \o u)
BY ConcatAssociative, SMTT(30)

\* FlattenSeq is a sequence, of nothing when there is nothing.
LEMMA FlattenType ==
    ASSUME NEW seqs \in Seq(Seq(Nat))
    PROVE  /\ Recognition!FlattenSeq(seqs) \in Seq(Nat)
           /\ seqs = <<>> => Recognition!FlattenSeq(seqs) = <<>>
<1>1. CASE seqs = <<>>
  <2>1. Recognition!FlattenSeq(seqs) = <<>>
      BY <1>1, JoinedIs
  <2>2. QED
      BY <2>1
<1>2. CASE seqs # <<>>
  <2>1. Len(seqs) \in 1 .. Len(seqs) /\ Len(seqs) # 0
      BY <1>2
  <2>2. QED
      BY <1>2, <2>1, JoinedIs, JoinedUnfolds, Zenon
<1>3. QED
    BY <1>1, <1>2

\* One more utterance is appended.
LEMMA FlattenAppend ==
    ASSUME NEW seqs \in Seq(Seq(Nat)), NEW s \in Seq(Nat)
    PROVE  Recognition!FlattenSeq(Append(seqs, s)) = Recognition!FlattenSeq(seqs) \o s
<1> DEFINE more == Append(seqs, s)
           f == Joined(seqs)
           g == Joined(more)
           len == Len(seqs)
<1>1. /\ more \in Seq(Seq(Nat)) /\ Len(more) = len + 1 /\ len \in Nat
      /\ \A i \in 1 .. len : more[i] = seqs[i]
      /\ more[len + 1] = s
    BY AppendProperties
<1>2. /\ \A i \in 1 .. len : f[i] = IF i = 1 THEN seqs[i] ELSE f[i - 1] \o seqs[i]
      /\ f = Joined(seqs)
    BY JoinedUnfolds, Zenon
<1>3. \A i \in 1 .. len + 1 : g[i] = IF i = 1 THEN more[i] ELSE g[i - 1] \o more[i]
    BY <1>1, JoinedUnfolds, Zenon
<1> HIDE DEF more, f, len
<1>4. Recognition!FlattenSeq(more) = g[len + 1]
  <2>1. Len(more) # 0
      BY <1>1
  <2>2. QED
      BY <1>1, <2>1, JoinedIs
<1> HIDE DEF g
<1>5. CASE len = 0
  <2>1. seqs = <<>>
      BY <1>5 DEF len
  <2>2. g[1] = s
      BY <1>1, <1>3, <1>5
  <2>3. <<>> \o s = s
      BY ConcatEmptySeq
  <2>4. Recognition!FlattenSeq(seqs) = <<>>
      BY <2>1, FlattenType, Zenon
  <2>5. Recognition!FlattenSeq(more) = s
      BY <1>4, <1>5, <2>2
  <2>6. QED
      BY <2>3, <2>4, <2>5 DEF more
<1>6. CASE len # 0
  <2> DEFINE T == {n \in Nat : n \in 1 .. len => f[n] = g[n]}
  <2>1. 0 \in T
      OBVIOUS
  <2>2. ASSUME NEW n \in Nat, n \in T PROVE n + 1 \in T
    <3> SUFFICES ASSUME n + 1 \in 1 .. len PROVE f[n + 1] = g[n + 1]
        OBVIOUS
    <3>1. n + 1 \in 1 .. len + 1 /\ more[n + 1] = seqs[n + 1] /\ (n + 1) - 1 = n
        BY <1>1
    <3>2. CASE n = 0
        BY <1>2, <1>3, <3>1, <3>2
    <3>3. CASE n # 0
      <4>1. n \in 1 .. len /\ n + 1 # 1
          BY <1>1, <3>3
      <4>2. f[n] = g[n]
          BY <2>2, <4>1
      <4>3. f[n + 1] = f[n] \o seqs[n + 1]
          BY <1>2, <3>1, <4>1, Zenon
      <4>4. g[n + 1] = g[n] \o more[n + 1]
          BY <1>3, <3>1, <4>1, Zenon
      <4>5. QED
          BY <3>1, <4>2, <4>3, <4>4
    <3>4. QED
        BY <3>2, <3>3
  <2>3. len \in T
    <3> HIDE DEF T
    <3>1. QED
        BY <1>1, <2>1, <2>2, Induction, Zenon
  <2>4. f[len] = g[len]
      BY <1>1, <1>6, <2>3
  <2>5. g[len + 1] = g[len] \o s
    <3>1. len + 1 \in 1 .. len + 1 /\ len + 1 # 1 /\ (len + 1) - 1 = len
        BY <1>1, <1>6
    <3>2. QED
        BY <1>1, <1>3, <3>1, Zenon
  <2>6. Recognition!FlattenSeq(seqs) = f[len]
      BY <1>2, <1>6, JoinedIs DEF len, f
  <2>7. QED
      BY <1>4, <2>4, <2>5, <2>6 DEF more
<1>7. QED
    BY <1>5, <1>6

\* The first utterance comes first.
LEMMA FlattenHead ==
    ASSUME NEW seqs \in Seq(Seq(Nat)), seqs # <<>>
    PROVE  Recognition!FlattenSeq(seqs) = Head(seqs) \o Recognition!FlattenSeq(Tail(seqs))
<1> DEFINE rest == Tail(seqs)
           f == Joined(seqs)
           g == Joined(rest)
           len == Len(rest)
           first == Head(seqs)
<1>1. /\ rest \in Seq(Seq(Nat)) /\ Len(seqs) = len + 1 /\ len \in Nat
      /\ \A i \in 1 .. len : rest[i] = seqs[i + 1] /\ rest[i] \in Seq(Nat)
      /\ first \in Seq(Nat) /\ first = seqs[1]
    BY HeadTailProperties
<1>2. \A i \in 1 .. len + 1 : f[i] = IF i = 1 THEN seqs[i] ELSE f[i - 1] \o seqs[i]
    BY <1>1, JoinedUnfolds, Zenon
<1>3. \A i \in 1 .. len : /\ g[i] = IF i = 1 THEN rest[i] ELSE g[i - 1] \o rest[i]
                          /\ g[i] \in Seq(Nat)
    BY <1>1, JoinedUnfolds, Zenon
<1>4. Recognition!FlattenSeq(seqs) = f[len + 1]
    BY <1>1, JoinedIs
<1>5. f[1] = first
    BY <1>1, <1>2
<1>6. len # 0 => Recognition!FlattenSeq(rest) = g[len]
    BY <1>1, JoinedIs, Zenon
<1>7. len = 0 => Recognition!FlattenSeq(rest) = <<>>
  <2> HIDE DEF rest
  <2>1. len = 0 => rest = <<>>
      BY <1>1, EmptySeq, Zenon
  <2>2. QED
      BY <1>1, <2>1, FlattenType, Zenon
<1> HIDE DEF rest, f, g, len, first
<1>8. CASE len = 0
  <2>1. first \o <<>> = first
      BY <1>1, ConcatEmptySeq
  <2>2. Recognition!FlattenSeq(seqs) = first
      BY <1>4, <1>5, <1>8
  <2>3. QED
      BY <1>7, <1>8, <2>1, <2>2 DEF rest, first
<1>9. CASE len # 0
  <2> DEFINE T == {n \in Nat : n \in 1 .. len => f[n + 1] = first \o g[n]}
  <2>1. 0 \in T
      OBVIOUS
  <2>2. ASSUME NEW n \in Nat, n \in T PROVE n + 1 \in T
    <3> SUFFICES ASSUME n + 1 \in 1 .. len PROVE f[n + 1 + 1] = first \o g[n + 1]
        OBVIOUS
    <3>1. /\ n + 1 + 1 \in 1 .. len + 1 /\ n + 1 + 1 # 1 /\ (n + 1 + 1) - 1 = n + 1
          /\ rest[n + 1] = seqs[n + 1 + 1] /\ (n + 1) - 1 = n /\ rest[n + 1] \in Seq(Nat)
        BY <1>1
    <3>2. f[n + 1 + 1] = f[n + 1] \o rest[n + 1]
        BY <1>2, <3>1, Zenon
    <3>3. CASE n = 0
      <4>1. f[n + 1] = first /\ g[n + 1] = rest[n + 1]
          BY <1>3, <1>5, <3>3
      <4>2. QED
          BY <3>2, <4>1
    <3>4. CASE n # 0
      <4>1. n \in 1 .. len /\ n + 1 # 1
          BY <1>1, <3>4
      <4>2. f[n + 1] = first \o g[n]
          BY <2>2, <4>1
      <4>3. g[n + 1] = g[n] \o rest[n + 1]
          BY <1>3, <3>1, <4>1, Zenon
      <4>4. (first \o g[n]) \o rest[n + 1] = first \o (g[n] \o rest[n + 1])
        <5>1. g[n] \in Seq(Nat) /\ first \in Seq(Nat) /\ rest[n + 1] \in Seq(Nat)
            BY <1>1, <1>3, <3>1, <4>1
        <5>2. QED
            BY <5>1, WordsAssociate, Zenon
      <4>5. QED
          BY <3>2, <4>2, <4>3, <4>4
    <3>5. QED
        BY <3>3, <3>4, Zenon
  <2>3. len \in T
    <3> HIDE DEF T
    <3>1. QED
        BY <1>1, <2>1, <2>2, Induction, Zenon
  <2>4. f[len + 1] = first \o g[len]
    <3>1. len \in 1 .. len
        BY <1>1, <1>9
    <3>2. QED
        BY <2>3, <3>1
  <2>5. QED
      BY <1>4, <1>6, <1>9, <2>4, Zenon DEF rest, first
<1>10. QED
    BY <1>8, <1>9

-------------------------------------------------------------------------------
(* The recognition of a call.  Until the first final all that was said is     *)
(* kept and a recognizer that takes over is given it; what was understood is   *)
(* of the recognizer in use.                                                  *)

\* The frames said so far.
UpTo(n) == [i \in 1 .. n |-> i]

\* What a recognizer has still to hear, in order, and a bound of its finals to come.
Held(r) == Recognition!FlattenSeq(r.queue) \o r.audio \o r.pending

Room(r) == Len(r.queue) + Len(r.audio) + Len(r.pending)

\* The utterances that were understood.
FramesOf(finals) == [i \in 1 .. Len(finals) |-> finals[i].frames]

Recognizers ==
    [opened : BOOLEAN, pending : Seq(Nat), audio : Seq(Nat), queue : Seq(Seq(Nat)),
     lost : BOOLEAN]

\* Only the vendor's audio waits for a socket, and only the local recognizer queues.
HoldsItsOwn(kind, r) ==
    /\ kind = "local" \/ r.opened => r.pending = <<>>
    /\ kind = "sarvam" => r.queue = <<>>

\* One more item.
LEMMA AppendSteps ==
    /\ \A n \in Nat : UpTo(n) \in Seq(Nat) /\ Len(UpTo(n)) = n
                      /\ Append(UpTo(n), n + 1) = UpTo(n + 1)
    /\ UpTo(0) = <<>>
<1>1. \A n \in Nat : UpTo(n) \in Seq(Nat) /\ Len(UpTo(n)) = n
    BY DEF UpTo
<1>2. ASSUME NEW n \in Nat PROVE Append(UpTo(n), n + 1) = UpTo(n + 1)
    BY DEF UpTo
<1>3. UpTo(0) = <<>>
    BY DEF UpTo
<1>4. QED
    BY <1>1, <1>2, <1>3, Zenon

\* Sums of three.
LEMMA Sums ==
    \A a, b \in Nat :
        /\ a + (b + 1) + 0 = (a + b + 0) + 1
        /\ \A c \in Nat : /\ a + b + c \in Nat
                          /\ a + b + (c + 1) = (a + b + c) + 1
                          /\ b >= 1 => (a + 1) + 0 + c <= a + b + c
OBVIOUS

\* What is held of a recognizer is words.
LEMMA HeldType ==
    ASSUME NEW r \in Recognizers
    PROVE  /\ Recognition!FlattenSeq(r.queue) \in Seq(Nat)
           /\ Recognition!FlattenSeq(r.queue) \o r.audio \in Seq(Nat)
           /\ Held(r) \in Seq(Nat)
           /\ Room(r) \in Nat
           /\ Len(r.queue) \in Nat /\ Len(r.audio) \in Nat /\ Len(r.pending) \in Nat
           /\ r.audio \in Seq(Nat) /\ r.pending \in Seq(Nat) /\ r.queue \in Seq(Seq(Nat))
           /\ r.lost \in BOOLEAN /\ r.opened \in BOOLEAN
<1>1. /\ r.audio \in Seq(Nat) /\ r.pending \in Seq(Nat) /\ r.queue \in Seq(Seq(Nat))
      /\ r.lost \in BOOLEAN /\ r.opened \in BOOLEAN
    BY DEF Recognizers
<1>2. Recognition!FlattenSeq(r.queue) \in Seq(Nat)
    BY <1>1, FlattenType
<1>3. Recognition!FlattenSeq(r.queue) \o r.audio \in Seq(Nat)
    BY <1>1, <1>2, ConcatProperties
<1>4. Held(r) \in Seq(Nat)
    BY <1>1, <1>3, ConcatProperties DEF Held
<1>5. Len(r.queue) \in Nat /\ Len(r.audio) \in Nat /\ Len(r.pending) \in Nat
    BY <1>1, LenProperties
<1>6. Room(r) \in Nat
    BY <1>5, Sums, Zenon DEF Room
<1>7. QED
    BY <1>1, <1>2, <1>3, <1>4, <1>5, <1>6

\* A write adds the frame behind what is held, or something is lost.
LEMMA WrittenHolds ==
    ASSUME NEW r \in Recognizers, NEW kind \in {"sarvam", "local"}, NEW frame \in Nat,
           HoldsItsOwn(kind, r)
    PROVE  /\ Recognition!Written(kind, r, frame) \in Recognizers
           /\ HoldsItsOwn(kind, Recognition!Written(kind, r, frame))
           /\ Room(Recognition!Written(kind, r, frame)) <= Room(r) + 1
           /\ ~Recognition!Written(kind, r, frame).lost =>
                  /\ ~r.lost
                  /\ Held(Recognition!Written(kind, r, frame)) = Append(Held(r), frame)
<1> DEFINE w == Recognition!Written(kind, r, frame)
           words == Recognition!FlattenSeq(r.queue)
<1>1. /\ words \in Seq(Nat) /\ words \o r.audio \in Seq(Nat)
      /\ r.audio \in Seq(Nat) /\ r.pending \in Seq(Nat) /\ r.queue \in Seq(Seq(Nat))
      /\ Len(r.queue) \in Nat /\ Len(r.audio) \in Nat /\ Len(r.pending) \in Nat
      /\ r.lost \in BOOLEAN /\ Room(r) \in Nat
    BY HeldType
<1>2. CASE kind = "local" \/ r.opened
  <2> DEFINE more == Append(r.audio, frame)
  <2>1. more \in Seq(Nat) /\ Len(more) = Len(r.audio) + 1
      BY <1>1, AppendProperties
  <2>2. w = [r EXCEPT !.audio = more]
      BY <1>2 DEF Recognition!Written
  <2>3. r.pending = <<>>
      BY <1>2 DEF HoldsItsOwn
  <2>4. words \o more = Append(words \o r.audio, frame)
    <3>1. more = r.audio \o <<frame>>
        BY <1>1, AppendIsConcat, Zenon
    <3>2. <<frame>> \in Seq(Nat)
        OBVIOUS
    <3>3. Append(words \o r.audio, frame) = (words \o r.audio) \o <<frame>>
        BY <1>1, AppendIsConcat, Zenon
    <3> HIDE DEF more, words
    <3>4. QED
        BY <1>1, <3>1, <3>2, <3>3, WordsAssociate, Zenon
  <2> HIDE DEF more, w
  <2>5. w \in Recognizers
      BY <2>1, <2>2, Zenon DEF Recognizers
  <2>6. /\ w.audio = more /\ w.queue = r.queue /\ w.pending = <<>> /\ w.lost = r.lost
        /\ w.opened = r.opened
      BY <2>2, <2>3 DEF Recognizers
  <2>7. HoldsItsOwn(kind, w)
      BY <2>6 DEF HoldsItsOwn
  <2>8. Room(w) <= Room(r) + 1
    <3>1. Len(w.queue) = Len(r.queue) /\ Len(w.audio) = Len(r.audio) + 1 /\ Len(w.pending) = 0
          /\ Len(r.pending) = 0
        BY <2>1, <2>3, <2>6, EmptySeq
    <3>2. /\ Room(w) = Len(r.queue) + (Len(r.audio) + 1) + 0
          /\ Room(r) = Len(r.queue) + Len(r.audio) + 0
        BY <3>1, Zenon DEF Room
    <3>3. Room(w) = Room(r) + 1
      <4>1. Len(r.queue) + (Len(r.audio) + 1) + 0 = (Len(r.queue) + Len(r.audio) + 0) + 1
          BY <1>1, Sums, Zenon
      <4>2. QED
          BY <3>2, <4>1, Zenon
    <3>4. QED
        BY <1>1, <3>3
  <2>9. Held(w) = Append(Held(r), frame)
    <3>1. words \o more \in Seq(Nat)
        BY <1>1, <2>1, ConcatProperties
    <3>2. Held(w) = words \o more
        BY <2>6, <3>1, ConcatEmptySeq DEF Held, words
    <3>3. Held(r) = words \o r.audio
        BY <1>1, <2>3, ConcatEmptySeq DEF Held
    <3>4. QED
        BY <2>4, <3>2, <3>3
  <2>10. QED
      BY <2>5, <2>6, <2>7, <2>8, <2>9 DEF w
<1>3. CASE ~(kind = "local" \/ r.opened) /\ Len(r.pending) < MaxPending
  <2> DEFINE more == Append(r.pending, frame)
  <2>1. more \in Seq(Nat) /\ Len(more) = Len(r.pending) + 1
      BY <1>1, AppendProperties
  <2>2. w = [r EXCEPT !.pending = more]
      BY <1>3 DEF Recognition!Written, Recognition!Enqueued
  <2>3. (words \o r.audio) \o more = Append((words \o r.audio) \o r.pending, frame)
    <3>1. more = r.pending \o <<frame>>
        BY <1>1, AppendIsConcat, Zenon
    <3>2. <<frame>> \in Seq(Nat)
        OBVIOUS
    <3> HIDE DEF more
    <3>3. (words \o r.audio) \o more = ((words \o r.audio) \o r.pending) \o <<frame>>
        BY <1>1, <3>1, <3>2, WordsAssociate, Zenon
    <3>4. (words \o r.audio) \o r.pending \in Seq(Nat)
        BY <1>1, ConcatProperties
    <3>5. QED
        BY <3>3, <3>4, AppendIsConcat, Zenon
  <2> HIDE DEF more, w
  <2>4. w \in Recognizers
      BY <2>1, <2>2, Zenon DEF Recognizers
  <2>5. /\ w.audio = r.audio /\ w.queue = r.queue /\ w.pending = more /\ w.lost = r.lost
        /\ w.opened = r.opened
      BY <2>2 DEF Recognizers
  <2>6. HoldsItsOwn(kind, w)
      BY <1>3, <2>5 DEF HoldsItsOwn
  <2>7. Room(w) <= Room(r) + 1
    <3>1. Len(w.queue) = Len(r.queue) /\ Len(w.audio) = Len(r.audio)
          /\ Len(w.pending) = Len(r.pending) + 1
        BY <2>1, <2>5
    <3>2. /\ Room(w) = Len(r.queue) + Len(r.audio) + (Len(r.pending) + 1)
          /\ Room(r) = Len(r.queue) + Len(r.audio) + Len(r.pending)
        BY <3>1, Zenon DEF Room
    <3>3. Room(w) = Room(r) + 1
      <4>1. Len(r.queue) + Len(r.audio) + (Len(r.pending) + 1)
                = (Len(r.queue) + Len(r.audio) + Len(r.pending)) + 1
          BY <1>1, Sums, ZenonT(60)
      <4>2. QED
          BY <3>2, <4>1, Zenon
    <3>4. QED
        BY <1>1, <3>3
  <2>8. Held(w) = Append(Held(r), frame)
      BY <2>3, <2>5, Zenon DEF Held
  <2>9. QED
      BY <2>4, <2>5, <2>6, <2>7, <2>8 DEF w
<1>4. CASE ~(kind = "local" \/ r.opened) /\ ~(Len(r.pending) < MaxPending)
  <2> DEFINE more == Append(Tail(r.pending), frame)
  <2>1. w = [r EXCEPT !.pending = more, !.lost = TRUE]
      BY <1>4 DEF Recognition!Written, Recognition!Enqueued
  <2>2. r.pending # <<>>
      BY <1>4, ProviderBounds
  <2>3. Tail(r.pending) \in Seq(Nat) /\ Len(Tail(r.pending)) = Len(r.pending) - 1
      BY <1>1, <2>2, HeadTailProperties
  <2>4. more \in Seq(Nat) /\ Len(more) = Len(r.pending)
      BY <1>1, <2>3, AppendProperties
  <2> HIDE DEF more, w
  <2>5. w \in Recognizers
      BY <2>1, <2>4, Zenon DEF Recognizers
  <2>6. /\ w.audio = r.audio /\ w.queue = r.queue /\ w.pending = more /\ w.lost = TRUE
        /\ w.opened = r.opened
      BY <2>1 DEF Recognizers
  <2>7. HoldsItsOwn(kind, w)
      BY <1>4, <2>6 DEF HoldsItsOwn
  <2>8. Room(w) <= Room(r) + 1
    <3>1. Len(w.queue) = Len(r.queue) /\ Len(w.audio) = Len(r.audio)
          /\ Len(w.pending) = Len(r.pending)
        BY <2>4, <2>6
    <3>2. Room(w) = Room(r)
        BY <3>1, Zenon DEF Room
    <3>3. QED
        BY <1>1, <3>2
  <2>9. QED
      BY <2>5, <2>6, <2>7, <2>8 DEF w
<1>5. QED
    BY <1>2, <1>3, <1>4

\* The end of an utterance moves what is held, and nothing else.
LEMMA FinalizedHolds ==
    ASSUME NEW r \in Recognizers, NEW kind \in {"sarvam", "local"}, HoldsItsOwn(kind, r)
    PROVE  /\ Recognition!Finalized(kind, r) \in Recognizers
           /\ HoldsItsOwn(kind, Recognition!Finalized(kind, r))
           /\ Room(Recognition!Finalized(kind, r)) <= Room(r)
           /\ Recognition!Finalized(kind, r).lost = r.lost
           /\ Held(Recognition!Finalized(kind, r)) = Held(r)
<1> DEFINE w == Recognition!Finalized(kind, r)
           words == Recognition!FlattenSeq(r.queue)
           queue == Append(r.queue, r.audio)
<1>1. /\ words \in Seq(Nat) /\ words \o r.audio \in Seq(Nat)
      /\ r.audio \in Seq(Nat) /\ r.pending \in Seq(Nat) /\ r.queue \in Seq(Seq(Nat))
      /\ Len(r.queue) \in Nat /\ Len(r.audio) \in Nat /\ Len(r.pending) \in Nat
    BY HeldType
<1>2. CASE kind = "local" /\ r.audio # <<>>
  <2>1. queue \in Seq(Seq(Nat)) /\ Len(queue) = Len(r.queue) + 1
      BY <1>1, AppendProperties
  <2>2. Recognition!FlattenSeq(queue) = words \o r.audio
      BY <1>1, FlattenAppend, Zenon
  <2> DEFINE none == <<>>
  <2>3. w = [r EXCEPT !.queue = queue, !.audio = none]
      BY <1>2 DEF Recognition!Finalized
  <2>4. none \in Seq(Nat) /\ Len(none) = 0 /\ none = <<>>
      OBVIOUS
  <2> HIDE DEF queue, w, words, none
  <2>5. w \in Recognizers
      BY <2>1, <2>3, <2>4, Zenon DEF Recognizers
  <2>6. /\ w.audio = none /\ w.queue = queue /\ w.pending = r.pending /\ w.lost = r.lost
        /\ w.opened = r.opened
      BY <2>3 DEF Recognizers
  <2>7. HoldsItsOwn(kind, w)
      BY <1>2, <2>6 DEF HoldsItsOwn
  <2>8. Room(w) <= Room(r)
    <3>1. Len(r.audio) >= 1
        BY <1>1, <1>2
    <3>2. Len(w.queue) = Len(r.queue) + 1 /\ Len(w.audio) = 0 /\ Len(w.pending) = Len(r.pending)
        BY <2>1, <2>4, <2>6
    <3>3. QED
        BY <1>1, <3>1, <3>2, Sums, Zenon DEF Room
  <2>9. Held(w) = Held(r)
    <3>1. (words \o r.audio) \o <<>> = words \o r.audio
        BY <1>1, ConcatEmptySeq
    <3>2. QED
        BY <2>2, <2>4, <2>6, <3>1, Zenon DEF Held, words
  <2>10. QED
      BY <2>5, <2>6, <2>7, <2>8, <2>9 DEF w
<1>3. CASE ~(kind = "local" /\ r.audio # <<>>)
  <2>1. w = r
      BY <1>3 DEF Recognition!Finalized
  <2>2. Room(r) <= Room(r)
      BY <1>1, HeldType
  <2>3. QED
      BY <2>1, <2>2, Zenon
<1>4. QED
    BY <1>2, <1>3

\* A recognizer that is given all that is kept holds it, or loses some of it.
LEMMA ReplayedHolds ==
    ASSUME NEW n \in Nat, ear.buffered = UpTo(n), NEW kind \in {"sarvam", "local"}
    PROVE  /\ Recognition!Replayed(kind) \in Recognizers
           /\ HoldsItsOwn(kind, Recognition!Replayed(kind))
           /\ Room(Recognition!Replayed(kind)) <= n
           /\ ~Recognition!Replayed(kind).lost => Held(Recognition!Replayed(kind)) = UpTo(n)
<1> DEFINE r(m) == Writes(kind, UpTo(n))[1 .. m]
           Good(m) == /\ r(m) \in Recognizers /\ HoldsItsOwn(kind, r(m)) /\ Room(r(m)) <= m
                      /\ ~r(m).lost => Held(r(m)) = UpTo(m)
           T == {m \in Nat : m <= n => Good(m)}
<1>1. UpTo(n) \in Seq(Nat) /\ Len(UpTo(n)) = n
    BY AppendSteps, Zenon
<1>2. /\ r(0) = Recognition!NewRecognizer
      /\ \A m \in 0 .. n - 1 : r(m + 1) = Recognition!Written(kind, r(m), UpTo(n)[m + 1])
    BY <1>1, WriteSteps, Zenon
<1>3. Good(0)
  <2> DEFINE new == Recognition!NewRecognizer
  <2>1. /\ new \in Recognizers
        /\ new.queue = <<>> /\ new.audio = <<>> /\ new.pending = <<>>
      BY DEF Recognition!NewRecognizer, Recognizers
  <2> HIDE DEF new
  <2>2. HoldsItsOwn(kind, new) /\ Room(new) <= 0
      BY <2>1 DEF HoldsItsOwn, Room
  <2>3. Held(new) = <<>>
    <3>1. <<>> \in Seq(Seq(Nat)) /\ <<>> \in Seq(Nat)
        OBVIOUS
    <3>2. Recognition!FlattenSeq(<<>>) = <<>>
        BY <3>1, FlattenType, Zenon
    <3>3. <<>> \o <<>> = <<>>
        BY <3>1, ConcatEmptySeq
    <3>4. QED
        BY <2>1, <3>2, <3>3 DEF Held
  <2>4. QED
      BY <1>2, <2>1, <2>2, <2>3, AppendSteps DEF new
<1> HIDE DEF r
<1>4. 0 \in T
    BY <1>3
<1>5. ASSUME NEW m \in Nat, m \in T PROVE m + 1 \in T
  <2> SUFFICES ASSUME m + 1 <= n PROVE Good(m + 1)
      OBVIOUS
  <2>1. Good(m) /\ m \in 0 .. n - 1
      BY <1>5
  <2>2. UpTo(n)[m + 1] = m + 1
      BY DEF UpTo
  <2>3. r(m + 1) = Recognition!Written(kind, r(m), m + 1)
      BY <1>2, <2>1, <2>2
  <2>4. m + 1 \in Nat
      OBVIOUS
  <2> HIDE DEF Good
  <2>5. /\ r(m) \in Recognizers /\ HoldsItsOwn(kind, r(m)) /\ Room(r(m)) <= m
        /\ ~r(m).lost => Held(r(m)) = UpTo(m)
      BY <2>1 DEF Good
  <2>6. /\ r(m + 1) \in Recognizers /\ HoldsItsOwn(kind, r(m + 1))
        /\ Room(r(m + 1)) <= Room(r(m)) + 1
        /\ ~r(m + 1).lost => ~r(m).lost /\ Held(r(m + 1)) = Append(Held(r(m)), m + 1)
    <3> DEFINE w == Recognition!Written(kind, r(m), m + 1)
    <3>1. /\ w \in Recognizers /\ HoldsItsOwn(kind, w) /\ Room(w) <= Room(r(m)) + 1
          /\ ~w.lost => ~r(m).lost /\ Held(w) = Append(Held(r(m)), m + 1)
        BY <2>5, <2>4, WrittenHolds, Zenon
    <3>2. r(m + 1) = w
        BY <2>3
    <3> HIDE DEF w
    <3>3. QED
        BY <3>1, <3>2, Zenon
  <2>7. Room(r(m)) \in Nat /\ Room(r(m + 1)) \in Nat
      BY <2>5, <2>6, HeldType
  <2>8. Append(UpTo(m), m + 1) = UpTo(m + 1)
      BY AppendSteps, Zenon
  <2>9. Room(r(m + 1)) <= m + 1
      BY <2>5, <2>6, <2>7
  <2>10. QED
      BY <2>5, <2>6, <2>8, <2>9, Zenon DEF Good
<1> HIDE DEF T
<1>6. n \in T
    BY <1>4, <1>5, Induction
<1>7. Good(n)
    BY <1>6 DEF T
<1> HIDE DEF Good
<1>8. Filled(kind) = r(n)
  <2>1. DOMAIN UpTo(n) = 1 .. n
      BY DEF UpTo
  <2>2. QED
      BY <2>1 DEF Filled, r
<1>9. CASE ear.pendingFinalize
  <2>1. Recognition!Replayed(kind) = Recognition!Finalized(kind, r(n))
      BY <1>8, <1>9, ReplayedIs
  <2>2. r(n) \in Recognizers /\ HoldsItsOwn(kind, r(n)) /\ Room(r(n)) <= n
      BY <1>7 DEF Good
  <2>3. ~r(n).lost => Held(r(n)) = UpTo(n)
      BY <1>7 DEF Good
  <2>4. /\ Recognition!Finalized(kind, r(n)) \in Recognizers
        /\ HoldsItsOwn(kind, Recognition!Finalized(kind, r(n)))
        /\ Room(Recognition!Finalized(kind, r(n))) <= Room(r(n))
        /\ Recognition!Finalized(kind, r(n)).lost = r(n).lost
        /\ Held(Recognition!Finalized(kind, r(n))) = Held(r(n))
      BY <2>2, FinalizedHolds
  <2>5. Room(r(n)) \in Nat /\ Room(Recognition!Finalized(kind, r(n))) \in Nat
      BY <2>2, <2>4, HeldType
  <2>6. Room(Recognition!Finalized(kind, r(n))) <= n
      BY <2>2, <2>4, <2>5
  <2>7. QED
      BY <2>1, <2>3, <2>4, <2>6, Zenon
<1>10. CASE ~ear.pendingFinalize
    BY <1>7, <1>8, <1>10, ReplayedIs DEF Good
<1>11. QED
    BY <1>9, <1>10

HearTyped ==
    /\ ear \in [chain : SpeechChains, index : 0 .. 2, closed : BOOLEAN, finalized : BOOLEAN,
                overflow : BOOLEAN, buffered : Seq(Nat), pendingFinalize : BOOLEAN]
    /\ recognizer \in Recognizers
    /\ caller \in [frames : 0 .. MaxFrames, ends : Nat]
    /\ understood \in [closed : BOOLEAN, finals : Seq([by : {1, 2}, frames : Seq(Nat)])]

\* What was understood was by the recognizer in use, which is not left after a final.
OneEar ==
    /\ understood.closed = ear.closed
    /\ understood.finals # <<>> => ear.finalized
    /\ \A i \in 1 .. Len(understood.finals) : understood.finals[i].by = ear.index
    /\ ear.index = 0 => ~ear.finalized /\ ~ear.overflow

\* Until a final, all that was said is kept, unless that is too much.
AllIsKept ==
    ~ear.finalized /\ ~ear.overflow /\ ~ear.closed => ear.buffered = UpTo(caller.frames)

\* No more finals can follow than frames were said.
HeardInTime ==
    ~ear.closed => Len(understood.finals) + Room(recognizer) <= caller.frames

HoldsRightly == ear.index > 0 => HoldsItsOwn(Recognition!Kind, recognizer)

HearInv == HearTyped /\ OneEar /\ AllIsKept /\ HeardInTime /\ HoldsRightly /\ AllIsHeard

\* What the session may be told.
TellsOfOne == Recognition!Listened!Next \/ UNCHANGED understood

\* The parts of the state are what the types say.
LEMMA HearFields ==
    ASSUME HearTyped
    PROVE  /\ ear.chain \in SpeechChains /\ ear.index \in 0 .. 2 /\ ear.closed \in BOOLEAN
           /\ ear.finalized \in BOOLEAN /\ ear.overflow \in BOOLEAN
           /\ ear.buffered \in Seq(Nat) /\ ear.pendingFinalize \in BOOLEAN
           /\ recognizer \in Recognizers
           /\ caller.frames \in 0 .. MaxFrames /\ caller.frames \in Nat /\ caller.ends \in Nat
           /\ understood.closed \in BOOLEAN
           /\ understood.finals \in Seq([by : {1, 2}, frames : Seq(Nat)])
           /\ Len(understood.finals) \in Nat
           /\ \A i \in {1, 2} : Recognition!KindAt(i) \in {"sarvam", "local"}
           /\ Len(ear.chain) = 2
<1>1. /\ ear.chain \in SpeechChains /\ ear.index \in 0 .. 2 /\ ear.closed \in BOOLEAN
      /\ ear.finalized \in BOOLEAN /\ ear.overflow \in BOOLEAN
      /\ ear.buffered \in Seq(Nat) /\ ear.pendingFinalize \in BOOLEAN
      /\ recognizer \in Recognizers
      /\ caller.frames \in 0 .. MaxFrames /\ caller.ends \in Nat
      /\ understood.closed \in BOOLEAN
      /\ understood.finals \in Seq([by : {1, 2}, frames : Seq(Nat)])
    BY DEF HearTyped
<1>2. caller.frames \in Nat
    BY <1>1, ProviderBounds
<1>3. Len(understood.finals) \in Nat
    BY <1>1, LenProperties
<1>4. Len(ear.chain) = 2 /\ \A i \in {1, 2} : ear.chain[i] \in {"sarvam", "local"}
    BY <1>1 DEF SpeechChains
<1>5. QED
    BY <1>1, <1>2, <1>3, <1>4 DEF Recognition!KindAt

\* The utterances understood are words.
LEMMA FramesType ==
    ASSUME NEW finals \in Seq([by : {1, 2}, frames : Seq(Nat)])
    PROVE  /\ FramesOf(finals) \in Seq(Seq(Nat))
           /\ Recognition!FlattenSeq(FramesOf(finals)) \in Seq(Nat)
           /\ finals = <<>> => Recognition!FlattenSeq(FramesOf(finals)) = <<>>
<1> DEFINE Utterance == [by : {1, 2}, frames : Seq(Nat)]
<1>1. \A u \in Utterance : u.frames \in Seq(Nat)
    OBVIOUS
<1>2. Len(finals) \in Nat /\ \A i \in 1 .. Len(finals) : finals[i] \in Utterance
  <2> HIDE DEF Utterance
  <2>1. finals \in Seq(Utterance)
      BY DEF Utterance
  <2>2. QED
      BY <2>1, LenProperties
<1> HIDE DEF Utterance
<1>3. Len(finals) \in Nat /\ \A i \in 1 .. Len(finals) : finals[i].frames \in Seq(Nat)
    BY <1>1, <1>2
<1>4. FramesOf(finals) \in Seq(Seq(Nat))
    BY <1>3 DEF FramesOf
<1>5. finals = <<>> => FramesOf(finals) = <<>>
    BY DEF FramesOf
<1>6. QED
    BY <1>4, <1>5, FlattenType

\* One more utterance is understood.
LEMMA FramesAppend ==
    ASSUME NEW finals \in Seq([by : {1, 2}, frames : Seq(Nat)]),
           NEW final \in [by : {1, 2}, frames : Seq(Nat)]
    PROVE  Recognition!FlattenSeq(FramesOf(Append(finals, final))) =
               Recognition!FlattenSeq(FramesOf(finals)) \o final.frames
<1> DEFINE more == Append(finals, final)
<1>1. /\ Len(more) = Len(finals) + 1 /\ Len(finals) \in Nat
      /\ \A i \in 1 .. Len(finals) : more[i] = finals[i]
      /\ more[Len(finals) + 1] = final
    BY AppendProperties, LenProperties
<1>2. FramesOf(finals) \in Seq(Seq(Nat)) /\ final.frames \in Seq(Nat)
    BY FramesType
<1> HIDE DEF more
<1>3. FramesOf(more) = Append(FramesOf(finals), final.frames)
  <2> DEFINE longer == Append(FramesOf(finals), final.frames)
  <2>1. Len(FramesOf(finals)) = Len(finals)
      BY <1>1 DEF FramesOf
  <2>2. /\ longer \in Seq(Seq(Nat)) /\ Len(longer) = Len(finals) + 1
        /\ \A i \in 1 .. Len(finals) : longer[i] = FramesOf(finals)[i]
        /\ longer[Len(finals) + 1] = final.frames
      BY <1>2, <2>1, AppendProperties
  <2> HIDE DEF longer
  <2>3. longer = [i \in 1 .. Len(finals) + 1 |-> longer[i]]
      BY <2>2
  <2>4. \A i \in 1 .. Len(finals) : longer[i] = more[i].frames
      BY <1>1, <2>2, Zenon DEF FramesOf
  <2>5. ASSUME NEW i \in 1 .. Len(finals) + 1 PROVE longer[i] = more[i].frames
    <3>1. CASE i = Len(finals) + 1
        BY <1>1, <2>2, <3>1, Zenon
    <3>2. CASE i # Len(finals) + 1
      <4>1. i \in 1 .. Len(finals)
          BY <1>1, <3>2
      <4>2. QED
          BY <2>4, <4>1
    <3>3. QED
        BY <3>1, <3>2
  <2>6. QED
      BY <1>1, <2>3, <2>5 DEF FramesOf, longer
<1>4. QED
    BY <1>2, <1>3, FlattenAppend DEF more

\* AllIsHeard in these words.
LEMMA HeardAs ==
    AllIsHeard <=>
        (Recognition!InUse /\ ~recognizer.lost =>
             Recognition!FlattenSeq(FramesOf(understood.finals)) \o Held(recognizer)
                 = UpTo(caller.frames))
BY Zenon DEF AllIsHeard, Recognition!AllIsHeard, Recognition!Finals, FramesOf, Held, UpTo

\* And after a step.
LEMMA HeardAsNext ==
    AllIsHeard' <=>
        (Recognition!InUse' /\ ~recognizer'.lost =>
             Recognition!FlattenSeq(FramesOf(understood'.finals)) \o Held(recognizer')
                 = UpTo(caller'.frames))
BY Zenon DEF AllIsHeard, Recognition!AllIsHeard, Recognition!Finals, FramesOf, Held, UpTo

\* Nothing is heard at first.
LEMMA HearStarts == Recognition!SttInit => HearInv /\ Recognition!Listened!Init
<1> SUFFICES ASSUME Recognition!SttInit PROVE HearInv /\ Recognition!Listened!Init
    OBVIOUS
<1> DEFINE new == Recognition!NewRecognizer
<1>1. /\ ear \in [chain : SpeechChains, index : {0}, closed : {FALSE}, finalized : {FALSE},
                  overflow : {FALSE}, buffered : {<<>>}, pendingFinalize : {FALSE}]
      /\ recognizer = new /\ caller = [frames |-> 0, ends |-> 0]
      /\ understood = [closed |-> FALSE, finals |-> <<>>]
    BY Zenon DEF Recognition!SttInit
<1>2. new \in Recognizers /\ Room(new) = 0
  <2>1. /\ new \in Recognizers
        /\ new.queue = <<>> /\ new.audio = <<>> /\ new.pending = <<>>
      BY DEF Recognition!NewRecognizer, Recognizers
  <2> HIDE DEF new
  <2>2. QED
      BY <2>1 DEF Room
<1> HIDE DEF new
<1>3. 0 \in 0 .. MaxFrames
    BY ProviderBounds
<1>4. HearTyped
  <2>1. ear \in [chain : SpeechChains, index : 0 .. 2, closed : BOOLEAN, finalized : BOOLEAN,
                 overflow : BOOLEAN, buffered : Seq(Nat), pendingFinalize : BOOLEAN]
    <3> DEFINE none == <<>>
    <3>1. none \in Seq(Nat)
        OBVIOUS
    <3>2. ear \in [chain : SpeechChains, index : {0}, closed : {FALSE}, finalized : {FALSE},
                    overflow : {FALSE}, buffered : {none}, pendingFinalize : {FALSE}]
        BY <1>1, Zenon
    <3> HIDE DEF none
    <3>3. 0 \in 0 .. 2 /\ FALSE \in BOOLEAN
        OBVIOUS
    <3>4. {0} \subseteq 0 .. 2 /\ {FALSE} \subseteq BOOLEAN /\ {none} \subseteq Seq(Nat)
        BY <3>1, <3>3, Zenon
    <3>5. QED
        BY <3>2, <3>4, Zenon
  <2>2. caller \in [frames : 0 .. MaxFrames, ends : Nat]
      BY <1>1, <1>3
  <2>3. understood \in [closed : BOOLEAN, finals : Seq([by : {1, 2}, frames : Seq(Nat)])]
      BY <1>1
  <2>4. QED
      BY <1>1, <1>2, <2>1, <2>2, <2>3 DEF HearTyped
<1>5. OneEar
  <2>1. /\ understood.closed = FALSE /\ understood.finals = <<>>
        /\ ear.closed = FALSE /\ ear.finalized = FALSE /\ ear.overflow = FALSE
      BY <1>1, Zenon
  <2>2. 1 .. Len(understood.finals) = {}
      BY <2>1
  <2>3. QED
      BY <2>1, <2>2, Zenon DEF OneEar
<1>6. AllIsKept
    BY <1>1, AppendSteps DEF AllIsKept
<1>7. HeardInTime
  <2>1. caller.frames = 0 /\ Len(understood.finals) = 0
      BY <1>1
  <2>2. QED
      BY <1>1, <1>2, <2>1 DEF HeardInTime
<1>8. HoldsRightly
    BY <1>1 DEF HoldsRightly
<1>9. AllIsHeard
  <2>1. ~Recognition!InUse
      BY <1>1 DEF Recognition!InUse
  <2>2. QED
      BY <2>1, HeardAs
<1>10. Recognition!Listened!Init
  <2>1. understood.closed = FALSE /\ Recognition!Finals = 0
      BY <1>1 DEF Recognition!Finals
  <2>2. QED
      BY <2>1 DEF Recognition!Listened!Init
<1>11. QED
    BY <1>4, <1>5, <1>6, <1>7, <1>8, <1>9, <1>10 DEF HearInv

\* A step that tells the session nothing and keeps on listening, and leaves a recognizer
\* that holds what it must.
LEMMA QuietKeepsHearing ==
    ASSUME HearInv,
           ear' \in [chain : SpeechChains, index : 0 .. 2, closed : BOOLEAN,
                     finalized : BOOLEAN, overflow : BOOLEAN, buffered : Seq(Nat),
                     pendingFinalize : BOOLEAN],
           ear'.chain = ear.chain, ear'.closed = ear.closed, ear'.finalized = ear.finalized,
           ear'.index = ear.index \/ (~ear.finalized /\ ear'.index \in {1, 2}),
           ear'.index = 0 => ~ear'.overflow,
           caller' \in [frames : 0 .. MaxFrames, ends : Nat],
           ~ear'.finalized /\ ~ear'.overflow /\ ~ear'.closed =>
               ear'.buffered = UpTo(caller'.frames),
           recognizer' \in Recognizers,
           ~ear.closed => Len(understood.finals) + Room(recognizer') <= caller'.frames,
           ear'.index > 0 => HoldsItsOwn(ear'.chain[ear'.index], recognizer'),
           ear'.index > 0 /\ ~ear.closed /\ ~recognizer'.lost =>
               Recognition!FlattenSeq(FramesOf(understood.finals)) \o Held(recognizer')
                   = UpTo(caller'.frames),
           UNCHANGED understood
    PROVE  HearInv' /\ TellsOfOne
<1>1. HearTyped'
    BY DEF HearInv, HearTyped
<1>2. OneEar'
  <2>1. ear.finalized \in BOOLEAN /\ ear.index \in 0 .. 2
      BY HearFields DEF HearInv
  <2>2. /\ understood'.closed = ear'.closed
        /\ understood'.finals # <<>> => ear'.finalized
        /\ ear'.index = 0 => ~ear'.finalized /\ ~ear'.overflow
      BY <2>1 DEF HearInv, OneEar
  <2>3. \A i \in 1 .. Len(understood'.finals) : understood'.finals[i].by = ear'.index
    <3>1. CASE ear'.index = ear.index
        BY <3>1 DEF HearInv, OneEar
    <3>2. CASE ~ear.finalized
      <4>1. Len(understood.finals) = 0
          BY <3>2 DEF HearInv, OneEar
      <4>2. 1 .. 0 = {}
          OBVIOUS
      <4>3. QED
          BY <4>1, <4>2
    <3>3. QED
        BY <3>1, <3>2
  <2>4. QED
      BY <2>2, <2>3 DEF OneEar
<1>3. AllIsKept'
    BY DEF AllIsKept
<1>4. HeardInTime'
    BY DEF HeardInTime
<1>5. HoldsRightly'
    BY DEF HoldsRightly, Recognition!Kind, Recognition!KindAt
<1>6. AllIsHeard'
  <2>1. Recognition!InUse' => ear'.index > 0 /\ ~ear.closed
      BY DEF Recognition!InUse
  <2>2. Recognition!InUse' /\ ~recognizer'.lost =>
            Recognition!FlattenSeq(FramesOf(understood'.finals)) \o Held(recognizer')
                = UpTo(caller'.frames)
      BY <2>1
  <2>3. QED
      BY <2>2, HeardAsNext
<1>7. QED
    BY <1>1, <1>2, <1>3, <1>4, <1>5, <1>6 DEF HearInv, TellsOfOne

\* What is understood next takes the first of what is held.
LEMMA RecognizesKeepsHearing ==
    ASSUME HearInv, Recognition!InUse, NEW frames \in Seq(Nat), NEW after \in Recognizers,
           Recognition!Recognizes(frames, after),
           HoldsItsOwn(Recognition!Kind, after), Room(after) + 1 <= Room(recognizer),
           after.lost = recognizer.lost, Held(recognizer) = frames \o Held(after)
    PROVE  HearInv' /\ TellsOfOne
<1> DEFINE final == [by |-> ear.index, frames |-> frames]
           finals == Append(understood.finals, final)
           none == <<>>
           n == Len(understood.finals)
<1>1. /\ HearTyped /\ OneEar /\ AllIsKept /\ HeardInTime /\ HoldsRightly /\ AllIsHeard
      /\ ear.index > 0 /\ ~ear.closed
    BY DEF HearInv, Recognition!InUse
<1>2. /\ ear.index \in 0 .. 2 /\ ear.closed \in BOOLEAN /\ caller.frames \in 0 .. MaxFrames
      /\ n \in Nat /\ understood.finals \in Seq([by : {1, 2}, frames : Seq(Nat)])
      /\ caller.frames \in Nat
    BY <1>1, HearFields
<1>3. final \in [by : {1, 2}, frames : Seq(Nat)] /\ final.by = ear.index /\ final.frames = frames
    BY <1>1, <1>2
<1>4. /\ finals \in Seq([by : {1, 2}, frames : Seq(Nat)]) /\ finals # <<>>
      /\ Len(finals) = n + 1
      /\ \A i \in 1 .. n : finals[i] = understood.finals[i]
      /\ finals[n + 1] = final
  <2> DEFINE Utterance == [by : {1, 2}, frames : Seq(Nat)]
  <2>1. final \in Utterance /\ understood.finals \in Seq(Utterance)
      BY <1>2, <1>3
  <2> HIDE DEF Utterance, final
  <2>2. /\ finals \in Seq(Utterance) /\ finals # <<>>
        /\ Len(finals) = n + 1
        /\ \A i \in 1 .. n : finals[i] = understood.finals[i]
        /\ finals[n + 1] = final
      BY <2>1, AppendProperties
  <2>3. QED
      BY <2>2 DEF Utterance
<1>5. none \in Seq(Nat)
    OBVIOUS
<1>6. /\ recognizer' = after /\ caller' = caller
      /\ ear' = [ear EXCEPT !.finalized = TRUE, !.buffered = none]
      /\ understood' = [understood EXCEPT !.finals = finals]
    BY DEF Recognition!Recognizes
<1> HIDE DEF finals, final, none
<1>7. HearTyped'
    BY <1>1, <1>4, <1>5, <1>6, Zenon DEF HearTyped
<1>8. /\ ear'.finalized = TRUE /\ ear'.index = ear.index /\ ear'.closed = ear.closed
      /\ ear'.chain = ear.chain
      /\ understood'.finals = finals /\ understood'.closed = understood.closed
    BY <1>1, <1>6 DEF HearTyped
<1>9. OneEar'
  <2>1. \A i \in 1 .. n : finals[i].by = ear.index
      BY <1>1, <1>4, Zenon DEF OneEar
  <2>2. ASSUME NEW i \in 1 .. n + 1 PROVE finals[i].by = ear.index
    <3>1. CASE i = n + 1
        BY <1>3, <1>4, <3>1
    <3>2. CASE i # n + 1
      <4>1. i \in 1 .. n
          BY <1>2, <3>2
      <4>2. QED
          BY <2>1, <4>1
    <3>3. QED
        BY <3>1, <3>2
  <2>3. ear.index # 0
      BY <1>1, <1>2
  <2>4. understood'.closed = ear'.closed
      BY <1>1, <1>8 DEF OneEar
  <2>5. QED
      BY <1>4, <1>8, <2>2, <2>3, <2>4 DEF OneEar
<1>10. AllIsKept'
    BY <1>8 DEF AllIsKept
<1>11. HeardInTime' /\ n + 1 <= MaxFrames
  <2>1. Room(after) \in Nat /\ Room(recognizer) \in Nat
      BY <1>1, HeldType DEF HearTyped
  <2>2. n + Room(recognizer) <= caller.frames
      BY <1>1 DEF HeardInTime
  <2>3. n + 1 + Room(after) <= caller.frames /\ n + 1 <= MaxFrames
      BY <1>2, <2>1, <2>2, ProviderBounds, SMTT(30)
  <2>4. QED
      BY <1>4, <1>6, <1>8, <2>3 DEF HeardInTime
<1>12. HoldsRightly'
    BY <1>1, <1>6, <1>8 DEF HoldsRightly, Recognition!Kind, Recognition!KindAt
<1>13. AllIsHeard'
  <2> DEFINE done == Recognition!FlattenSeq(FramesOf(understood.finals))
             more == Recognition!FlattenSeq(FramesOf(finals))
  <2>1. more = done \o frames
      BY <1>2, <1>3, FramesAppend, Zenon DEF finals
  <2>2. done \in Seq(Nat)
      BY <1>2, FramesType
  <2>3. Held(after) \in Seq(Nat)
      BY HeldType
  <2> HIDE DEF done, more
  <2>4. (done \o frames) \o Held(after) = done \o (frames \o Held(after))
      BY <2>2, <2>3, WordsAssociate, Zenon
  <2>5. ~recognizer.lost => done \o Held(recognizer) = UpTo(caller.frames)
      BY <1>1, HeardAs DEF Recognition!InUse, done
  <2>6. ~after.lost => more \o Held(after) = UpTo(caller.frames)
      BY <2>1, <2>4, <2>5, Zenon
  <2>7. QED
      BY <1>6, <1>8, <2>6, HeardAsNext DEF more
<1>14. Recognition!Listened!Next
  <2>1. /\ Recognition!Finals = n /\ Recognition!Finals' = n + 1
        /\ Recognition!Finals # n + 1
      BY <1>2, <1>4, <1>8 DEF Recognition!Finals
  <2>2. /\ understood.closed = FALSE /\ understood'.closed = FALSE
      BY <1>1, <1>2, <1>8 DEF OneEar
  <2>3. understood'.finals[n + 1].by = ear.index
      BY <1>3, <1>4, <1>8
  <2>4. ear.index \in {1, 2}
      BY <1>1, <1>2
  <2>5. n # 0 => understood.finals[n].by = ear.index
    <3>1. n # 0 => n \in 1 .. n
        BY <1>2
    <3>2. QED
        BY <1>1, <3>1, Zenon DEF OneEar
  <2>6. n + 1 \in n + 1 .. MaxFrames /\ n + 1 # 0
      BY <1>2, <1>11, ProviderBounds
  <2>7. Recognition!Listened!Give
      BY <2>1, <2>2, <2>3, <2>4, <2>5, <2>6 DEF Recognition!Listened!Give
  <2>8. QED
      BY <2>7 DEF Recognition!Listened!Next
<1>15. QED
    BY <1>7, <1>9, <1>10, <1>11, <1>12, <1>13, <1>14 DEF HearInv, TellsOfOne

\* The session is told that the stream is closed once.
LEMMA ClosesKeepsHearing ==
    ASSUME HearInv, ~ear.closed, Recognition!Closes PROVE HearInv' /\ TellsOfOne
<1> DEFINE none == <<>>
<1>1. none \in Seq(Nat)
    OBVIOUS
<1>2. /\ ear' = [ear EXCEPT !.closed = TRUE, !.buffered = none]
      /\ understood' = [understood EXCEPT !.closed = TRUE]
      /\ recognizer' = recognizer /\ caller' = caller
    BY DEF Recognition!Closes
<1> HIDE DEF none
<1>3. /\ HearTyped /\ OneEar /\ AllIsKept /\ HeardInTime /\ HoldsRightly /\ AllIsHeard
    BY DEF HearInv
<1>4. HearTyped'
    BY <1>1, <1>2, <1>3, Zenon DEF HearTyped
<1>5. /\ ear'.finalized = ear.finalized /\ ear'.overflow = ear.overflow
      /\ ear'.index = ear.index /\ ear'.closed = TRUE /\ ear'.chain = ear.chain
      /\ understood'.finals = understood.finals /\ understood'.closed = TRUE
    BY <1>2, <1>3 DEF HearTyped
<1>6. OneEar'
    BY <1>3, <1>5, Zenon DEF OneEar
<1>7. AllIsKept' /\ HeardInTime'
    BY <1>5 DEF AllIsKept, HeardInTime
<1>8. HoldsRightly'
    BY <1>2, <1>3, <1>5 DEF HoldsRightly, Recognition!Kind, Recognition!KindAt
<1>9. AllIsHeard'
  <2>1. ~Recognition!InUse'
      BY <1>5 DEF Recognition!InUse
  <2>2. QED
      BY <2>1, HeardAsNext
<1>10. Recognition!Listened!Next
  <2>1. understood.closed = FALSE
      BY <1>3, HearFields DEF OneEar
  <2>2. Recognition!Listened!Fail
      BY <1>5, <2>1 DEF Recognition!Listened!Fail, Recognition!Finals
  <2>3. QED
      BY <2>2 DEF Recognition!Listened!Next
<1>11. QED
    BY <1>4, <1>6, <1>7, <1>8, <1>9, <1>10 DEF HearInv, TellsOfOne

\* A step of the recognizer alone: it may lose what it held, but add nothing.
LEMMA RecognizerKeepsHearing ==
    ASSUME HearInv, Recognition!InUse, recognizer' \in Recognizers,
           HoldsItsOwn(Recognition!Kind, recognizer'), Room(recognizer') <= Room(recognizer),
           ~recognizer'.lost => ~recognizer.lost /\ Held(recognizer') = Held(recognizer),
           UNCHANGED <<ear, caller, understood>>
    PROVE  HearInv' /\ TellsOfOne
<1>1. /\ HearTyped /\ OneEar /\ AllIsKept /\ HeardInTime /\ HoldsRightly /\ AllIsHeard
      /\ ear.index > 0 /\ ~ear.closed
    BY DEF HearInv, Recognition!InUse
<1>2. HearTyped'
    BY <1>1 DEF HearTyped
<1>3. OneEar'
    BY <1>1 DEF OneEar
<1>4. AllIsKept'
    BY <1>1 DEF AllIsKept
<1>5. HeardInTime'
  <2>1. /\ Room(recognizer) \in Nat /\ Room(recognizer') \in Nat
        /\ Len(understood.finals) \in Nat /\ caller.frames \in Nat
      BY <1>1, HeldType, HearFields DEF HearTyped
  <2>2. Len(understood.finals) + Room(recognizer) <= caller.frames
      BY <1>1 DEF HeardInTime
  <2>3. Len(understood.finals) + Room(recognizer') <= caller.frames
      BY <2>1, <2>2
  <2>4. QED
      BY <2>3 DEF HeardInTime
<1>6. HoldsRightly'
    BY <1>1 DEF HoldsRightly, Recognition!Kind, Recognition!KindAt
<1>7. AllIsHeard'
  <2>1. ~recognizer'.lost =>
            Recognition!FlattenSeq(FramesOf(understood.finals)) \o Held(recognizer')
                = UpTo(caller.frames)
      BY <1>1, HeardAs, Zenon DEF Recognition!InUse
  <2>2. QED
      BY <2>1, HeardAsNext, Zenon
<1>8. QED
    BY <1>2, <1>3, <1>4, <1>5, <1>6, <1>7 DEF HearInv, TellsOfOne

\* What waited for the socket is sent behind what was sent.
LEMMA ConnectsKeepsHearing == ASSUME HearInv, Recognition!Connects PROVE HearInv' /\ TellsOfOne
<1> DEFINE words == Recognition!FlattenSeq(recognizer.queue)
           sent == recognizer.audio \o recognizer.pending
           none == <<>>
           after == [recognizer EXCEPT !.opened = TRUE, !.pending = none, !.audio = sent]
<1>1. recognizer \in Recognizers /\ HearTyped
    BY DEF HearInv, HearTyped
<1>2. /\ words \in Seq(Nat) /\ recognizer.audio \in Seq(Nat) /\ recognizer.pending \in Seq(Nat)
      /\ Len(recognizer.queue) \in Nat /\ Len(recognizer.audio) \in Nat
      /\ Len(recognizer.pending) \in Nat
    BY <1>1, HeldType
<1>3. /\ Recognition!InUse /\ Recognition!Kind = "sarvam"
      /\ recognizer' = after /\ UNCHANGED <<ear, caller, understood>>
    BY DEF Recognition!Connects
<1>4. sent \in Seq(Nat) /\ Len(sent) = Len(recognizer.audio) + Len(recognizer.pending)
    BY <1>2, ConcatProperties
<1>5. none \in Seq(Nat) /\ Len(none) = 0 /\ none = <<>>
    OBVIOUS
<1>6. HoldsItsOwn("sarvam", recognizer)
    BY <1>3 DEF HearInv, HoldsRightly, Recognition!InUse
<1> HIDE DEF words, none
<1>7. Held(after) = Held(recognizer)
  <2>1. words \o sent = (words \o recognizer.audio) \o recognizer.pending
      BY <1>2, WordsAssociate, Zenon
  <2> HIDE DEF sent
  <2>2. after.queue = recognizer.queue /\ after.audio = sent /\ after.pending = none
      BY <1>1 DEF Recognizers
  <2>3. words \o sent \in Seq(Nat)
      BY <1>2, <1>4, ConcatProperties
  <2>4. (words \o sent) \o none = words \o sent
      BY <1>5, <2>3, ConcatEmptySeq
  <2> HIDE DEF after
  <2>5. QED
      BY <2>1, <2>2, <2>4, Zenon DEF Held, words
<1> HIDE DEF sent
<1>8. after \in Recognizers
    BY <1>1, <1>4, <1>5, Zenon DEF Recognizers
<1>9. /\ after.queue = recognizer.queue /\ after.audio = sent /\ after.pending = none
      /\ after.lost = recognizer.lost
    BY <1>1 DEF Recognizers
<1> HIDE DEF after
<1>10. HoldsItsOwn("sarvam", after)
    BY <1>5, <1>6, <1>9 DEF HoldsItsOwn
<1>11. Room(after) = Room(recognizer)
  <2>1. /\ Room(after) =
               Len(recognizer.queue) + (Len(recognizer.audio) + Len(recognizer.pending)) + 0
        /\ Room(recognizer) =
               Len(recognizer.queue) + Len(recognizer.audio) + Len(recognizer.pending)
      BY <1>4, <1>5, <1>9, Zenon DEF Room
  <2>2. \A a, b, c \in Nat : a + (b + c) + 0 = a + b + c
      OBVIOUS
  <2>3. Len(recognizer.queue) + (Len(recognizer.audio) + Len(recognizer.pending)) + 0 =
            Len(recognizer.queue) + Len(recognizer.audio) + Len(recognizer.pending)
      BY <1>2, <2>2, Zenon
  <2>4. QED
      BY <2>1, <2>3, Zenon
<1>12. Room(recognizer') <= Room(recognizer)
  <2>1. Room(recognizer) \in Nat
      BY <1>1, HeldType
  <2>2. QED
      BY <1>3, <1>11, <2>1
<1>13. QED
    BY <1>3, <1>7, <1>8, <1>9, <1>10, <1>12, RecognizerKeepsHearing, Zenon

\* A recognizer that made nothing of what it had has lost it.
LEMMA HearsNothingKeepsHearing ==
    ASSUME HearInv, Recognition!InUse, NEW after \in Recognizers,
           Recognition!HearsNothing(after),
           HoldsItsOwn(Recognition!Kind, after), Room(after) + 1 <= Room(recognizer)
    PROVE  HearInv' /\ TellsOfOne
<1>1. recognizer' = [after EXCEPT !.lost = TRUE] /\ UNCHANGED <<ear, caller, understood>>
    BY DEF Recognition!HearsNothing
<1>2. recognizer' \in Recognizers
    BY <1>1, Zenon DEF Recognizers
<1>3. /\ recognizer'.queue = after.queue /\ recognizer'.audio = after.audio
      /\ recognizer'.pending = after.pending /\ recognizer'.opened = after.opened
      /\ recognizer'.lost = TRUE
    BY <1>1 DEF Recognizers
<1>4. HoldsItsOwn(Recognition!Kind, recognizer')
    BY <1>3 DEF HoldsItsOwn
<1>5. Room(recognizer') = Room(after)
    BY <1>3, Zenon DEF Room
<1>6. Room(recognizer') <= Room(recognizer)
  <2>1. Room(after) \in Nat /\ Room(recognizer) \in Nat
      BY HeldType DEF HearInv, HearTyped
  <2>2. QED
      BY <1>5, <2>1
<1>7. QED
    BY <1>1, <1>2, <1>3, <1>4, <1>6, RecognizerKeepsHearing, Zenon

\* The vendor's final is for all it was sent.
LEMMA VendorTranscribesKeepsHearing ==
    ASSUME HearInv, Recognition!VendorTranscribes PROVE HearInv' /\ TellsOfOne
<1> DEFINE none == <<>>
           after == [recognizer EXCEPT !.audio = none]
           audio == recognizer.audio
<1>1. recognizer \in Recognizers
    BY DEF HearInv, HearTyped
<1>2. /\ audio \in Seq(Nat) /\ recognizer.pending \in Seq(Nat)
      /\ Len(recognizer.queue) \in Nat /\ Len(audio) \in Nat
      /\ Len(recognizer.pending) \in Nat /\ Room(recognizer) \in Nat
    BY <1>1, HeldType
<1>3. /\ Recognition!InUse /\ Recognition!Kind = "sarvam" /\ audio # <<>>
      /\ Recognition!Recognizes(audio, after) \/ Recognition!HearsNothing(after)
    BY DEF Recognition!VendorTranscribes
<1>4. none \in Seq(Nat) /\ Len(none) = 0 /\ none = <<>>
    OBVIOUS
<1>5. HoldsItsOwn("sarvam", recognizer)
    BY <1>3 DEF HearInv, HoldsRightly, Recognition!InUse
<1> HIDE DEF none
<1>6. after \in Recognizers
    BY <1>1, <1>4, Zenon DEF Recognizers
<1>7. /\ after.queue = recognizer.queue /\ after.audio = none /\ after.opened = recognizer.opened
      /\ after.pending = recognizer.pending /\ after.lost = recognizer.lost
    BY <1>1 DEF Recognizers
<1> HIDE DEF after
<1>8. HoldsItsOwn("sarvam", after)
    BY <1>5, <1>7 DEF HoldsItsOwn
<1>9. Room(after) + 1 <= Room(recognizer)
  <2>1. Len(audio) >= 1
      BY <1>2, <1>3
  <2>2. /\ Room(after) = Len(recognizer.queue) + 0 + Len(recognizer.pending)
        /\ Room(recognizer) = Len(recognizer.queue) + Len(audio) + Len(recognizer.pending)
      BY <1>4, <1>7, Zenon DEF Room
  <2>3. \A a, b, c \in Nat : b >= 1 => (a + 0 + c) + 1 <= a + b + c
      OBVIOUS
  <2>4. (Len(recognizer.queue) + 0 + Len(recognizer.pending)) + 1
            <= Len(recognizer.queue) + Len(audio) + Len(recognizer.pending)
      BY <1>2, <2>1, <2>3, Zenon
  <2>5. QED
      BY <2>2, <2>4, Zenon
<1>10. Held(recognizer) = audio \o Held(after)
  <2>1. recognizer.queue = <<>> /\ <<>> \in Seq(Seq(Nat))
      BY <1>5 DEF HoldsItsOwn
  <2>2. Recognition!FlattenSeq(recognizer.queue) = none
      BY <1>4, <2>1, FlattenType, Zenon
  <2>3. none \o audio = audio /\ none \o none = none
      BY <1>2, <1>4, ConcatEmptySeq
  <2>4. none \o recognizer.pending = recognizer.pending
      BY <1>2, <1>4, ConcatEmptySeq
  <2>5. Held(recognizer) = audio \o recognizer.pending
      BY <2>2, <2>3, Zenon DEF Held
  <2>6. Held(after) = recognizer.pending
      BY <1>7, <2>2, <2>3, <2>4, Zenon DEF Held
  <2>7. QED
      BY <2>5, <2>6
<1> HIDE DEF audio
<1>11. CASE Recognition!Recognizes(audio, after)
    BY <1>2, <1>3, <1>6, <1>7, <1>8, <1>9, <1>10, <1>11, RecognizesKeepsHearing, Zenon
<1>12. CASE Recognition!HearsNothing(after)
    BY <1>3, <1>6, <1>8, <1>9, <1>12, HearsNothingKeepsHearing, Zenon
<1>13. QED
    BY <1>3, <1>11, <1>12

\* The local recognizer's final is for the utterance it took first.
LEMMA LocalDecodesKeepsHearing ==
    ASSUME HearInv, Recognition!LocalDecodes PROVE HearInv' /\ TellsOfOne
<1> DEFINE rest == Tail(recognizer.queue)
           first == Head(recognizer.queue)
           after == [recognizer EXCEPT !.queue = rest]
<1>1. recognizer \in Recognizers
    BY DEF HearInv, HearTyped
<1>2. /\ recognizer.audio \in Seq(Nat) /\ recognizer.pending \in Seq(Nat)
      /\ recognizer.queue \in Seq(Seq(Nat))
      /\ Len(recognizer.queue) \in Nat /\ Len(recognizer.audio) \in Nat
      /\ Len(recognizer.pending) \in Nat /\ Room(recognizer) \in Nat
    BY <1>1, HeldType
<1>3. /\ Recognition!InUse /\ Recognition!Kind = "local" /\ recognizer.queue # <<>>
      /\ Recognition!Recognizes(first, after) \/ Recognition!HearsNothing(after)
    BY DEF Recognition!LocalDecodes
<1>4. /\ first \in Seq(Nat) /\ rest \in Seq(Seq(Nat))
      /\ Len(rest) = Len(recognizer.queue) - 1 /\ Len(rest) \in Nat
    BY <1>2, <1>3, HeadTailProperties
<1>5. HoldsItsOwn("local", recognizer)
    BY <1>3 DEF HearInv, HoldsRightly, Recognition!InUse
<1>6. Recognition!FlattenSeq(recognizer.queue) = first \o Recognition!FlattenSeq(rest)
    BY <1>2, <1>3, FlattenHead, Zenon
<1> HIDE DEF rest, first
<1>7. after \in Recognizers
    BY <1>1, <1>4, Zenon DEF Recognizers
<1>8. /\ after.queue = rest /\ after.audio = recognizer.audio /\ after.opened = recognizer.opened
      /\ after.pending = recognizer.pending /\ after.lost = recognizer.lost
    BY <1>1 DEF Recognizers
<1> HIDE DEF after
<1>9. HoldsItsOwn("local", after)
    BY <1>5, <1>8 DEF HoldsItsOwn
<1>10. Room(after) + 1 <= Room(recognizer)
  <2>1. Len(recognizer.queue) = Len(rest) + 1
      BY <1>2, <1>4
  <2>2. /\ Room(after) = Len(rest) + Len(recognizer.audio) + Len(recognizer.pending)
        /\ Room(recognizer) = (Len(rest) + 1) + Len(recognizer.audio) + Len(recognizer.pending)
      BY <1>8, <2>1, Zenon DEF Room
  <2>3. \A a, b, c \in Nat : (a + b + c) + 1 <= (a + 1) + b + c
      OBVIOUS
  <2>4. (Len(rest) + Len(recognizer.audio) + Len(recognizer.pending)) + 1
            <= (Len(rest) + 1) + Len(recognizer.audio) + Len(recognizer.pending)
      BY <1>2, <1>4, <2>3, Zenon
  <2>5. QED
      BY <2>2, <2>4, Zenon
<1>11. Held(recognizer) = first \o Held(after)
  <2> DEFINE words == Recognition!FlattenSeq(rest)
  <2>1. words \in Seq(Nat)
      BY <1>4, FlattenType
  <2>2. words \o recognizer.audio \in Seq(Nat)
      BY <1>2, <2>1, ConcatProperties
  <2> HIDE DEF words
  <2>3. (first \o words) \o recognizer.audio = first \o (words \o recognizer.audio)
      BY <1>2, <1>4, <2>1, WordsAssociate, Zenon
  <2>4. (first \o (words \o recognizer.audio)) \o recognizer.pending
             = first \o ((words \o recognizer.audio) \o recognizer.pending)
      BY <1>2, <1>4, <2>2, WordsAssociate, Zenon
  <2>5. Held(after) = (words \o recognizer.audio) \o recognizer.pending
      BY <1>8, Zenon DEF Held, words
  <2>6. Held(recognizer) = ((first \o words) \o recognizer.audio) \o recognizer.pending
      BY <1>6, Zenon DEF Held, words
  <2>7. QED
      BY <2>3, <2>4, <2>5, <2>6, Zenon
<1>12. CASE Recognition!Recognizes(first, after)
    BY <1>3, <1>4, <1>7, <1>8, <1>9, <1>10, <1>11, <1>12, RecognizesKeepsHearing, Zenon
<1>13. CASE Recognition!HearsNothing(after)
    BY <1>3, <1>7, <1>9, <1>10, <1>13, HearsNothingKeepsHearing, Zenon
<1>14. QED
    BY <1>3, <1>12, <1>13

\* A recognizer, the first or the next, that is given all that was kept.
LEMMA ReplayKeepsHearing ==
    ASSUME HearInv, ~ear.closed, ~ear.finalized, ~ear.overflow, NEW i \in {1, 2},
           ear' = [ear EXCEPT !.index = i],
           recognizer' = Recognition!Replayed(Recognition!KindAt(i)),
           UNCHANGED <<caller, understood>>
    PROVE  HearInv' /\ TellsOfOne
<1> DEFINE kind == Recognition!KindAt(i)
           n == caller.frames
           after == Recognition!Replayed(kind)
<1>1. HearTyped /\ OneEar /\ AllIsKept
    BY DEF HearInv
<1>2. /\ kind \in {"sarvam", "local"} /\ n \in Nat /\ i \in 0 .. 2 /\ i > 0
      /\ understood.finals \in Seq([by : {1, 2}, frames : Seq(Nat)])
    BY <1>1, HearFields
<1>3. ear.buffered = UpTo(n)
    BY <1>1 DEF AllIsKept
<1> HIDE DEF n, kind
<1>4. /\ after \in Recognizers /\ HoldsItsOwn(kind, after) /\ Room(after) <= n
      /\ ~after.lost => Held(after) = UpTo(n)
    BY <1>2, <1>3, ReplayedHolds, Zenon
<1>5. recognizer' = after
    BY DEF kind
<1> HIDE DEF after
<1>6. /\ ear'.chain = ear.chain /\ ear'.closed = ear.closed /\ ear'.finalized = ear.finalized
      /\ ear'.overflow = ear.overflow /\ ear'.buffered = ear.buffered /\ ear'.index = i
      /\ ear' \in [chain : SpeechChains, index : 0 .. 2, closed : BOOLEAN,
                   finalized : BOOLEAN, overflow : BOOLEAN, buffered : Seq(Nat),
                   pendingFinalize : BOOLEAN]
    BY <1>1, <1>2, Zenon DEF HearTyped
<1>7. ear'.chain[ear'.index] = kind
    BY <1>6 DEF kind, Recognition!KindAt
<1>8. understood.finals = <<>> /\ Len(understood.finals) = 0
    BY <1>1 DEF OneEar
<1>9. Len(understood.finals) + Room(recognizer') <= caller'.frames
  <2>1. Room(after) \in Nat
      BY <1>4, HeldType
  <2>2. 0 + Room(after) <= n
      BY <1>2, <1>4, <2>1
  <2>3. QED
      BY <1>5, <1>8, <2>2 DEF n
<1>10. ~recognizer'.lost =>
           Recognition!FlattenSeq(FramesOf(understood.finals)) \o Held(recognizer')
               = UpTo(caller'.frames)
  <2>1. Recognition!FlattenSeq(FramesOf(understood.finals)) = <<>>
      BY <1>2, <1>8, FramesType, Zenon
  <2>2. <<>> \o Held(after) = Held(after)
      BY <1>4, HeldType, ConcatEmptySeq
  <2>3. QED
      BY <1>4, <1>5, <2>1, <2>2 DEF n
<1>11. caller' \in [frames : 0 .. MaxFrames, ends : Nat]
    BY <1>1 DEF HearTyped
<1>12. QED
  <2>1. ear'.buffered = UpTo(caller'.frames)
      BY <1>3, <1>6 DEF n
  <2>2. ear'.index # 0
      BY <1>2, <1>6
  <2>3. HoldsItsOwn(ear'.chain[ear'.index], recognizer') /\ recognizer' \in Recognizers
      BY <1>4, <1>5, <1>7
  <2>4. UNCHANGED understood
      OBVIOUS
  <2>5. QED
      BY <1>6, <1>9, <1>10, <1>11, <2>1, <2>2, <2>3, <2>4, QuietKeepsHearing, Zenon

\* start() replays what the session wrote before it.
LEMMA StartsKeepsHearing == ASSUME HearInv, Recognition!Starts PROVE HearInv' /\ TellsOfOne
<1>1. /\ ear.index = 0 /\ ~ear.closed /\ ear' = [ear EXCEPT !.index = 1]
      /\ recognizer' = Recognition!Replayed(Recognition!KindAt(1))
      /\ UNCHANGED <<caller, understood>>
    BY DEF Recognition!Starts
<1>2. ~ear.finalized /\ ~ear.overflow
    BY <1>1 DEF HearInv, OneEar
<1>3. QED
    BY <1>1, <1>2, ReplayKeepsHearing

\* A recognizer that fails is replaced or ends the stream.
LEMMA RecognizerFailsKeepsHearing ==
    ASSUME HearInv, Recognition!RecognizerFails PROVE HearInv' /\ TellsOfOne
<1>1. Recognition!InUse /\ ~ear.closed /\ ear.index > 0
    BY DEF Recognition!RecognizerFails, Recognition!InUse
<1>2. PICK recoverable \in BOOLEAN :
          \/ /\ Recognition!MovesOn(recoverable)
             /\ ear' = [ear EXCEPT !.index = @ + 1]
             /\ recognizer' = Recognition!Replayed(Recognition!KindAt(ear.index + 1))
             /\ UNCHANGED <<caller, understood>>
          \/ ~Recognition!MovesOn(recoverable) /\ Recognition!Closes
    BY DEF Recognition!RecognizerFails
<1>3. CASE Recognition!Closes
    BY <1>1, <1>3, ClosesKeepsHearing
<1>4. CASE /\ Recognition!MovesOn(recoverable)
           /\ ear' = [ear EXCEPT !.index = @ + 1]
           /\ recognizer' = Recognition!Replayed(Recognition!KindAt(ear.index + 1))
           /\ UNCHANGED <<caller, understood>>
  <2>1. ear.index \in 0 .. 2 /\ Len(ear.chain) = 2
      BY HearFields DEF HearInv
  <2>2. ~ear.finalized /\ ~ear.overflow /\ ear.index < Len(ear.chain)
      BY <1>4 DEF Recognition!MovesOn
  <2>3. PICK i \in {1, 2} : i = ear.index + 1
      BY <1>1, <2>1, <2>2
  <2>4. ear' = [ear EXCEPT !.index = i]
      BY <1>4, <2>3
  <2>5. recognizer' = Recognition!Replayed(Recognition!KindAt(i))
      BY <1>4, <2>3
  <2>6. UNCHANGED <<caller, understood>>
      BY <1>4
  <2>7. QED
      BY <1>1, <2>2, <2>4, <2>5, <2>6, ReplayKeepsHearing, Zenon
<1>5. QED
    BY <1>2, <1>3, <1>4

\* What the caller says is kept and given to the recognizer in use.
LEMMA SaysKeepsHearing == ASSUME HearInv, Recognition!Says PROVE HearInv' /\ TellsOfOne
<1> DEFINE n == caller.frames
           frame == n + 1
           kept == Len(ear.buffered) < MaxBuffered
           more == Append(ear.buffered, frame)
           none == <<>>
           buffer == IF kept THEN more ELSE none
           done == Recognition!FlattenSeq(FramesOf(understood.finals))
           length == Len(understood.finals)
<1>1. /\ HearTyped /\ OneEar /\ AllIsKept /\ HeardInTime /\ HoldsRightly /\ AllIsHeard
    BY DEF HearInv
<1>2. /\ ear.chain \in SpeechChains /\ ear.index \in 0 .. 2 /\ ear.closed \in BOOLEAN
      /\ ear.finalized \in BOOLEAN /\ ear.overflow \in BOOLEAN
      /\ ear.buffered \in Seq(Nat) /\ ear.pendingFinalize \in BOOLEAN
      /\ recognizer \in Recognizers /\ n \in 0 .. MaxFrames /\ n \in Nat
      /\ length \in Nat
      /\ understood.finals \in Seq([by : {1, 2}, frames : Seq(Nat)])
      /\ \A i \in {1, 2} : Recognition!KindAt(i) \in {"sarvam", "local"}
    BY <1>1, HearFields
<1>3. /\ ~ear.closed /\ n < MaxFrames /\ (ear.index = 0 => kept)
      /\ caller' = [caller EXCEPT !.frames = frame]
      /\ ear' = IF ear.finalized \/ ear.overflow THEN ear
                ELSE [ear EXCEPT !.buffered = buffer, !.overflow = ~kept]
      /\ recognizer' = IF Recognition!InUse
                       THEN Recognition!Written(Recognition!Kind, recognizer, frame)
                       ELSE recognizer
      /\ UNCHANGED understood
    BY DEF Recognition!Says
<1>4. frame \in Nat /\ frame \in 0 .. MaxFrames
    BY <1>2, <1>3, ProviderBounds
<1>5. more \in Seq(Nat) /\ none \in Seq(Nat) /\ kept \in BOOLEAN
  <2>1. more \in Seq(Nat) /\ none \in Seq(Nat)
      BY <1>2, <1>4, AppendProperties
  <2>2. kept \in BOOLEAN
      OBVIOUS
  <2>3. QED
      BY <2>1, <2>2
<1>6. Append(UpTo(n), frame) = UpTo(frame)
    BY <1>2, AppendSteps, Zenon
<1> HIDE DEF kept, more, none
<1>7. buffer \in Seq(Nat)
    BY <1>5
<1> HIDE DEF buffer
<1>8. /\ ear' \in [chain : SpeechChains, index : 0 .. 2, closed : BOOLEAN,
                   finalized : BOOLEAN, overflow : BOOLEAN, buffered : Seq(Nat),
                   pendingFinalize : BOOLEAN]
      /\ ear'.chain = ear.chain /\ ear'.closed = ear.closed /\ ear'.finalized = ear.finalized
      /\ ear'.index = ear.index
    BY <1>1, <1>3, <1>5, <1>7, Zenon DEF HearTyped
<1>9. ear'.index = 0 => ~ear'.overflow
  <2>1. ear.index = 0 => ~ear.finalized /\ ~ear.overflow
      BY <1>1 DEF OneEar
  <2>2. ~ear.finalized /\ ~ear.overflow => ear'.overflow = ~kept
      BY <1>1, <1>3 DEF HearTyped
  <2>3. QED
      BY <1>3, <1>8, <2>1, <2>2, Zenon
<1>10. /\ caller' \in [frames : 0 .. MaxFrames, ends : Nat] /\ caller'.frames = frame
  <2> HIDE DEF frame, n
  <2>1. QED
      BY <1>1, <1>3, <1>4, Zenon DEF HearTyped
<1>11. ~ear'.finalized /\ ~ear'.overflow /\ ~ear'.closed => ear'.buffered = UpTo(caller'.frames)
  <2> SUFFICES ASSUME ~ear'.finalized, ~ear'.overflow
               PROVE  ear'.buffered = UpTo(caller'.frames)
      OBVIOUS
  <2>1. ~ear.finalized
      BY <1>8
  <2>2. ~ear.overflow
      BY <1>3
  <2>3. ear' = [ear EXCEPT !.buffered = buffer, !.overflow = ~kept]
      BY <1>3, <2>1, <2>2
  <2>4. ear'.buffered = buffer /\ kept
      BY <1>1, <2>3, Zenon DEF HearTyped
  <2>5. ear.buffered = UpTo(n)
      BY <1>1, <1>3, <2>1, <2>2 DEF AllIsKept
  <2>6. QED
      BY <1>6, <1>10, <2>4, <2>5 DEF buffer, more
<1> HIDE DEF frame
<1>12. CASE Recognition!InUse
  <2> DEFINE kind == Recognition!Kind
             after == Recognition!Written(kind, recognizer, frame)
  <2>1. ear.index > 0 /\ ear.index \in {1, 2}
      BY <1>2, <1>12 DEF Recognition!InUse
  <2>2. kind \in {"sarvam", "local"} /\ kind = ear'.chain[ear'.index]
      BY <1>2, <1>8, <2>1 DEF Recognition!Kind, Recognition!KindAt
  <2>3. HoldsItsOwn(kind, recognizer)
      BY <1>1, <2>1 DEF HoldsRightly
  <2> HIDE DEF kind
  <2>4. /\ after \in Recognizers /\ HoldsItsOwn(kind, after)
        /\ Room(after) <= Room(recognizer) + 1
        /\ ~after.lost => ~recognizer.lost /\ Held(after) = Append(Held(recognizer), frame)
      BY <1>2, <1>4, <2>2, <2>3, WrittenHolds, Zenon
  <2>5. recognizer' = after
      BY <1>3, <1>12 DEF kind
  <2> HIDE DEF after
  <2>6. length + Room(recognizer') <= caller'.frames
    <3>1. /\ Room(recognizer) \in Nat /\ Room(after) \in Nat
        BY <1>2, <2>4, HeldType
    <3>2. length + Room(recognizer) <= n
        BY <1>1, <1>3 DEF HeardInTime
    <3>3. length + Room(after) <= n + 1
        BY <1>2, <2>4, <3>1, <3>2
    <3>4. QED
        BY <1>10, <2>5, <3>3 DEF frame
  <2>7. ~recognizer'.lost => done \o Held(recognizer') = UpTo(caller'.frames)
    <3>1. done \in Seq(Nat)
        BY <1>2, FramesType
    <3>2. Held(recognizer) \in Seq(Nat)
        BY <1>2, HeldType
    <3> HIDE DEF done
    <3>3. done \o Append(Held(recognizer), frame) = Append(done \o Held(recognizer), frame)
      <4>1. Append(Held(recognizer), frame) = Held(recognizer) \o <<frame>>
          BY <1>4, <3>2, AppendIsConcat
      <4>2. done \o Held(recognizer) \in Seq(Nat)
          BY <3>1, <3>2, ConcatProperties
      <4>3. Append(done \o Held(recognizer), frame) = (done \o Held(recognizer)) \o <<frame>>
          BY <1>4, <4>2, AppendIsConcat
      <4>4. <<frame>> \in Seq(Nat)
          BY <1>4
      <4>5. QED
          BY <3>1, <3>2, <4>1, <4>3, <4>4, WordsAssociate
    <3>4. ~recognizer.lost => done \o Held(recognizer) = UpTo(n)
        BY <1>1, <1>12, HeardAs DEF done
    <3>5. ~after.lost => done \o Held(after) = UpTo(frame)
        BY <1>6, <2>4, <3>3, <3>4, Zenon
    <3>6. QED
        BY <1>10, <2>5, <3>5
  <2>8. HoldsItsOwn(ear'.chain[ear'.index], recognizer') /\ recognizer' \in Recognizers
      BY <2>2, <2>4, <2>5
  <2>9. UNCHANGED understood
      BY <1>3
  <2>10. QED
    <3>1. ear'.index = ear.index \/ (~ear.finalized /\ ear'.index \in {1, 2})
        BY <1>8
    <3>2. ~ear.closed => Len(understood.finals) + Room(recognizer') <= caller'.frames
        BY <2>6 DEF length
    <3>3. ear'.index > 0 => HoldsItsOwn(ear'.chain[ear'.index], recognizer')
        BY <2>8
    <3>4. ear'.index > 0 /\ ~ear.closed /\ ~recognizer'.lost =>
               Recognition!FlattenSeq(FramesOf(understood.finals)) \o Held(recognizer')
                   = UpTo(caller'.frames)
        BY <2>7 DEF done
    <3>5. /\ HearInv /\ recognizer' \in Recognizers
          /\ caller' \in [frames : 0 .. MaxFrames, ends : Nat]
        BY <1>10, <2>8
    <3> HIDE DEF done, length, n
    <3>6. QED
        BY <1>8, <1>9, <1>11, <2>9, <3>1, <3>2, <3>3, <3>4, <3>5, QuietKeepsHearing, Zenon
<1>13. CASE ~Recognition!InUse
  <2>1. ear.index = 0 /\ ~(ear'.index > 0)
      BY <1>2, <1>3, <1>8, <1>13 DEF Recognition!InUse
  <2>2. recognizer' = recognizer /\ UNCHANGED understood
      BY <1>3, <1>13
  <2>3. length + Room(recognizer') <= caller'.frames
    <3>1. Room(recognizer) \in Nat
        BY <1>2, HeldType
    <3>2. length + Room(recognizer) <= n
        BY <1>1, <1>3 DEF HeardInTime
    <3>3. length + Room(recognizer) <= n + 1
        BY <1>2, <3>1, <3>2
    <3>4. QED
        BY <1>10, <2>2, <3>3 DEF frame
  <2>4. recognizer' \in Recognizers
      BY <1>2, <2>2
  <2>5. QED
      BY <1>8, <1>9, <1>10, <1>11, <2>1, <2>2, <2>3, <2>4, QuietKeepsHearing DEF length
<1>14. QED
    BY <1>12, <1>13

\* The recognizer in use is told, and the next one will be.
LEMMA EndsUtteranceKeepsHearing ==
    ASSUME HearInv, Recognition!EndsUtterance PROVE HearInv' /\ TellsOfOne
<1> DEFINE done == Recognition!FlattenSeq(FramesOf(understood.finals))
           length == Len(understood.finals)
           ends == caller.ends + 1
<1>1. /\ HearTyped /\ OneEar /\ AllIsKept /\ HeardInTime /\ HoldsRightly /\ AllIsHeard
    BY DEF HearInv
<1>2. /\ ear.index \in 0 .. 2 /\ recognizer \in Recognizers /\ caller.frames \in Nat
      /\ length \in Nat /\ ends \in Nat
      /\ \A i \in {1, 2} : Recognition!KindAt(i) \in {"sarvam", "local"}
    BY <1>1, HearFields
<1> HIDE DEF ends
<1>3. /\ ~ear.closed /\ caller' = [caller EXCEPT !.ends = ends]
      /\ ear' = [ear EXCEPT !.pendingFinalize = TRUE]
      /\ recognizer' = IF Recognition!InUse
                       THEN Recognition!Finalized(Recognition!Kind, recognizer) ELSE recognizer
      /\ UNCHANGED understood
    BY DEF Recognition!EndsUtterance, ends
<1>4. /\ ear' \in [chain : SpeechChains, index : 0 .. 2, closed : BOOLEAN,
                   finalized : BOOLEAN, overflow : BOOLEAN, buffered : Seq(Nat),
                   pendingFinalize : BOOLEAN]
      /\ ear'.chain = ear.chain /\ ear'.closed = ear.closed /\ ear'.finalized = ear.finalized
      /\ ear'.index = ear.index /\ ear'.overflow = ear.overflow
      /\ ear'.buffered = ear.buffered
    BY <1>1, <1>3, Zenon DEF HearTyped
<1>5. caller' \in [frames : 0 .. MaxFrames, ends : Nat] /\ caller'.frames = caller.frames
    BY <1>1, <1>2, <1>3, Zenon DEF HearTyped
<1>6. ear'.index = 0 => ~ear'.overflow
    BY <1>1, <1>4 DEF OneEar
<1>7. ~ear'.finalized /\ ~ear'.overflow /\ ~ear'.closed => ear'.buffered = UpTo(caller'.frames)
    BY <1>1, <1>4, <1>5 DEF AllIsKept
<1>8. length + Room(recognizer) <= caller.frames /\ Room(recognizer) \in Nat
    BY <1>1, <1>2, <1>3, HeldType DEF HeardInTime
<1>9. CASE Recognition!InUse
  <2> DEFINE kind == Recognition!Kind
             after == Recognition!Finalized(kind, recognizer)
  <2>1. ear.index > 0 /\ ear.index \in {1, 2}
      BY <1>2, <1>9 DEF Recognition!InUse
  <2>2. kind \in {"sarvam", "local"} /\ kind = ear'.chain[ear'.index]
      BY <1>2, <1>4, <2>1 DEF Recognition!Kind, Recognition!KindAt
  <2>3. HoldsItsOwn(kind, recognizer)
      BY <1>1, <2>1 DEF HoldsRightly
  <2> HIDE DEF kind
  <2>4. /\ after \in Recognizers /\ HoldsItsOwn(kind, after) /\ Room(after) <= Room(recognizer)
        /\ after.lost = recognizer.lost /\ Held(after) = Held(recognizer)
      BY <1>2, <2>2, <2>3, FinalizedHolds, Zenon
  <2>5. recognizer' = after
      BY <1>3, <1>9 DEF kind
  <2> HIDE DEF after
  <2>6. length + Room(recognizer') <= caller'.frames
    <3>1. Room(after) \in Nat
        BY <2>4, HeldType
    <3>2. length + Room(after) <= caller.frames
        BY <1>2, <1>8, <2>4, <3>1
    <3>3. QED
        BY <1>5, <2>5, <3>2
  <2>7. ~recognizer'.lost => done \o Held(recognizer') = UpTo(caller'.frames)
    <3>1. ~recognizer.lost => done \o Held(recognizer) = UpTo(caller.frames)
        BY <1>1, <1>9, HeardAs DEF done
    <3>2. QED
        BY <1>5, <2>4, <2>5, <3>1, Zenon
  <2>8. HoldsItsOwn(ear'.chain[ear'.index], recognizer') /\ recognizer' \in Recognizers
      BY <2>2, <2>4, <2>5
  <2>9. UNCHANGED understood
      BY <1>3
  <2>10. QED
      BY <1>4, <1>5, <1>6, <1>7, <2>6, <2>7, <2>8, <2>9, QuietKeepsHearing DEF done, length
<1>10. CASE ~Recognition!InUse
  <2>1. ~(ear'.index > 0)
      BY <1>2, <1>3, <1>4, <1>10 DEF Recognition!InUse
  <2>2. recognizer' = recognizer /\ UNCHANGED understood
      BY <1>3, <1>10
  <2>3. length + Room(recognizer') <= caller'.frames /\ recognizer' \in Recognizers
      BY <1>2, <1>5, <1>8, <2>2
  <2>4. QED
      BY <1>4, <1>5, <1>6, <1>7, <2>1, <2>2, <2>3, QuietKeepsHearing DEF length
<1>11. QED
    BY <1>9, <1>10

\* Every step keeps the invariant, and what it tells the session is of one recognizer.
LEMMA StepsKeepHearing ==
    HearInv /\ [Recognition!SttNext]_hearingVars => HearInv' /\ TellsOfOne
<1> SUFFICES ASSUME HearInv, [Recognition!SttNext]_hearingVars PROVE HearInv' /\ TellsOfOne
    OBVIOUS
<1>1. CASE UNCHANGED hearingVars
  <2>1. UNCHANGED <<ear, recognizer, caller, understood>>
      BY <1>1 DEF hearingVars
  <2>2. HearTyped' /\ OneEar' /\ AllIsKept' /\ HeardInTime'
      BY <2>1 DEF HearInv, HearTyped, OneEar, AllIsKept, HeardInTime
  <2>3. HoldsRightly'
      BY <2>1 DEF HearInv, HoldsRightly, Recognition!Kind, Recognition!KindAt
  <2>4. Recognition!InUse' = Recognition!InUse
      BY <2>1 DEF Recognition!InUse
  <2>5. AllIsHeard'
      BY <2>1, <2>4, HeardAs, HeardAsNext DEF HearInv
  <2>6. QED
      BY <2>1, <2>2, <2>3, <2>5 DEF HearInv, TellsOfOne
<1>2. CASE Recognition!SessionCloses
    BY <1>2, ClosesKeepsHearing DEF Recognition!SessionCloses
<1>3. CASE Recognition!SttNext
    BY <1>2, <1>3, ConnectsKeepsHearing, VendorTranscribesKeepsHearing,
       LocalDecodesKeepsHearing, StartsKeepsHearing, RecognizerFailsKeepsHearing,
       SaysKeepsHearing, EndsUtteranceKeepsHearing DEF Recognition!SttNext
<1>4. QED
    BY <1>1, <1>3

\* The recognition of a call goes on at its own steps.
LEMMA HearingOnly == MCNext => [Recognition!SttNext]_hearingVars
BY DEF MCNext, Call, Reply, Interview, CustomerSync, Routing, Synthesizing, Hearing,
   providerVars

\* "Once a final may have caused a business action, failure is surfaced instead": a call of
\* any length is understood by one recognizer, and nothing is understood after the end
\* (fallback-stt-provider.ts).
THEOREM CallIsUnderstoodByOne == MCSpec => Recognition!ImplementsOneSource
<1>1. MCInit => HearInv /\ Recognition!Listened!Init
    BY HearStarts DEF MCInit
<1>2. HearInv /\ [MCNext]_<<scope, vars, speechVars, salesVars, crmVars, providerVars>>
          => HearInv' /\ [Recognition!Listened!Next]_understood
  <2>1. UNCHANGED <<scope, vars, speechVars, salesVars, crmVars, providerVars>>
            => UNCHANGED hearingVars
      BY DEF providerVars
  <2>2. QED
      BY <2>1, HearingOnly, StepsKeepHearing DEF TellsOfOne
<1>3. QED
    BY <1>1, <1>2, PTL DEF MCSpec, Recognition!ImplementsOneSource

\* However many recognizers fail, before the first final or after, and wherever the session
\* ends an utterance: what was understood and what the recognizer in use still holds is all
\* the caller said, in order and once, unless that recognizer itself dropped or did not
\* understand some of it (fallback-stt-provider.ts).
THEOREM NothingSaidIsLost == MCSpec => []AllIsHeard
<1>1. MCInit => HearInv
    BY HearStarts DEF MCInit
<1>2. HearInv /\ [MCNext]_<<scope, vars, speechVars, salesVars, crmVars, providerVars>>
          => HearInv'
  <2>1. UNCHANGED <<scope, vars, speechVars, salesVars, crmVars, providerVars>>
            => UNCHANGED hearingVars
      BY DEF providerVars
  <2>2. QED
      BY <2>1, HearingOnly, StepsKeepHearing
<1>3. HearInv => AllIsHeard
    BY DEF HearInv
<1>4. QED
    BY <1>1, <1>2, <1>3, PTL DEF MCSpec

\* Calls of the model, lines of speech and the recognition of a call are served by one
\* provider each, for every number of calls, pieces and failures (fallback-router.ts,
\* fallback-tts-provider.ts, fallback-stt-provider.ts).
THEOREM ProvidersAreOneSource == MCSpec => FailoverIsOneSource
BY AnswerIsOfOneModel, LineIsHeardInOneVoice, CallIsUnderstoodByOne DEF FailoverIsOneSource

-------------------------------------------------------------------------------
(* The visit of a qualification call.  Where the provider has left off says   *)
(* what it knows: it inserts only while it has seen no appointment of the    *)
(* conversation, and what it says afterwards is said of the last choice.     *)

IsCalendar(c) == c = [free |-> c.free, visits |-> c.visits]

IsVisit(v) == v = [phase |-> v.phase, offered |-> v.offered, attempts |-> v.attempts]

IsTurn(t) == t = [at |-> t.at, words |-> t.words, slot |-> t.slot, told |-> t.told]

IsCall(c) == c = [carried |-> c.carried, booked |-> c.booked, turns |-> c.turns,
                  disposition |-> c.disposition]

VisitTyped ==
    /\ IsCalendar(calendar)
    /\ IsVisit(visit)
    /\ IsCall(salesCall)
    /\ salesTurn # Sales!Idle => IsTurn(salesTurn)

OneVisit == calendar.visits = {} \/ \E c : calendar.visits = {c}

TurnKnows ==
    salesTurn # Sales!Idle =>
        /\ salesTurn.told = "booked" => calendar.visits # {}
        /\ salesTurn.told = "not_booked" => calendar.visits = {}
        /\ salesTurn.at # "model" => salesTurn.told = "unspoken"
        /\ salesTurn.at = "inserting" => calendar.visits = {}

CallKnows ==
    \/ calendar.visits # {}
    \/ /\ visit.phase # "booked"
       /\ ~salesCall.booked
       /\ salesCall.disposition # "appointment_booked"

VisitInv == VisitTyped /\ OneVisit /\ TurnKnows /\ CallKnows

\* The invariant says that what is said of the visit is so.
LEMMA VisitInvImplies == VisitInv => Sales!VisitIsAsTold
<1> SUFFICES ASSUME VisitInv PROVE Sales!VisitIsAsTold
    OBVIOUS
<1>1. Sales!Cardinality(calendar.visits) <= 1
  <2>1. CASE calendar.visits = {}
      BY <2>1, FS_EmptySet DEF Cardinality, Sales!Cardinality
  <2>2. ASSUME NEW c, calendar.visits = {c} PROVE Sales!Cardinality(calendar.visits) <= 1
    <3>1. Cardinality({c}) = 1
        BY FS_Singleton
    <3>2. Sales!Cardinality({c}) = Cardinality({c})
        BY DEF Cardinality, Sales!Cardinality
    <3>3. QED
        BY <2>2, <3>1, <3>2
  <2>3. QED
      BY <2>1, <2>2 DEF VisitInv, OneVisit
<1>2. QED
    BY <1>1 DEF VisitInv, TurnKnows, CallKnows, Sales!VisitIsAsTold

\* It holds of a new call.
LEMMA VisitStarts == Sales!SalesInit => VisitInv
BY DEF Sales!SalesInit, Sales!Idle, VisitInv, VisitTyped, IsCalendar, IsVisit, IsTurn,
   IsCall, OneVisit, TurnKnows, CallKnows

\* The turn goes on to another place, and says something only at the model.
LEMMA TurnMoves ==
    ASSUME NEW at \in {"offering", "finding", "inserting", "model"}, NEW words, NEW slot,
           NEW told \in {"unspoken", "booked", "not_booked"},
           salesTurn' = [at |-> at, words |-> words, slot |-> slot, told |-> told],
           told = "booked" => calendar'.visits # {},
           told = "not_booked" => calendar'.visits = {},
           at # "model" => told = "unspoken",
           at = "inserting" => calendar'.visits = {}
    PROVE  /\ TurnKnows'
           /\ IsTurn(salesTurn')
BY DEF TurnKnows, Sales!Idle, IsTurn

\* The steps of a turn, one by one.
LEMMA TurnBeginsKeepsVisit ==
    ASSUME VisitInv, NEW u, Sales!TurnBegins(u) PROVE VisitInv'
<1>1. PICK words : salesTurn' = [at |-> "context", words |-> words, slot |-> Sales!NoSlot,
                                 told |-> "unspoken"]
    BY Zenon DEF Sales!TurnBegins
<1>2. /\ salesCall' = [salesCall EXCEPT !.carried = Sales!NoWords]
      /\ UNCHANGED <<visit, calendar>>
    BY DEF Sales!TurnBegins
<1>3. QED
    BY <1>1, <1>2, Zenon
       DEF VisitInv, VisitTyped, IsCalendar, IsVisit, IsTurn, IsCall, OneVisit,
       TurnKnows, CallKnows

\* A turn that is over has nothing more to say.
LEMMA TurnLeavesKeepsVisit ==
    ASSUME VisitInv, Sales!TurnIsCancelled \/ Sales!TurnEnds PROVE VisitInv'
BY Zenon
   DEF Sales!TurnIsCancelled, Sales!TurnEnds, VisitInv, VisitTyped, IsCalendar, IsVisit,
   IsTurn, IsCall, OneVisit, TurnKnows, CallKnows

\* The provider tells of a visit only one that it booked earlier.
LEMMA ProvidersKeepVisit == ASSUME VisitInv, Sales!Providers PROVE VisitInv'
<1>1. PICK k \in Sales!KnownCustomer, poorlyHeard \in BOOLEAN :
        LET s == Sales!Prepare(k.snapshot, salesTurn.words, poorlyHeard)
            result == Sales!VisitStep(s, visit, salesTurn.words) IN
        /\ visit' = IF result = "insist" THEN [visit EXCEPT !.attempts = @ + 1] ELSE visit
        /\ CASE result = "offer" -> salesTurn' = [salesTurn EXCEPT !.at = "offering"]
             [] result = "choose" ->
                   \E c \in visit.offered :
                      salesTurn' = [salesTurn EXCEPT !.at = "finding", !.slot = c]
             [] result = "told" ->
                   salesTurn' = [salesTurn EXCEPT !.at = "model", !.told = "booked"]
             [] OTHER -> salesTurn' = [salesTurn EXCEPT !.at = "model"]
    BY Zenon DEF Sales!Providers
<1> DEFINE s == Sales!Prepare(k.snapshot, salesTurn.words, poorlyHeard)
           where == Sales!VisitStep(s, visit, salesTurn.words)
<1>2. where = "told" => visit.phase = "booked"
    BY DEF Sales!VisitStep
<1>3. /\ visit' = IF where = "insist" THEN [visit EXCEPT !.attempts = @ + 1] ELSE visit
      /\ CASE where = "offer" -> salesTurn' = [salesTurn EXCEPT !.at = "offering"]
           [] where = "choose" ->
                 \E c \in visit.offered :
                    salesTurn' = [salesTurn EXCEPT !.at = "finding", !.slot = c]
           [] where = "told" ->
                 salesTurn' = [salesTurn EXCEPT !.at = "model", !.told = "booked"]
           [] OTHER -> salesTurn' = [salesTurn EXCEPT !.at = "model"]
    BY <1>1, Zenon
<1> HIDE DEF where
<1>4. salesTurn # Sales!Idle /\ salesTurn.at = "context" /\ UNCHANGED <<calendar, salesCall>>
    BY Zenon DEF Sales!Providers
<1>5. /\ visit'.phase = visit.phase
      /\ IsVisit(visit')
    BY <1>3, Zenon DEF VisitInv, VisitTyped, IsCalendar, IsVisit, IsTurn, IsCall
<1>6. salesTurn.told = "unspoken"
    BY <1>4 DEF VisitInv, TurnKnows
<1>7. /\ TurnKnows'
      /\ IsTurn(salesTurn')
  <2>1. CASE where = "offer"
    <3>1. salesTurn' = [at |-> "offering", words |-> salesTurn.words, slot |-> salesTurn.slot,
                        told |-> "unspoken"]
        BY <1>3, <1>4, <1>6, <2>1 DEF VisitInv, VisitTyped, IsTurn
    <3>2. QED
        BY <3>1, TurnMoves
  <2>2. CASE where = "choose"
    <3>1. PICK c : salesTurn' = [salesTurn EXCEPT !.at = "finding", !.slot = c]
        BY <1>3, <2>2, Zenon
    <3>2. salesTurn' = [at |-> "finding", words |-> salesTurn.words, slot |-> c,
                        told |-> "unspoken"]
        BY <1>4, <1>6, <3>1, Zenon DEF VisitInv, VisitTyped, IsTurn
    <3>3. QED
        BY <3>2, TurnMoves
  <2>3. CASE where = "told"
    <3>1. salesTurn' = [at |-> "model", words |-> salesTurn.words, slot |-> salesTurn.slot,
                        told |-> "booked"]
        BY <1>3, <1>4, <2>3, Zenon DEF VisitInv, VisitTyped, IsTurn
    <3>2. calendar'.visits # {}
        BY <1>2, <1>4, <2>3 DEF VisitInv, CallKnows
    <3>3. QED
        BY <3>1, <3>2, TurnMoves, Zenon
  <2>4. CASE where \notin {"offer", "choose", "told"}
    <3>1. salesTurn' = [at |-> "model", words |-> salesTurn.words, slot |-> salesTurn.slot,
                        told |-> "unspoken"]
        BY <1>3, <1>4, <1>6, <2>4, Zenon DEF VisitInv, VisitTyped, IsTurn
    <3>2. QED
        BY <3>1, TurnMoves, Zenon
  <2>5. QED
      BY <2>1, <2>2, <2>3, <2>4
<1>8. QED
    BY <1>4, <1>5, <1>7 DEF VisitInv, VisitTyped, IsCalendar, IsVisit, IsTurn, IsCall,
       OneVisit, CallKnows

\* The turn says something of the visit, whose phase and calendar agree with it.
LEMMA VisitIsTold ==
    ASSUME VisitInv, salesTurn # Sales!Idle, salesTurn.at # "model",
           NEW told \in {"unspoken", "booked", "not_booked"},
           Sales!Tell(told),
           told = "booked" => calendar'.visits # {},
           told = "not_booked" => calendar'.visits = {},
           IsCalendar(calendar'),
           IsVisit(visit'),
           salesCall' \in {salesCall, [salesCall EXCEPT !.booked = TRUE]},
           OneVisit',
           calendar.visits # {} => calendar'.visits # {},
           \/ calendar'.visits # {}
           \/ visit'.phase \in {visit.phase, "failed", "offered"} /\ salesCall' = salesCall
    PROVE  VisitInv'
<1>1. salesTurn' = [at |-> "model", words |-> salesTurn.words, slot |-> salesTurn.slot,
                    told |-> told]
    BY Zenon DEF VisitInv, VisitTyped, IsTurn, Sales!Tell
<1>2. TurnKnows'
    BY <1>1, TurnMoves, Zenon
<1>3. VisitTyped'
    BY <1>1 DEF VisitInv, VisitTyped, IsCalendar, IsVisit, IsTurn, IsCall
<1>4. CallKnows'
    BY DEF VisitInv, CallKnows
<1>5. QED
    BY <1>2, <1>3, <1>4 DEF VisitInv

\* An offer says nothing of a visit.
LEMMA OfferSlotsKeepsVisit == ASSUME VisitInv, Sales!OfferSlots PROVE VisitInv'
<1>1. /\ IsVisit(visit')
      /\ visit'.phase \in {visit.phase, "failed", "offered"}
    BY Zenon DEF VisitInv, VisitTyped, IsVisit, Sales!OfferSlots
<1>2. /\ salesTurn # Sales!Idle /\ salesTurn.at # "model" /\ Sales!Tell("unspoken")
      /\ UNCHANGED <<calendar, salesCall>>
    BY DEF Sales!OfferSlots
<1>3. OneVisit' /\ IsCalendar(calendar')
    BY <1>2 DEF VisitInv, VisitTyped, IsCalendar, IsVisit, IsTurn, IsCall, OneVisit
<1>4. QED
    BY <1>1, <1>2, <1>3, VisitIsTold

\* The appointment that is found answers the choice; otherwise there is none.
LEMMA FindExistingKeepsVisit == ASSUME VisitInv, Sales!FindExisting PROVE VisitInv'
<1>1. /\ salesTurn # Sales!Idle /\ salesTurn.at # "model" /\ UNCHANGED calendar
    BY DEF Sales!FindExisting
<1>2. OneVisit' /\ IsCalendar(calendar')
    BY <1>1, Zenon DEF VisitInv, VisitTyped, IsCalendar, IsVisit, IsTurn, IsCall, OneVisit
<1>3. CASE Sales!Exists /\ Sales!VisitIsBooked
  <2>1. /\ IsVisit(visit')
        /\ salesCall' = [salesCall EXCEPT !.booked = TRUE] /\ Sales!Tell("booked")
        /\ calendar'.visits # {}
      BY <1>1, <1>3 DEF VisitInv, VisitTyped, IsCalendar, IsVisit, IsTurn, IsCall,
         Sales!Exists, Sales!VisitIsBooked
  <2>2. QED
      BY <1>1, <1>2, <2>1, VisitIsTold
<1>4. CASE /\ ~Sales!Exists
           /\ salesTurn' = [salesTurn EXCEPT !.at = "inserting"]
           /\ UNCHANGED <<visit, salesCall>>
  <2>1. salesTurn' = [at |-> "inserting", words |-> salesTurn.words, slot |-> salesTurn.slot,
                      told |-> "unspoken"]
      BY <1>1, <1>4 DEF VisitInv, VisitTyped, IsTurn, TurnKnows
  <2>2. calendar'.visits = {}
      BY <1>1, <1>4 DEF Sales!Exists
  <2>3. TurnKnows'
      BY <2>1, <2>2, TurnMoves
  <2>4. QED
      BY <1>1, <1>2, <1>4, <2>1, <2>3 DEF VisitInv, VisitTyped, IsCalendar, IsVisit,
         IsTurn, IsCall, CallKnows
<1>5. CASE Sales!Tell("unspoken") /\ UNCHANGED <<visit, salesCall>>
  <2>1. IsVisit(visit')
      BY <1>5 DEF VisitInv, VisitTyped, IsVisit
  <2>2. QED
      BY <1>1, <1>2, <1>5, <2>1, VisitIsTold
<1>6. QED
    BY <1>3, <1>4, <1>5 DEF Sales!FindExisting

\* The insert is the only one of the conversation, whether or not its answer arrives.
LEMMA InsertVisitKeepsVisit == ASSUME VisitInv, Sales!InsertVisit PROVE VisitInv'
<1> DEFINE c == salesTurn.slot
           refused == [visit EXCEPT !.attempts = @ + 1]
<1>1. /\ salesTurn # Sales!Idle /\ salesTurn.at = "inserting" /\ salesTurn.at # "model"
      /\ calendar.visits = {}
    BY DEF VisitInv, TurnKnows, Sales!InsertVisit
<1>2. refused = [phase |-> visit.phase, offered |-> visit.offered,
                 attempts |-> visit.attempts + 1]
    BY DEF VisitInv, VisitTyped, IsCalendar, IsVisit, IsTurn, IsCall
<1>3. CASE /\ calendar' = [free |-> calendar.free \ {c}, visits |-> calendar.visits \cup {c}]
           /\ Sales!VisitIsBooked \/ (Sales!Tell("unspoken") /\ UNCHANGED <<visit, salesCall>>)
  <2>1. /\ IsCalendar(calendar')
        /\ calendar'.visits = {c}
      BY <1>1, <1>3 DEF IsCalendar
  <2>2. OneVisit' /\ calendar'.visits # {}
      BY <2>1 DEF OneVisit
  <2>3. CASE Sales!VisitIsBooked
    <3>1. /\ IsVisit(visit')
          /\ salesCall' = [salesCall EXCEPT !.booked = TRUE] /\ Sales!Tell("booked")
        BY <2>3 DEF VisitInv, VisitTyped, IsCalendar, IsVisit, IsTurn, IsCall,
           Sales!VisitIsBooked
    <3>2. QED
        BY <1>1, <2>1, <2>2, <3>1, VisitIsTold
  <2>4. CASE Sales!Tell("unspoken") /\ UNCHANGED <<visit, salesCall>>
    <3>1. IsVisit(visit')
        BY <2>4 DEF VisitInv, VisitTyped, IsVisit
    <3>2. QED
        BY <1>1, <2>1, <2>2, <2>4, <3>1, VisitIsTold
  <2>5. QED
      BY <1>3, <2>3, <2>4
<1>4. CASE UNCHANGED calendar
  <2>1. /\ OneVisit' /\ IsCalendar(calendar')
        /\ calendar'.visits = {}
      BY <1>1, <1>4 DEF VisitInv, VisitTyped, IsCalendar, IsVisit, IsTurn, IsCall, OneVisit
  <2>2. CASE /\ visit' = [refused EXCEPT !.phase = "offered", !.offered = calendar.free]
             /\ Sales!Tell("not_booked") /\ UNCHANGED salesCall
    <3>1. visit' = [phase |-> "offered", offered |-> calendar.free,
                    attempts |-> visit.attempts + 1]
        BY <1>2, <2>2, Zenon
    <3>2. /\ IsVisit(visit')
          /\ visit'.phase = "offered"
        BY <3>1 DEF IsVisit
    <3>3. QED
        BY <1>1, <2>1, <2>2, <3>2, VisitIsTold
  <2>3. CASE /\ visit' = [refused EXCEPT !.phase = "failed"]
             /\ Sales!Tell("not_booked") /\ UNCHANGED salesCall
    <3>1. visit' = [phase |-> "failed", offered |-> visit.offered,
                    attempts |-> visit.attempts + 1]
        BY <1>2, <2>3, Zenon
    <3>2. /\ IsVisit(visit')
          /\ visit'.phase = "failed"
        BY <3>1 DEF IsVisit
    <3>3. QED
        BY <1>1, <2>1, <2>3, <3>2, VisitIsTold
  <2>4. CASE Sales!Tell("unspoken") /\ UNCHANGED <<visit, salesCall>>
    <3>1. /\ IsVisit(visit')
          /\ visit'.phase = visit.phase
        BY <2>4 DEF VisitInv, VisitTyped, IsVisit
    <3>2. QED
        BY <1>1, <2>1, <2>4, <3>1, VisitIsTold
  <2> HIDE DEF refused
  <2>5. QED
      BY <1>3, <2>2, <2>3, <2>4 DEF Sales!InsertVisit, refused
<1>5. QED
    BY <1>3, <1>4 DEF Sales!InsertVisit

\* A time that somebody else takes is no visit of this conversation.
LEMMA SlotIsTakenKeepsVisit == ASSUME VisitInv, Sales!SlotIsTaken PROVE VisitInv'
<1>1. PICK c : calendar' = [calendar EXCEPT !.free = @ \ {c}]
    BY DEF Sales!SlotIsTaken
<1>2. /\ IsCalendar(calendar')
      /\ calendar'.visits = calendar.visits /\ UNCHANGED <<visit, salesTurn, salesCall>>
    BY <1>1, Zenon
       DEF VisitInv, VisitTyped, IsCalendar, IsVisit, IsTurn, IsCall, Sales!SlotIsTaken
<1>3. QED
    BY <1>2, Zenon DEF VisitInv, VisitTyped, IsCalendar, IsVisit, IsTurn, IsCall, OneVisit,
       TurnKnows, CallKnows

\* The outcome is an appointment only of a call that has booked one.
LEMMA OutcomeIsBooked ==
    ASSUME NEW s, NEW transferred, NEW escalation,
           Sales!Outcome(s, transferred, escalation) = "appointment_booked"
    PROVE  salesCall.booked
<1> SUFFICES ASSUME ~salesCall.booked PROVE FALSE
    OBVIOUS
<1>1. CASE s.status \in {"do_not_call", "wrong_number"}
    BY <1>1 DEF Sales!Outcome
<1>2. CASE s.status \notin {"do_not_call", "wrong_number"}
    BY <1>2 DEF Sales!Outcome
<1>3. QED
    BY <1>1, <1>2

\* The end of the call keeps what was booked.
LEMMA CallEndsKeepsVisit == ASSUME VisitInv, Sales!CallEnds PROVE VisitInv'
<1>1. PICK transferred \in BOOLEAN, escalation \in BOOLEAN :
        salesCall' = [salesCall EXCEPT
            !.disposition = Sales!Outcome(snapshot, transferred, escalation),
            !.carried = Sales!NoWords]
    BY Zenon DEF Sales!CallEnds
<1> DEFINE outcome == Sales!Outcome(snapshot, transferred, escalation)
<1>2. outcome = "appointment_booked" => salesCall.booked
    BY OutcomeIsBooked
<1>3. salesCall' = [salesCall EXCEPT !.disposition = outcome, !.carried = Sales!NoWords]
    BY <1>1
<1> HIDE DEF outcome
<1>4. /\ IsCall(salesCall')
      /\ salesCall'.booked = salesCall.booked /\ salesCall'.disposition = outcome
    BY <1>3, Zenon DEF VisitInv, VisitTyped, IsCalendar, IsVisit, IsTurn, IsCall
<1>5. salesTurn' \in {Sales!Idle, salesTurn} /\ UNCHANGED <<visit, calendar>>
    BY DEF Sales!CallEnds
<1>6. CallKnows'
    BY <1>2, <1>4, <1>5 DEF VisitInv, CallKnows
<1>7. QED
    BY <1>4, <1>5, <1>6 DEF VisitInv, VisitTyped, IsCalendar, IsVisit, IsTurn, IsCall,
       OneVisit, TurnKnows

\* Every step keeps the invariant.
LEMMA StepsKeepVisit == VisitInv /\ [Sales!SalesNext]_salesVars => VisitInv'
<1> SUFFICES ASSUME VisitInv, [Sales!SalesNext]_salesVars PROVE VisitInv'
    OBVIOUS
<1>1. CASE UNCHANGED salesVars
    BY <1>1 DEF salesVars, VisitInv, VisitTyped, IsCalendar, IsVisit, IsTurn, IsCall,
       OneVisit, TurnKnows, CallKnows
<1>2. CASE Sales!SalesNext
    BY <1>2, TurnBeginsKeepsVisit, TurnLeavesKeepsVisit, ProvidersKeepVisit,
       OfferSlotsKeepsVisit, FindExistingKeepsVisit, InsertVisitKeepsVisit,
       SlotIsTakenKeepsVisit, CallEndsKeepsVisit DEF Sales!SalesNext
<1>3. QED
    BY <1>1, <1>2

\* The qualification call goes on at its own steps.
LEMMA InterviewOnly == MCNext => [Sales!SalesNext]_salesVars
BY DEF MCNext, Call, Reply, Interview, CustomerSync, Routing, Synthesizing, Hearing

\* "A repeated yes cannot double-book" (booking-step.ts:16): for any number of times, attempts
\* and turns, and wherever the answer of the scheduler is lost, a conversation has one visit
\* at most, and what is said of it, to the caller and on the record, is so.
THEOREM OneVisitAsTold == MCSpec => []VisitIsAsTold
<1>1. MCInit => VisitInv
    BY VisitStarts DEF MCInit
<1>2. VisitInv /\ [MCNext]_<<scope, vars, speechVars, salesVars, crmVars, providerVars>>
          => VisitInv'
    BY InterviewOnly, StepsKeepVisit
<1>3. VisitInv => VisitIsAsTold
    BY VisitInvImplies DEF VisitIsAsTold
<1>4. QED
    BY <1>1, <1>2, <1>3, PTL DEF MCSpec

-------------------------------------------------------------------------------
(* The answers of a qualification call.  Between two utterances no question  *)
(* is open whose answer is confirmed; while one is read, the question that   *)
(* was just confirmed may still be pending, until the next one is chosen.    *)

\* What is read back is an answer that nobody has confirmed.
AwaitsAnswer(s) ==
    s.awaiting # Sales!NoField =>
        Sales!Answered(s, s.awaiting) /\ ~s.fields[s.awaiting].confirmed

\* So is what is asked for, if it is known at all.
AsksForOpen(s) == s.pending # Sales!NoField => ~Sales!Confirmed(s, s.pending)

\* CriticalIsReadBack of one field.
ReadBack(s, f) ==
    Schema[f].confirm /\ Sales!Answered(s, f) /\ ~s.fields[f].confirmed =>
        \/ s.awaiting = f
        \/ s.attempts[f] >= Schema[f].maxAttempts
        \/ Sales!IsTerminal(s.status)

Midway(s) ==
    /\ s \in Sales!Snapshot
    /\ AwaitsAnswer(s)
    /\ s.awaiting # Sales!NoField => AsksForOpen(s)
    /\ Sales!IsTerminal(s.status) => s.pending = Sales!NoField
    /\ \A f \in Sales!Fields : ReadBack(s, f)

Sound(s) == Midway(s) /\ AsksForOpen(s)

\* What was confirmed is as it was.
Stands(s, t) ==
    \A f \in Sales!Fields : Sales!Confirmed(s, f) => t.fields[f] = s.fields[f]

\* What an answer may do to the field it is for, and to the call.
Answers(s, t, f) ==
    /\ t \in Sales!Snapshot
    /\ \A g \in Sales!Fields \ {f} :
          t.fields[g] = s.fields[g] /\ t.attempts[g] = s.attempts[g]
    /\ t.awaiting \in {Sales!NoField, f}
    /\ t.awaiting = f => Sales!Answered(t, f) /\ ~t.fields[f].confirmed
    /\ \/ t.status = s.status /\ t.pending = s.pending
       \/ t.status = "disqualified" /\ t.pending = Sales!NoField
    /\ ReadBack(t, f)

FieldValue == [value : Sales!Value \cup {"unknown"}, unit : BOOLEAN, confirmed : BOOLEAN]
                  \cup {Sales!NoValue}

\* What the snapshot of the engine holds.
LEMMA SnapshotIs ==
    /\ Sales!Snapshot =
          [fields : [Sales!Fields -> FieldValue], attempts : [Sales!Fields -> Nat],
           status : Sales!Status, pending : Sales!Fields \cup {Sales!NoField},
           awaiting : Sales!Fields \cup {Sales!NoField}, human : BOOLEAN,
           unresolved : SUBSET Sales!Fields]
    /\ Sales!NoField \notin Sales!Fields
BY SchemaIsParsed DEF Sales!Snapshot, FieldValue

\* The known, the questions and the calls that are over.
LEMMA TermsAre ==
    /\ Sales!NoValue \in FieldValue
    /\ Sales!Unknown \in FieldValue
    /\ \A v \in FieldValue : v # Sales!NoValue =>
          /\ v \in [value : Sales!Value \cup {"unknown"}, unit : BOOLEAN, confirmed : BOOLEAN]
          /\ [v EXCEPT !.confirmed = TRUE] \in FieldValue
          /\ [v EXCEPT !.confirmed = TRUE].confirmed
    /\ Sales!IsTerminal("disqualified")
    /\ "disqualified" \in Sales!Status
BY Zenon
   DEF FieldValue, Sales!NoValue, Sales!Unknown, Sales!Value, Sales!IsTerminal, Sales!Status

\* A reading that is taken for an answer is a value.
LEMMA TakenIs ==
    ASSUME NEW u \in Sales!Utterance, NEW f \in Sales!Fields, u.reads[f] # Sales!NoReading,
           NEW confirmed \in BOOLEAN
    PROVE  /\ Sales!Taken(u.reads[f], confirmed) \in FieldValue
           /\ Sales!Taken(u.reads[f], confirmed) \notin {Sales!NoValue, Sales!Unknown}
           /\ Sales!Taken(u.reads[f], confirmed).confirmed = confirmed
<1>1. u.reads[f] \in [value : Sales!Value, unit : BOOLEAN, sure : BOOLEAN]
    BY DEF Sales!Utterance, Sales!Reading
<1>2. QED
    BY <1>1 DEF Sales!Taken, FieldValue, Sales!Value, Sales!NoValue, Sales!Unknown

\* An answer leaves everything else alone.
LEMMA AnswersKeep ==
    ASSUME NEW s, NEW t, NEW f \in Sales!Fields, Sound(s), Answers(s, t, f),
           s.awaiting \in {Sales!NoField, f}, ~Sales!Confirmed(s, f),
           ~Sales!IsTerminal(s.status)
    PROVE  Midway(t) /\ Stands(s, t)
<1>1. Stands(s, t)
    BY DEF Answers, Stands
<1>2. AwaitsAnswer(t)
    BY DEF Answers, AwaitsAnswer
<1>3. t.awaiting # Sales!NoField => AsksForOpen(t)
  <2> SUFFICES ASSUME t.awaiting # Sales!NoField, t.pending # Sales!NoField
               PROVE  ~Sales!Confirmed(t, t.pending)
      BY DEF AsksForOpen
  <2>1. t.awaiting = f /\ ~Sales!Confirmed(t, f)
      BY DEF Answers, Sales!Confirmed
  <2>2. t.pending = s.pending /\ t.pending \in Sales!Fields
      BY SnapshotIs DEF Answers
  <2>3. ~Sales!Confirmed(s, s.pending)
      BY <2>2 DEF Sound, AsksForOpen
  <2>4. QED
      BY <2>1, <2>2, <2>3 DEF Answers, Sales!Confirmed, Sales!Answered
<1>4. Sales!IsTerminal(t.status) => t.pending = Sales!NoField
    BY DEF Answers
<1>5. ASSUME NEW g \in Sales!Fields PROVE ReadBack(t, g)
  <2>1. CASE g = f
      BY <2>1 DEF Answers
  <2>2. CASE g # f
    <3>1. ReadBack(s, g) /\ s.awaiting # g
        BY <2>2, SnapshotIs DEF Sound, Midway
    <3>2. t.fields[g] = s.fields[g] /\ t.attempts[g] = s.attempts[g]
        BY <2>2 DEF Answers
    <3>3. QED
        BY <3>1, <3>2 DEF ReadBack, Sales!Answered
  <2>3. QED
      BY <2>1, <2>2
<1>6. QED
    BY <1>1, <1>2, <1>3, <1>4, <1>5 DEF Midway, Answers

-------------------------------------------------------------------------------
(* The parts of applyUtterance.                                             *)

\* An attempt more, and perhaps an unresolved field.
LEMMA Bumped ==
    ASSUME NEW s \in Sales!Snapshot, NEW f \in Sales!Fields
    PROVE  LET t == Sales!BumpAttempt(s, f) IN
           /\ t \in Sales!Snapshot
           /\ t.fields = s.fields /\ t.status = s.status /\ t.pending = s.pending
           /\ t.awaiting = s.awaiting
           /\ \A g \in Sales!Fields \ {f} : t.attempts[g] = s.attempts[g]
<1> DEFINE n == s.attempts[f] + 1
           more == [s.attempts EXCEPT ![f] = n]
           lost == n >= Schema[f].maxAttempts /\ Schema[f].required /\ ~Sales!Answered(s, f)
           open == IF lost THEN s.unresolved \cup {f} ELSE s.unresolved
           t == Sales!BumpAttempt(s, f)
<1>1. t = [s EXCEPT !.attempts = more, !.unresolved = open]
    BY SnapshotIs DEF Sales!BumpAttempt
<1>2. more \in [Sales!Fields -> Nat] /\ \A g \in Sales!Fields \ {f} : more[g] = s.attempts[g]
    BY SnapshotIs
<1>3. open \in SUBSET Sales!Fields
    BY SnapshotIs
<1> HIDE DEF more, open, t
<1>4. /\ t \in Sales!Snapshot
      /\ t.fields = s.fields /\ t.status = s.status /\ t.pending = s.pending
      /\ t.awaiting = s.awaiting /\ t.attempts = more
    BY <1>1, <1>2, <1>3, SnapshotIs, Zenon
<1>5. QED
    BY <1>2, <1>4 DEF t

\* A value may end the call; it is kept.
LEMMA Disqualified ==
    ASSUME NEW s \in Sales!Snapshot, NEW f \in Sales!Fields
    PROVE  LET t == Sales!ApplyDisqualifier(s, f) IN
           /\ t \in Sales!Snapshot
           /\ t.fields = s.fields /\ t.attempts = s.attempts
           /\ \/ t = s
              \/ /\ t.status = "disqualified"
                 /\ t.pending = Sales!NoField /\ t.awaiting = Sales!NoField
BY SnapshotIs, TermsAre, Zenon DEF Sales!ApplyDisqualifier, Sales!Close

\* A field gets a value, and is read back or not.
With(s, f, v, w, r) == [s EXCEPT !.fields[f] = v, !.awaiting = w, !.unresolved = r]

LEMMA ValueIsSet ==
    ASSUME NEW s \in Sales!Snapshot, NEW f \in Sales!Fields, NEW v \in FieldValue,
           NEW w \in {Sales!NoField, f}, NEW r \in SUBSET Sales!Fields
    PROVE  LET t == With(s, f, v, w, r) IN
           /\ t \in Sales!Snapshot
           /\ t.fields[f] = v /\ t.awaiting = w /\ t.attempts = s.attempts
           /\ t.status = s.status /\ t.pending = s.pending
           /\ \A g \in Sales!Fields \ {f} : t.fields[g] = s.fields[g]
<1> DEFINE known == [s.fields EXCEPT ![f] = v]
           t == With(s, f, v, w, r)
<1>1. t = [s EXCEPT !.fields = known, !.awaiting = w, !.unresolved = r]
    BY SnapshotIs DEF With
<1>2. /\ known \in [Sales!Fields -> FieldValue] /\ known[f] = v
      /\ \A g \in Sales!Fields \ {f} : known[g] = s.fields[g]
    BY SnapshotIs
<1> HIDE DEF known, t
<1>3. /\ t \in Sales!Snapshot
      /\ t.fields = known /\ t.awaiting = w /\ t.attempts = s.attempts
      /\ t.status = s.status /\ t.pending = s.pending
    BY <1>1, <1>2, SnapshotIs, Zenon
<1>4. QED
    BY <1>2, <1>3 DEF t

\* A value that the caller confirmed, or that needs no confirmation, may end the call.
LEMMA ValueIsJudged ==
    ASSUME NEW s \in Sales!Snapshot, NEW f \in Sales!Fields, NEW v \in FieldValue,
           NEW r \in SUBSET Sales!Fields,
           Schema[f].confirm /\ v \notin {Sales!NoValue, Sales!Unknown} => v.confirmed
    PROVE  Answers(s, Sales!ApplyDisqualifier(With(s, f, v, Sales!NoField, r), f), f)
<1> DEFINE t == With(s, f, v, Sales!NoField, r)
           d == Sales!ApplyDisqualifier(t, f)
<1>1. /\ t \in Sales!Snapshot
      /\ t.fields[f] = v /\ t.awaiting = Sales!NoField /\ t.attempts = s.attempts
      /\ t.status = s.status /\ t.pending = s.pending
      /\ \A g \in Sales!Fields \ {f} : t.fields[g] = s.fields[g]
    BY ValueIsSet
<1> HIDE DEF t
<1>2. /\ d \in Sales!Snapshot
      /\ d.fields = t.fields /\ d.attempts = t.attempts
      /\ \/ d = t
         \/ /\ d.status = "disqualified"
            /\ d.pending = Sales!NoField /\ d.awaiting = Sales!NoField
    BY <1>1, Disqualified
<1> HIDE DEF d
<1>3. ReadBack(d, f)
    BY <1>1, <1>2 DEF ReadBack, Sales!Answered
<1>4. Answers(s, d, f)
    BY <1>1, <1>2, <1>3, SnapshotIs DEF Answers
<1>5. QED
    BY <1>4 DEF d, t

\* An answer that is asked for again stays open or has used up its attempts.
LEMMA IsAskedAgain ==
    ASSUME NEW s \in Sales!Snapshot, NEW f \in Sales!Fields, s.awaiting = f,
           Sales!Answered(s, f), ~s.fields[f].confirmed
    PROVE  Answers(s, Sales!AskAgain(s, f), f)
<1> DEFINE b == Sales!BumpAttempt(s, f)
           t == Sales!AskAgain(s, f)
<1>1. /\ b \in Sales!Snapshot
      /\ b.fields = s.fields /\ b.status = s.status /\ b.pending = s.pending
      /\ b.awaiting = f
      /\ \A g \in Sales!Fields \ {f} : b.attempts[g] = s.attempts[g]
    BY Bumped
<1>2. t = IF b.attempts[f] >= Schema[f].maxAttempts
          THEN [b EXCEPT !.awaiting = Sales!NoField] ELSE b
    BY DEF Sales!AskAgain
<1> HIDE DEF b, t
<1>3. /\ t \in Sales!Snapshot
      /\ t.fields = b.fields /\ t.status = b.status /\ t.pending = b.pending
      /\ t.attempts = b.attempts
      /\ \/ t.awaiting = f
         \/ t.awaiting = Sales!NoField /\ t.attempts[f] >= Schema[f].maxAttempts
    BY <1>1, <1>2, SnapshotIs
<1>4. ReadBack(t, f)
    BY <1>3 DEF ReadBack
<1>5. Answers(s, t, f)
    BY <1>1, <1>3, <1>4, SnapshotIs DEF Answers, Sales!Answered
<1>6. QED
    BY <1>5 DEF t

-------------------------------------------------------------------------------
(* One utterance.                                                           *)

\* An event "captured" is of a field that has a value.
Captures(result) ==
    /\ result = [snapshot |-> result.snapshot, captured |-> result.captured,
                 unspent |-> result.unspent]
    /\ result.captured # Sales!NoField =>
          /\ result.captured \in Sales!Fields
          /\ Sales!Answered(result.snapshot, result.captured)

Reads(s, result, f) ==
    /\ Answers(s, result.snapshot, f)
    /\ Captures(result)
    /\ result.unspent => result.snapshot.awaiting = Sales!NoField

\* The result of an answer: nothing captured, the field captured, or the utterance unspent.
LEMMA StepReads ==
    ASSUME NEW s, NEW t, NEW f, Answers(s, t, f)
    PROVE  Reads(s, Sales!Step(t), f)
BY DEF Reads, Captures, Sales!Step

LEMMA CaptureReads ==
    ASSUME NEW s, NEW t, NEW f \in Sales!Fields, Answers(s, t, f), Sales!Answered(t, f)
    PROVE  Reads(s, [Sales!Step(t) EXCEPT !.captured = f], f)
<1> DEFINE told == [Sales!Step(t) EXCEPT !.captured = f]
           no == FALSE
<1>1. Sales!Step(t) = [snapshot |-> t, captured |-> Sales!NoField, unspent |-> no]
    BY DEF Sales!Step
<1> HIDE DEF no
<1>2. told = [snapshot |-> t, captured |-> f, unspent |-> no]
    BY <1>1
<1> HIDE DEF told
<1>3. Reads(s, told, f)
    BY <1>2 DEF Reads, Captures, no
<1>4. QED
    BY <1>3 DEF told

LEMMA UnspentReads ==
    ASSUME NEW s, NEW t, NEW f, Answers(s, t, f), t.awaiting = Sales!NoField
    PROVE  Reads(s, [Sales!Step(t) EXCEPT !.unspent = TRUE], f)
<1> DEFINE no == FALSE
           yes == TRUE
           told == [Sales!Step(t) EXCEPT !.unspent = yes]
<1>1. Sales!Step(t) = [snapshot |-> t, captured |-> Sales!NoField, unspent |-> no]
    BY DEF Sales!Step
<1> HIDE DEF no, yes
<1>2. told = [snapshot |-> t, captured |-> Sales!NoField, unspent |-> yes]
    BY <1>1
<1> HIDE DEF told
<1>3. Reads(s, told, f)
    BY <1>2 DEF Reads, Captures, yes
<1>4. QED
    BY <1>3 DEF told, yes

\* The value that was held is one that can be confirmed.
LEMMA HeldIs ==
    ASSUME NEW s, Sound(s), s.awaiting # Sales!NoField
    PROVE  /\ s \in Sales!Snapshot
           /\ s.awaiting \in Sales!Fields
           /\ Sales!Answered(s, s.awaiting) /\ ~s.fields[s.awaiting].confirmed
           /\ s.fields[s.awaiting] \in FieldValue
           /\ [s.fields[s.awaiting] EXCEPT !.confirmed = TRUE] \in FieldValue
           /\ [s.fields[s.awaiting] EXCEPT !.confirmed = TRUE].confirmed
<1>1. /\ s \in Sales!Snapshot /\ s.awaiting \in Sales!Fields
      /\ Sales!Answered(s, s.awaiting) /\ ~s.fields[s.awaiting].confirmed
    BY SnapshotIs DEF Sound, Midway, AwaitsAnswer
<1>2. s.fields[s.awaiting] \in FieldValue /\ s.fields[s.awaiting] # Sales!NoValue
    BY <1>1, SnapshotIs DEF Sales!Answered
<1>3. QED
    BY <1>1, <1>2, TermsAre

\* A confirmed value is taken, and may end the call.
LEMMA ConfirmIsJudged ==
    ASSUME NEW s \in Sales!Snapshot, NEW f \in Sales!Fields, NEW v \in FieldValue,
    v.confirmed
    PROVE  Answers(s, Sales!Confirm(s, f, v), f)
<1>1. Sales!Release([s EXCEPT !.fields[f] = v]) = With(s, f, v, Sales!NoField, s.unresolved)
    BY SnapshotIs, Zenon DEF Sales!Release, With
<1>2. s.unresolved \in SUBSET Sales!Fields
    BY SnapshotIs
<1>3. QED
    BY <1>1, <1>2, ValueIsJudged DEF Sales!Confirm

\* The read-back is answered, in each of the ways of answerConfirmation.
LEMMA ConfirmationIsRead ==
    ASSUME NEW s, Sound(s), s.awaiting # Sales!NoField, NEW u \in Sales!Utterance
    PROVE  Reads(s, Sales!AnswerConfirmation(s, u), s.awaiting)
<1> DEFINE f == s.awaiting
           held == s.fields[f]
           reading == u.reads[f]
           yes == "affirm" \in u.intents /\ "deny" \notin u.intents
           no == "deny" \in u.intents
           energy == Schema[f].kind = "energy"
           clarified == energy /\ reading # Sales!NoReading /\ reading.unit /\ ~held.unit
           corrected == reading # Sales!NoReading /\ (no \/ Sales!Restatable(f))
           corrects == [s EXCEPT !.fields[f] = Sales!Taken(reading, FALSE)]
           A == Sales!AnswerConfirmation(s, u)
<1>1. /\ s \in Sales!Snapshot /\ f \in Sales!Fields
      /\ Sales!Answered(s, f) /\ ~s.fields[f].confirmed
      /\ held \in FieldValue
      /\ [held EXCEPT !.confirmed = TRUE] \in FieldValue
      /\ [held EXCEPT !.confirmed = TRUE].confirmed
    BY HeldIs
<1>2. s.unresolved \in SUBSET Sales!Fields
    BY <1>1, SnapshotIs
<1>3. clarified => corrected
    BY DEF Sales!Restatable
<1>4. A = CASE clarified -> Sales!Step(Sales!Confirm(s, f, Sales!Taken(reading, TRUE)))
            [] ~clarified /\ yes /\ (~energy \/ held.unit) ->
                  Sales!Step(Sales!Confirm(s, f, [held EXCEPT !.confirmed = TRUE]))
            [] ~clarified /\ yes /\ energy /\ ~held.unit -> Sales!Step(Sales!AskAgain(s, f))
            [] ~clarified /\ ~yes /\ corrected ->
                  [Sales!Step(IF Schema[f].confirm \/ ~reading.sure
                              THEN Sales!AskAgain(corrects, f)
                              ELSE Sales!ApplyDisqualifier(Sales!Release(corrects), f))
                   EXCEPT !.captured = f]
            [] ~yes /\ ~corrected /\ no ->
                  Sales!Step(Sales!BumpAttempt(
                      Sales!Release([s EXCEPT !.fields[f] = Sales!NoValue]), f))
            [] ~yes /\ ~corrected /\ ~no /\ ~Schema[f].confirm ->
                  [Sales!Step(Sales!ApplyDisqualifier(Sales!Release(s), f))
                   EXCEPT !.unspent = TRUE]
            [] OTHER -> Sales!Step(Sales!AskAgain(s, f))
    BY DEF Sales!AnswerConfirmation
<1> HIDE DEF A
<1>5. CASE clarified
  <2>1. A = Sales!Step(Sales!Confirm(s, f, Sales!Taken(reading, TRUE)))
      BY <1>3, <1>4, <1>5, Zenon
  <2>2. Answers(s, Sales!Confirm(s, f, Sales!Taken(reading, TRUE)), f)
      BY <1>1, <1>5, TakenIs, ConfirmIsJudged, Zenon
  <2>3. QED
      BY <2>1, <2>2, StepReads, Zenon DEF A
<1>6. CASE ~clarified /\ yes
  <2>1. CASE ~energy \/ held.unit
    <3>1. A = Sales!Step(Sales!Confirm(s, f, [held EXCEPT !.confirmed = TRUE]))
        BY <1>4, <1>6, <2>1, Zenon
    <3>2. Answers(s, Sales!Confirm(s, f, [held EXCEPT !.confirmed = TRUE]), f)
        BY <1>1, ConfirmIsJudged, Zenon
    <3>3. QED
        BY <3>1, <3>2, StepReads DEF A
  <2>2. CASE ~(~energy \/ held.unit)
    <3>1. A = Sales!Step(Sales!AskAgain(s, f))
        BY <1>4, <1>6, <2>2, Zenon
    <3>2. Answers(s, Sales!AskAgain(s, f), f)
        BY <1>1, IsAskedAgain
    <3>3. QED
        BY <3>1, <3>2, StepReads DEF A
  <2>3. QED
      BY <2>1, <2>2
<1>7. CASE ~clarified /\ ~yes /\ corrected
  <2> DEFINE v == Sales!Taken(reading, FALSE)
             after == IF Schema[f].confirm \/ ~reading.sure
                      THEN Sales!AskAgain(corrects, f)
                      ELSE Sales!ApplyDisqualifier(Sales!Release(corrects), f)
  <2>1. v \in FieldValue /\ v \notin {Sales!NoValue, Sales!Unknown} /\ ~v.confirmed
      BY <1>1, <1>7, TakenIs, Zenon
  <2>2. A = [Sales!Step(after) EXCEPT !.captured = f]
      BY <1>4, <1>7, Zenon
  <2>3. Answers(s, after, f) /\ after.fields[f] = v
    <3>1. CASE Schema[f].confirm \/ ~reading.sure
      <4>1. after = Sales!AskAgain(corrects, f)
          BY <3>1
      <4>2. corrects = With(s, f, v, f, s.unresolved)
          BY <1>1, SnapshotIs, Zenon DEF With
      <4> HIDE DEF v
      <4> DEFINE t == With(s, f, v, f, s.unresolved)
      <4>3. /\ t \in Sales!Snapshot
            /\ t.fields[f] = v /\ t.awaiting = f /\ t.attempts = s.attempts
            /\ t.status = s.status /\ t.pending = s.pending
            /\ \A g \in Sales!Fields \ {f} : t.fields[g] = s.fields[g]
          BY <1>1, <1>2, <2>1, ValueIsSet
      <4> HIDE DEF t
      <4>4. Answers(t, Sales!AskAgain(t, f), f)
          BY <1>1, <2>1, <4>3, IsAskedAgain DEF Sales!Answered
      <4>5. Sales!AskAgain(t, f).fields = t.fields
          BY <1>1, <4>3, Bumped, SnapshotIs DEF Sales!AskAgain
      <4> DEFINE again == Sales!AskAgain(t, f)
      <4> HIDE DEF again
      <4>6. Answers(s, again, f) /\ again.fields[f] = v
          BY <4>3, <4>4, <4>5 DEF Answers, again
      <4>7. QED
          BY <4>1, <4>2, <4>6, Zenon DEF t, again
    <3>2. CASE ~(Schema[f].confirm \/ ~reading.sure)
      <4>1. after = Sales!ApplyDisqualifier(Sales!Release(corrects), f)
          BY <3>2
      <4>2. Sales!Release(corrects) = With(s, f, v, Sales!NoField, s.unresolved)
          BY <1>1, SnapshotIs, Zenon DEF With, Sales!Release
      <4> HIDE DEF v
      <4> DEFINE t == With(s, f, v, Sales!NoField, s.unresolved)
      <4>3. t \in Sales!Snapshot /\ t.fields[f] = v
          BY <1>1, <1>2, <2>1, ValueIsSet
      <4>4. Answers(s, Sales!ApplyDisqualifier(t, f), f)
          BY <1>1, <1>2, <2>1, <3>2, ValueIsJudged
      <4> HIDE DEF t
      <4>5. Sales!ApplyDisqualifier(t, f).fields = t.fields
          BY <1>1, <4>3, Disqualified
      <4>6. QED
          BY <4>1, <4>2, <4>3, <4>4, <4>5, Zenon DEF t
    <3>3. QED
        BY <3>1, <3>2, Zenon
  <2> HIDE DEF after, v
  <2>4. Sales!Answered(after, f)
      BY <2>1, <2>3 DEF Sales!Answered
  <2>5. Reads(s, [Sales!Step(after) EXCEPT !.captured = f], f)
      BY <1>1, <2>3, <2>4, CaptureReads
  <2>6. QED
      BY <2>2, <2>5 DEF A
<1>8. CASE ~yes /\ ~corrected /\ no
  <2> DEFINE t == With(s, f, Sales!NoValue, Sales!NoField, s.unresolved)
             b == Sales!BumpAttempt(t, f)
  <2>1. A = Sales!Step(Sales!BumpAttempt(
                Sales!Release([s EXCEPT !.fields[f] = Sales!NoValue]), f))
      BY <1>3, <1>4, <1>8, Zenon
  <2>2. Sales!Release([s EXCEPT !.fields[f] = Sales!NoValue]) = t
      BY <1>1, SnapshotIs, Zenon DEF With, Sales!Release
  <2>3. /\ t \in Sales!Snapshot
        /\ t.fields[f] = Sales!NoValue /\ t.awaiting = Sales!NoField
        /\ t.attempts = s.attempts /\ t.status = s.status /\ t.pending = s.pending
        /\ \A g \in Sales!Fields \ {f} : t.fields[g] = s.fields[g]
      BY <1>1, <1>2, TermsAre, ValueIsSet
  <2>4. A = Sales!Step(b)
      BY <2>1, <2>2
  <2> HIDE DEF t
  <2>5. /\ b \in Sales!Snapshot
        /\ b.fields = t.fields /\ b.status = t.status /\ b.pending = t.pending
        /\ b.awaiting = t.awaiting
        /\ \A g \in Sales!Fields \ {f} : b.attempts[g] = t.attempts[g]
      BY <1>1, <2>3, Bumped
  <2> HIDE DEF b
  <2>6. Answers(s, b, f)
      BY <1>1, <2>3, <2>5, SnapshotIs DEF Answers, ReadBack, Sales!Answered
  <2>7. QED
      BY <2>4, <2>6, StepReads DEF A
<1>9. CASE ~yes /\ ~corrected /\ ~no /\ ~Schema[f].confirm
  <2> DEFINE t == Sales!Release(s)
             d == Sales!ApplyDisqualifier(t, f)
  <2>1. A = [Sales!Step(d) EXCEPT !.unspent = TRUE]
      BY <1>3, <1>4, <1>9, Zenon
  <2>2. /\ t \in Sales!Snapshot
        /\ t.fields = s.fields /\ t.awaiting = Sales!NoField
        /\ t.attempts = s.attempts /\ t.status = s.status /\ t.pending = s.pending
      BY <1>1, SnapshotIs DEF Sales!Release
  <2> HIDE DEF t
  <2>3. /\ d \in Sales!Snapshot
        /\ d.fields = t.fields /\ d.attempts = t.attempts
        /\ \/ d = t
           \/ /\ d.status = "disqualified"
              /\ d.pending = Sales!NoField /\ d.awaiting = Sales!NoField
      BY <1>1, <2>2, Disqualified
  <2> HIDE DEF d
  <2>4. Answers(s, d, f) /\ d.awaiting = Sales!NoField
      BY <1>1, <1>9, <2>2, <2>3, SnapshotIs DEF Answers, ReadBack
  <2>5. Reads(s, [Sales!Step(d) EXCEPT !.unspent = TRUE], f)
      BY <2>4, UnspentReads
  <2>6. QED
      BY <2>1, <2>5 DEF A
<1>10. CASE ~yes /\ ~corrected /\ ~no /\ Schema[f].confirm
  <2>1. A = Sales!Step(Sales!AskAgain(s, f))
      BY <1>3, <1>4, <1>10, Zenon
  <2>2. Answers(s, Sales!AskAgain(s, f), f)
      BY <1>1, IsAskedAgain
  <2>3. QED
      BY <2>1, <2>2, StepReads DEF A
<1>11. QED
    BY <1>3, <1>5, <1>6, <1>7, <1>8, <1>9, <1>10

\* The pending question is answered, or not understood.
LEMMA QuestionIsRead ==
    ASSUME NEW s, Sound(s), s.awaiting = Sales!NoField, s.pending # Sales!NoField,
           NEW u \in Sales!Utterance
    PROVE  Reads(s, Sales!AnswerQuestion(s, u), s.pending)
<1> DEFINE f == s.pending
           reading == u.reads[f]
           A == Sales!AnswerQuestion(s, u)
<1>1. /\ s \in Sales!Snapshot /\ f \in Sales!Fields
      /\ ~Sales!Confirmed(s, f) /\ s.awaiting # f
    BY SnapshotIs DEF Sound, Midway, AsksForOpen
<1>2. s.unresolved \in SUBSET Sales!Fields /\ ReadBack(s, f)
    BY <1>1, SnapshotIs DEF Sound, Midway
<1>3. CASE "dont_know" \in u.intents
  <2> DEFINE r == IF Schema[f].required THEN s.unresolved \cup {f} ELSE s.unresolved
             t == With(s, f, Sales!Unknown, Sales!NoField, r)
  <2>1. A = Sales!Step(t)
      BY <1>1, <1>3, SnapshotIs, Zenon DEF Sales!AnswerQuestion, With
  <2>2. r \in SUBSET Sales!Fields
      BY <1>1, <1>2
  <2> HIDE DEF r
  <2>3. /\ t \in Sales!Snapshot
        /\ t.fields[f] = Sales!Unknown /\ t.awaiting = Sales!NoField
        /\ t.attempts = s.attempts /\ t.status = s.status /\ t.pending = s.pending
        /\ \A g \in Sales!Fields \ {f} : t.fields[g] = s.fields[g]
      BY <1>1, <2>2, TermsAre, ValueIsSet
  <2> HIDE DEF t
  <2>4. Answers(s, t, f)
      BY <1>1, <2>3, SnapshotIs DEF Answers, ReadBack, Sales!Answered
  <2>5. QED
      BY <2>1, <2>4, StepReads
<1>4. CASE "dont_know" \notin u.intents /\ reading # Sales!NoReading
  <2> DEFINE v == Sales!Taken(reading, FALSE)
             r == s.unresolved \ {f}
             c == Sales!CaptureField(s, f, reading)
             asks == /\ Schema[f].confirm \/ ~reading.sure
                     /\ ~(Schema[f].kind = "words" /\ ~Schema[f].confirm)
             held == With(s, f, v, f, r)
             plain == With(s, f, v, Sales!NoField, r)
  <2>1. A = [Sales!Step(c) EXCEPT !.captured = f]
      BY <1>1, <1>4 DEF Sales!AnswerQuestion
  <2>2. c = IF asks THEN held ELSE Sales!ApplyDisqualifier(plain, f)
      BY <1>1, SnapshotIs, Zenon DEF Sales!CaptureField, With, Sound, Midway
  <2>3. r \in SUBSET Sales!Fields
      BY <1>2
  <2>4. v \in FieldValue /\ v \notin {Sales!NoValue, Sales!Unknown} /\ ~v.confirmed
      BY <1>1, <1>4, TakenIs, Zenon
  <2>5. ~asks => ~Schema[f].confirm
      OBVIOUS
  <2> HIDE DEF v, r, c, asks
  <2>6. Answers(s, c, f) /\ c.fields[f] = v
    <3>1. CASE asks
      <4>1. /\ held \in Sales!Snapshot
            /\ held.fields[f] = v /\ held.awaiting = f /\ held.attempts = s.attempts
            /\ held.status = s.status /\ held.pending = s.pending
            /\ \A g \in Sales!Fields \ {f} : held.fields[g] = s.fields[g]
          BY <1>1, <2>3, <2>4, ValueIsSet
      <4> HIDE DEF held
      <4>2. Answers(s, held, f)
          BY <1>1, <2>4, <4>1, SnapshotIs DEF Answers, ReadBack, Sales!Answered
      <4>3. QED
          BY <2>2, <3>1, <4>1, <4>2
    <3>2. CASE ~asks
      <4>1. plain \in Sales!Snapshot /\ plain.fields[f] = v
          BY <1>1, <2>3, <2>4, ValueIsSet
      <4>2. Answers(s, Sales!ApplyDisqualifier(plain, f), f)
          BY <1>1, <2>3, <2>4, <2>5, <3>2, ValueIsJudged
      <4> HIDE DEF plain
      <4>3. Sales!ApplyDisqualifier(plain, f).fields = plain.fields
          BY <1>1, <4>1, Disqualified
      <4>4. QED
          BY <2>2, <3>2, <4>1, <4>2, <4>3
    <3>3. QED
        BY <3>1, <3>2
  <2>7. Sales!Answered(c, f)
      BY <2>4, <2>6 DEF Sales!Answered
  <2>8. Reads(s, [Sales!Step(c) EXCEPT !.captured = f], f)
      BY <1>1, <2>6, <2>7, CaptureReads
  <2>9. QED
      BY <2>1, <2>8
<1>5. CASE "dont_know" \notin u.intents /\ reading = Sales!NoReading
  <2> DEFINE b == Sales!BumpAttempt(s, f)
  <2>1. A = Sales!Step(b)
      BY <1>1, <1>5, SnapshotIs DEF Sales!AnswerQuestion
  <2>2. /\ b \in Sales!Snapshot
        /\ b.fields = s.fields /\ b.status = s.status /\ b.pending = s.pending
        /\ b.awaiting = s.awaiting
        /\ \A g \in Sales!Fields \ {f} : b.attempts[g] = s.attempts[g]
      BY <1>1, Bumped
  <2>3. b.attempts[f] = s.attempts[f] + 1
      BY <1>1, SnapshotIs DEF Sales!BumpAttempt
  <2>4. s.attempts[f] \in Nat /\ Schema[f].maxAttempts \in Int
    <3>1. Schema[f].maxAttempts \in 1 .. 5
        BY <1>1, SchemaIsParsed DEF Sales!SchemaOK
    <3>2. QED
        BY <1>1, <3>1, SnapshotIs
  <2> HIDE DEF b
  <2>5. ReadBack(b, f)
      BY <1>1, <1>2, <2>2, <2>3, <2>4 DEF ReadBack, Sales!Answered
  <2>6. Answers(s, b, f)
      BY <1>1, <2>2, <2>5, SnapshotIs DEF Answers
  <2>7. QED
      BY <2>1, <2>6, StepReads
<1>6. QED
    BY <1>3, <1>4, <1>5

\* The next question is one that has no answer.
LEMMA NextIs ==
    ASSUME NEW s, Sales!NextField(s) # Sales!NoField
    PROVE  /\ Sales!NextField(s) \in Sales!Fields
           /\ s.fields[Sales!NextField(s)] = Sales!NoValue
<1> DEFINE open == {i \in 1 .. Len(Order) :
                       /\ s.fields[Order[i]] = Sales!NoValue
                       /\ Order[i] \notin s.unresolved
                       /\ s.attempts[Order[i]] < Schema[Order[i]].maxAttempts
                       /\ ~\E gate \in Schema[Order[i]].skip :
                              s.fields[gate[1]].value = gate[2]}
           first == CHOOSE i \in open : \A j \in open : i <= j
           R == {p \in Nat \X Nat : p[1] < p[2]}
<1>1. Sales!NextField(s) = IF open = {} THEN Sales!NoField ELSE Order[first]
    BY SMTT(30) DEF Sales!NextField
<1>2. open # {} /\ Sales!NextField(s) = Order[first]
    BY <1>1
<1>3. open \subseteq Nat
    BY SchemaIsParsed
<1>4. \E i \in open : \A j \in open : i <= j
  <2> HIDE DEF open, first
  <2>1. IsWellFoundedOn(R, Nat)
      BY NatLessThanWellFounded DEF OpToRel
  <2>2. PICK x \in open : \A y \in open : <<y, x>> \notin R
      BY <1>2, <1>3, <2>1, WFMin, Zenon
  <2>3. ASSUME NEW j \in open PROVE x <= j
    <3>1. <<j, x>> \notin R /\ j \in Nat /\ x \in Nat
        BY <1>3, <2>2
    <3>2. ~(j < x)
        BY <3>1
    <3>3. QED
        BY <3>1, <3>2
  <2>4. QED
      BY <2>2, <2>3
<1>5. first \in open
  <2> HIDE DEF open
  <2>1. QED
      BY <1>4
<1>6. first \in 1 .. Len(Order) /\ s.fields[Order[first]] = Sales!NoValue
    BY <1>5, Zenon
<1> HIDE DEF first
<1>7. QED
    BY <1>2, <1>6 DEF Sales!Fields

\* What stands over two steps stands.
LEMMA StandsOn ==
    ASSUME NEW s, NEW t, NEW u, Stands(s, t), Stands(t, u)
    PROVE  Stands(s, u)
BY DEF Stands, Sales!Confirmed, Sales!Answered

Asking(s, human, next, status) ==
    [s EXCEPT !.human = human, !.pending = next, !.status = status]

\* Another question is pending, or whether a person takes over is another matter.
LEMMA MovedOn ==
    ASSUME NEW s, Midway(s), NEW next \in Sales!Fields \cup {Sales!NoField},
           NEW status \in Sales!Status, NEW human \in BOOLEAN,
           Sales!IsTerminal(status) <=> Sales!IsTerminal(s.status),
           next # Sales!NoField => ~Sales!Confirmed(s, next),
           Sales!IsTerminal(status) => next = Sales!NoField
    PROVE  LET t == Asking(s, human, next, status) IN
           Sound(t) /\ t.fields = s.fields /\ t.awaiting = s.awaiting /\ t.status = status
<1> DEFINE t == Asking(s, human, next, status)
<1>1. s \in Sales!Snapshot
    BY DEF Midway
<1>2. /\ t \in Sales!Snapshot /\ t.fields = s.fields /\ t.attempts = s.attempts
      /\ t.awaiting = s.awaiting /\ t.status = status /\ t.pending = next
    BY <1>1, SnapshotIs, Zenon DEF Asking
<1> HIDE DEF t
<1>3. AwaitsAnswer(t) /\ AsksForOpen(t)
    BY <1>2 DEF Midway, AwaitsAnswer, AsksForOpen, Sales!Confirmed, Sales!Answered
<1>4. \A f \in Sales!Fields : ReadBack(t, f)
    BY <1>2 DEF Midway, ReadBack, Sales!Answered
<1>5. QED
    BY <1>2, <1>3, <1>4 DEF Sound, Midway, t

\* The call is over for the engine.
LEMMA Closed ==
    ASSUME NEW s \in Sales!Snapshot, NEW status \in Sales!Status, Sales!IsTerminal(status)
    PROVE  Sound(Sales!Close(s, status)) /\ Sales!Close(s, status).fields = s.fields
<1> DEFINE t == Sales!Close(s, status)
<1>1. /\ t \in Sales!Snapshot /\ t.fields = s.fields /\ t.status = status
      /\ t.awaiting = Sales!NoField /\ t.pending = Sales!NoField
    BY SnapshotIs, Zenon DEF Sales!Close
<1> HIDE DEF t
<1>2. Sound(t)
    BY <1>1 DEF Sound, Midway, AwaitsAnswer, AsksForOpen, ReadBack
<1>3. QED
    BY <1>1, <1>2 DEF t

\* The same, for a question or none.
LEMMA AnswerIsRead ==
    ASSUME NEW s, Sound(s), ~Sales!IsTerminal(s.status), s.awaiting = Sales!NoField,
           NEW u \in Sales!Utterance
    PROVE  LET result == Sales!AnswerQuestion(s, u) IN
           Midway(result.snapshot) /\ Stands(s, result.snapshot) /\ Captures(result)
<1>1. CASE s.pending = Sales!NoField
  <2>1. Sales!AnswerQuestion(s, u) = Sales!Step(s)
      BY <1>1, SnapshotIs DEF Sales!AnswerQuestion
  <2>2. QED
      BY <2>1 DEF Sales!Step, Sound, Stands, Captures
<1>2. CASE s.pending # Sales!NoField
  <2>1. Reads(s, Sales!AnswerQuestion(s, u), s.pending)
      BY <1>2, QuestionIsRead
  <2>2. s.pending \in Sales!Fields /\ ~Sales!Confirmed(s, s.pending)
      BY <1>2, SnapshotIs DEF Sound, Midway, AsksForOpen
  <2>3. QED
      BY <2>1, <2>2, AnswersKeep DEF Reads
<1>3. QED
    BY <1>1, <1>2

\* An utterance that does not answer the read-back may answer the next question.
LEMMA UtteranceIsRead ==
    ASSUME NEW s, Sound(s), ~Sales!IsTerminal(s.status), NEW u \in Sales!Utterance
    PROVE  LET result == Sales!Understand(s, u) IN
           Midway(result.snapshot) /\ Stands(s, result.snapshot) /\ Captures(result)
<1>1. CASE s.awaiting = Sales!NoField
  <2>1. Sales!Understand(s, u) = Sales!AnswerQuestion(s, u)
      BY <1>1 DEF Sales!Understand
  <2>2. QED
      BY <1>1, <2>1, AnswerIsRead
<1>2. CASE s.awaiting # Sales!NoField
  <2> DEFINE a == Sales!AnswerConfirmation(s, u)
             t == a.snapshot
             next == Sales!NextField(t)
             asked == [t EXCEPT !.pending = next]
  <2>1. Reads(s, a, s.awaiting)
      BY <1>2, ConfirmationIsRead
  <2>2. s.awaiting \in Sales!Fields /\ ~Sales!Confirmed(s, s.awaiting)
      BY <1>2, HeldIs, Zenon DEF Sales!Confirmed
  <2>3. Midway(t) /\ Stands(s, t) /\ Captures(a)
      BY <2>1, <2>2, AnswersKeep DEF Reads
  <2>4. Sales!Understand(s, u) = IF a.unspent /\ ~Sales!IsTerminal(t.status)
                                 THEN Sales!AnswerQuestion(asked, u) ELSE a
      BY <1>2 DEF Sales!Understand
  <2>5. a.unspent => t.awaiting = Sales!NoField
      BY <2>1 DEF Reads
  <2> HIDE DEF a
  <2>6. CASE a.unspent /\ ~Sales!IsTerminal(t.status)
    <3>1. t \in Sales!Snapshot
        BY <2>3 DEF Midway
    <3>2. asked = Asking(t, t.human, next, t.status)
        BY <3>1, SnapshotIs, Zenon DEF Asking
    <3>3. next \in Sales!Fields \cup {Sales!NoField}
        BY NextIs
    <3>4. next # Sales!NoField => ~Sales!Confirmed(t, next)
        BY NextIs DEF Sales!Confirmed, Sales!Answered
    <3>5. t.human \in BOOLEAN /\ t.status \in Sales!Status
        BY <3>1, SnapshotIs
    <3> HIDE DEF t, next
    <3>6. /\ Sound(asked) /\ asked.fields = t.fields /\ asked.awaiting = t.awaiting
          /\ asked.status = t.status
        BY <2>3, <2>6, <3>2, <3>3, <3>4, <3>5, MovedOn
    <3> HIDE DEF asked
    <3>7. Stands(s, asked)
        BY <2>3, <3>6 DEF Stands
    <3>8. LET result == Sales!AnswerQuestion(asked, u) IN
          Midway(result.snapshot) /\ Stands(asked, result.snapshot) /\ Captures(result)
        BY <2>5, <2>6, <3>6, AnswerIsRead
    <3>9. QED
        BY <2>4, <2>6, <3>7, <3>8, StandsOn
  <2>7. CASE ~(a.unspent /\ ~Sales!IsTerminal(t.status))
      BY <2>3, <2>4, <2>7
  <2>8. QED
      BY <2>6, <2>7
<1>3. QED
    BY <1>1, <1>2

\* Choosing the next question leaves no confirmed one pending.
LEMMA NextIsChosen ==
    ASSUME NEW s, Midway(s)
    PROVE  Sound(Sales!ChooseNext(s)) /\ Sales!ChooseNext(s).fields = s.fields
<1> DEFINE human == s.human \/ Sales!Cardinality(s.unresolved) >= MaxUnresolved
           t == [s EXCEPT !.human = human]
           next == Sales!NextField(t)
           status == IF next = Sales!NoField THEN "complete" ELSE s.status
<1>1. s \in Sales!Snapshot
    BY DEF Midway
<1>2. CASE Sales!IsTerminal(s.status)
    BY <1>2 DEF Sales!ChooseNext, Sound, Midway, AsksForOpen
<1>3. CASE ~Sales!IsTerminal(s.status)
  <2>1. human \in BOOLEAN
      BY <1>1, SnapshotIs
  <2>2. /\ s.status \in Sales!Status /\ s.pending \in Sales!Fields \cup {Sales!NoField}
        /\ status \in Sales!Status /\ ~Sales!IsTerminal(status)
      BY <1>1, <1>3, SnapshotIs DEF Sales!Status, Sales!IsTerminal
  <2>3. Sales!ChooseNext(s) =
            IF t.awaiting # Sales!NoField THEN t
            ELSE [t EXCEPT !.pending = next,
                           !.status = IF next = Sales!NoField THEN "complete" ELSE @]
      BY <1>3 DEF Sales!ChooseNext
  <2> HIDE DEF human
  <2>4. t.fields = s.fields /\ t.awaiting = s.awaiting
      BY <1>1, SnapshotIs
  <2>5. CASE s.awaiting # Sales!NoField
    <3>1. Sales!ChooseNext(s) = Asking(s, human, s.pending, s.status)
        BY <1>1, <2>3, <2>4, <2>5, SnapshotIs, Zenon DEF Asking
    <3>2. s.pending # Sales!NoField => ~Sales!Confirmed(s, s.pending)
        BY <2>5 DEF Midway, AsksForOpen
    <3>3. QED
        BY <1>3, <2>1, <2>2, <3>1, <3>2, MovedOn
  <2>6. CASE s.awaiting = Sales!NoField
    <3>1. Sales!ChooseNext(s) = Asking(s, human, next, status)
      <4> HIDE DEF next
      <4>1. QED
          BY <1>1, <2>3, <2>4, <2>6, SnapshotIs DEF Asking
    <3>2. next \in Sales!Fields \cup {Sales!NoField}
        BY NextIs
    <3>3. next # Sales!NoField => ~Sales!Confirmed(s, next)
        BY <2>4, NextIs, Zenon DEF Sales!Confirmed, Sales!Answered
    <3> HIDE DEF next, status
    <3>4. QED
        BY <1>3, <2>1, <2>2, <3>1, <3>2, <3>3, MovedOn
  <2>7. QED
      BY <2>5, <2>6
<1>4. QED
    BY <1>2, <1>3

\* applyUtterance, with what the caller wants of the call first.
LEMMA UtteranceIsApplied ==
    ASSUME NEW s, Sound(s), NEW u \in Sales!Utterance
    PROVE  LET result == Sales!ApplyUtterance(s, u) IN
           Sound(result.snapshot) /\ Stands(s, result.snapshot) /\ Captures(result)
<1> DEFINE human == s.human \/ "human" \in u.intents
           heard == [s EXCEPT !.human = human]
           a == Sales!Understand(heard, u)
           next == Sales!ChooseNext(a.snapshot)
           A == Sales!ApplyUtterance(s, u)
<1>1. s \in Sales!Snapshot
    BY DEF Sound, Midway
<1>2. A = IF Sales!IsTerminal(s.status) THEN Sales!Step(s)
          ELSE IF "do_not_call" \in u.intents THEN Sales!Step(Sales!Close(s, "do_not_call"))
          ELSE IF "wrong_number" \in u.intents THEN Sales!Step(Sales!Close(s,
          "wrong_number"))
          ELSE IF "call_back_later" \in u.intents
               THEN Sales!Step(Sales!Close(heard, "callback_requested"))
          ELSE [a EXCEPT !.snapshot = Sales!ChooseNext(@)]
    BY DEF Sales!ApplyUtterance
<1> HIDE DEF A
<1>3. human \in BOOLEAN
    BY <1>1, SnapshotIs
<1> HIDE DEF human
<1>4. Sound(heard) /\ heard.fields = s.fields /\ heard.status = s.status
  <2>1. heard = Asking(s, human, s.pending, s.status)
      BY <1>1, SnapshotIs, Zenon DEF Asking
  <2>2. /\ s.pending \in Sales!Fields \cup {Sales!NoField} /\ s.status \in Sales!Status
        /\ s.pending # Sales!NoField => ~Sales!Confirmed(s, s.pending)
        /\ Sales!IsTerminal(s.status) => s.pending = Sales!NoField
      BY <1>1, SnapshotIs DEF Sound, Midway, AsksForOpen
  <2>3. QED
      BY <1>3, <2>1, <2>2, MovedOn DEF Sound
<1>5. heard \in Sales!Snapshot
    BY <1>4 DEF Sound, Midway
<1> HIDE DEF heard
<1>6. \A t : Sound(t) /\ t.fields = s.fields =>
          LET result == Sales!Step(t) IN
          Sound(result.snapshot) /\ Stands(s, result.snapshot) /\ Captures(result)
    BY DEF Sales!Step, Captures, Stands
<1>7. /\ {"do_not_call", "wrong_number", "callback_requested"} \subseteq Sales!Status
      /\ Sales!IsTerminal("do_not_call") /\ Sales!IsTerminal("wrong_number")
      /\ Sales!IsTerminal("callback_requested")
    BY DEF Sales!Status, Sales!IsTerminal
<1>8. CASE Sales!IsTerminal(s.status)
  <2>1. A = Sales!Step(s)
      BY <1>2, <1>8
  <2>2. QED
      BY <1>6, <2>1 DEF A
<1>9. CASE A \in {Sales!Step(Sales!Close(s, "do_not_call")),
                  Sales!Step(Sales!Close(s, "wrong_number")),
                  Sales!Step(Sales!Close(heard, "callback_requested"))}
  <2>1. /\ Sound(Sales!Close(s, "do_not_call"))
        /\ Sales!Close(s, "do_not_call").fields = s.fields
        /\ Sound(Sales!Close(s, "wrong_number"))
        /\ Sales!Close(s, "wrong_number").fields = s.fields
        /\ Sound(Sales!Close(heard, "callback_requested"))
        /\ Sales!Close(heard, "callback_requested").fields = s.fields
      BY <1>1, <1>4, <1>5, <1>7, Closed
  <2>2. QED
      BY <1>6, <1>9, <2>1 DEF A
<1>10. CASE ~Sales!IsTerminal(s.status) /\ A = [a EXCEPT !.snapshot = Sales!ChooseNext(@)]
  <2>1. Midway(a.snapshot) /\ Stands(heard, a.snapshot) /\ Captures(a)
      BY <1>4, <1>10, UtteranceIsRead
  <2>2. Sound(next) /\ next.fields = a.snapshot.fields
      BY <2>1, NextIsChosen
  <2>3. Stands(s, next)
      BY <1>4, <2>1, <2>2 DEF Stands, Sales!Confirmed, Sales!Answered
  <2>4. A = [a EXCEPT !.snapshot = next]
      BY <1>10
  <2>5. a = [snapshot |-> a.snapshot, captured |-> a.captured, unspent |-> a.unspent]
      BY <2>1 DEF Captures
  <2> HIDE DEF a, next
  <2>6. A = [snapshot |-> next, captured |-> a.captured, unspent |-> a.unspent]
      BY <2>4, <2>5
  <2>7. Captures(A)
      BY <2>1, <2>2, <2>6 DEF Captures, Sales!Answered
  <2>8. QED
      BY <2>2, <2>3, <2>6, <2>7 DEF A
<1>11. QED
    BY <1>2, <1>8, <1>9, <1>10

\* What was captured from a poorly heard utterance is read back.
LEMMA PreparedIsSound ==
    ASSUME NEW s, Sound(s), NEW u \in Sales!Utterance, NEW poorlyHeard \in BOOLEAN
    PROVE  LET t == Sales!Prepare(s, u, poorlyHeard) IN Sound(t) /\ Stands(s, t)
<1> DEFINE a == Sales!ApplyUtterance(s, u)
           t == a.snapshot
           f == a.captured
           held == [t EXCEPT !.awaiting = f]
<1>1. Sound(t) /\ Stands(s, t) /\ Captures(a)
    BY UtteranceIsApplied
<1>2. Sales!Prepare(s, u, poorlyHeard) =
          IF /\ poorlyHeard
             /\ t.awaiting = Sales!NoField
             /\ f # Sales!NoField
             /\ ~t.fields[f].confirmed
          THEN held ELSE t
    BY DEF Sales!Prepare
<1>3. CASE t.awaiting = Sales!NoField /\ f # Sales!NoField /\ ~t.fields[f].confirmed
  <2>1. f \in Sales!Fields /\ Sales!Answered(t, f) /\ t \in Sales!Snapshot
      BY <1>1, <1>3 DEF Captures, Sound, Midway
  <2> HIDE DEF a
  <2>2. /\ held \in Sales!Snapshot /\ held.fields = t.fields /\ held.awaiting = f
        /\ held.attempts = t.attempts /\ held.status = t.status /\ held.pending = t.pending
      BY <2>1, SnapshotIs
  <2> HIDE DEF held
  <2>3. AwaitsAnswer(held) /\ AsksForOpen(held)
      BY <1>1, <1>3, <2>1, <2>2
         DEF Sound, AwaitsAnswer, AsksForOpen, Sales!Confirmed, Sales!Answered
  <2>4. \A g \in Sales!Fields : ReadBack(held, g)
      BY <1>1, <1>3, <2>2, SnapshotIs DEF Sound, Midway, ReadBack, Sales!Answered
  <2>5. Sound(held) /\ Stands(s, held)
      BY <1>1, <2>2, <2>3, <2>4 DEF Sound, Midway, Stands
  <2>6. QED
      BY <1>1, <1>2, <2>5
<1>4. CASE ~(t.awaiting = Sales!NoField /\ f # Sales!NoField /\ ~t.fields[f].confirmed)
    BY <1>1, <1>2, <1>4
<1>5. QED
    BY <1>3, <1>4

-------------------------------------------------------------------------------
(* The steps of the call.                                                   *)

\* Every turn carries words that the language pack can have answered.
WordsAreRead ==
    /\ salesCall.carried \in Sales!Utterance
    /\ salesTurn # Sales!Idle => salesTurn.words \in Sales!Utterance

InterviewInv == VisitInv /\ WordsAreRead /\ Sound(snapshot)

\* Nothing is known of a new call.
LEMMA InterviewStarts == Sales!SalesInit => InterviewInv
<1> SUFFICES ASSUME Sales!SalesInit PROVE InterviewInv
    OBVIOUS
<1>1. Sales!NoWords \in Sales!Utterance
    BY DEF Sales!NoWords, Sales!Utterance
<1>2. WordsAreRead
    BY <1>1 DEF Sales!SalesInit, WordsAreRead
<1>3. /\ snapshot \in Sales!Snapshot
      /\ snapshot.awaiting = Sales!NoField /\ snapshot.pending = Sales!NoField
      /\ \A f \in Sales!Fields : snapshot.fields[f] = Sales!NoValue
    BY SnapshotIs, TermsAre DEF Sales!SalesInit, Sales!EmptySnapshot, Sales!Status
<1>4. Sound(snapshot)
    BY <1>3 DEF Sound, Midway, AwaitsAnswer, AsksForOpen, ReadBack, Sales!Answered
<1>5. QED
    BY <1>2, <1>4, VisitStarts DEF InterviewInv

\* The customer record fills in what it holds, and asks for nothing.
LEMMA RestoredIsSound == ASSUME NEW known PROVE Sound(Sales!Restored(known))
<1> DEFINE v == [value |-> "plain", unit |-> FALSE, confirmed |-> TRUE]
           filled == [f \in Sales!Fields |-> IF f \in known THEN v ELSE Sales!NoValue]
           t == Sales!Restored(known)
<1>1. v \in FieldValue /\ v.confirmed
    BY DEF FieldValue, Sales!Value
<1> HIDE DEF v
<1>2. filled \in [Sales!Fields -> FieldValue]
    BY <1>1, TermsAre
<1>3. \A f \in Sales!Fields : filled[f] \in {v, Sales!NoValue}
    OBVIOUS
<1>4. t = [Sales!EmptySnapshot EXCEPT !.fields = filled]
    BY DEF Sales!Restored, v
<1> HIDE DEF filled, t
<1>5. /\ t \in Sales!Snapshot /\ t.fields = filled
      /\ t.awaiting = Sales!NoField /\ t.pending = Sales!NoField
    BY <1>2, <1>4, SnapshotIs, Zenon DEF Sales!EmptySnapshot, Sales!Status
<1>6. \A f \in Sales!Fields : ReadBack(t, f)
    BY <1>1, <1>3, <1>5 DEF ReadBack, Sales!Answered
<1>7. Sound(t)
    BY <1>5, <1>6 DEF Sound, Midway, AwaitsAnswer, AsksForOpen
<1>8. QED
    BY <1>7 DEF t

\* Words of two turns, read as one.
LEMMA MergedIsRead ==
    ASSUME NEW u \in Sales!Utterance, NEW v \in Sales!Utterance
    PROVE  Sales!Merged(u, v) \subseteq Sales!Utterance
<1> SUFFICES ASSUME NEW w \in Sales!Merged(u, v) PROVE w \in Sales!Utterance
    OBVIOUS
<1> DEFINE reads(first) ==
        [f \in Sales!Fields |->
            IF Sales!NoReading \in {u.reads[f], v.reads[f]}
            THEN IF u.reads[f] = Sales!NoReading THEN v.reads[f] ELSE u.reads[f]
            ELSE IF f \in first THEN u.reads[f] ELSE v.reads[f]]
<1>1. PICK first \in SUBSET Sales!Fields :
          w = [intents |-> u.intents \cup v.intents, reads |-> reads(first),
               picks |-> u.picks \/ v.picks, time |-> u.time \/ v.time]
    BY DEF Sales!Merged
<1>2. /\ u.intents \in SUBSET Sales!Intent /\ v.intents \in SUBSET Sales!Intent
      /\ u.reads \in [Sales!Fields -> Sales!Reading \cup {Sales!NoReading}]
      /\ v.reads \in [Sales!Fields -> Sales!Reading \cup {Sales!NoReading}]
      /\ u.picks \in BOOLEAN /\ v.picks \in BOOLEAN /\ u.time \in BOOLEAN /\ v.time \in BOOLEAN
    BY DEF Sales!Utterance
<1>3. reads(first) \in [Sales!Fields -> Sales!Reading \cup {Sales!NoReading}]
    BY <1>2
<1> DEFINE both == reads(first)
           picks == u.picks \/ v.picks
           time == u.time \/ v.time
           intents == u.intents \cup v.intents
<1>4. picks \in BOOLEAN /\ time \in BOOLEAN /\ intents \in SUBSET Sales!Intent
    BY <1>2
<1>5. /\ both \in [Sales!Fields -> Sales!Reading \cup {Sales!NoReading}]
      /\ w = [intents |-> intents, reads |-> both, picks |-> picks, time |-> time]
    BY <1>1, <1>3
<1> HIDE DEF both, picks, time, intents
<1>6. QED
    BY <1>4, <1>5 DEF Sales!Utterance

\* The engine reads the words of the turn, after the customer record or without it.
LEMMA ProvidersRead ==
    ASSUME InterviewInv, Sales!Providers
    PROVE  Sound(snapshot') /\ (loaded' = loaded => Stands(snapshot, snapshot'))
<1>1. PICK k \in Sales!KnownCustomer, poorlyHeard \in BOOLEAN :
          /\ snapshot' = Sales!Prepare(k.snapshot, salesTurn.words, poorlyHeard)
          /\ loaded' = k.loaded
    BY Zenon DEF Sales!Providers
<1>2. Sound(k.snapshot) /\ (k.loaded = loaded => k.snapshot = snapshot)
  <2>1. CASE k.snapshot = snapshot
      BY <2>1 DEF InterviewInv
  <2>2. CASE k.snapshot # snapshot
    <3>1. /\ ~loaded
          /\ k \in {[snapshot |-> Sales!Restored(known), loaded |-> TRUE] : known \in Known}
        BY <2>2 DEF Sales!KnownCustomer
    <3>2. PICK known \in Known : k = [snapshot |-> Sales!Restored(known), loaded |-> TRUE]
        BY <3>1
    <3>3. QED
        BY <3>1, <3>2, RestoredIsSound, Zenon
  <2>3. QED
      BY <2>1, <2>2
<1>3. salesTurn.words \in Sales!Utterance
    BY Zenon DEF Sales!Providers, InterviewInv, WordsAreRead
<1>4. Sound(snapshot') /\ Stands(k.snapshot, snapshot')
    BY <1>1, <1>2, <1>3, PreparedIsSound
<1>5. QED
    BY <1>1, <1>2, <1>4

\* Every step of a turn keeps its words, and a cancelled turn leaves them to the next.
LEMMA StepsKeepWords ==
    ASSUME InterviewInv, Sales!SalesNext
    PROVE  WordsAreRead'
<1>0. /\ VisitTyped /\ WordsAreRead
      /\ Sales!NoWords \in Sales!Utterance
    BY DEF InterviewInv, VisitInv, Sales!NoWords, Sales!Utterance
<1>1. ASSUME NEW u \in Utterances, Sales!TurnBegins(u) PROVE WordsAreRead'
  <2>1. PICK words \in Sales!Merged(salesCall.carried, u) :
            salesTurn' = [at |-> "context", words |-> words, slot |-> Sales!NoSlot,
                          told |-> "unspoken"]
      BY <1>1 DEF Sales!TurnBegins
  <2>2. words \in Sales!Utterance
      BY <1>0, MergedIsRead, SchemaIsParsed DEF WordsAreRead
  <2>3. salesCall' = [salesCall EXCEPT !.carried = Sales!NoWords]
      BY <1>1 DEF Sales!TurnBegins
  <2>4. QED
      BY <1>0, <2>1, <2>2, <2>3 DEF WordsAreRead, VisitTyped, IsCalendar, IsVisit, IsTurn,
         IsCall
<1>2. CASE Sales!TurnIsCancelled \/ Sales!TurnEnds
    BY <1>0, <1>2 DEF Sales!TurnIsCancelled, Sales!TurnEnds, WordsAreRead, VisitTyped,
       IsCalendar, IsVisit, IsTurn, IsCall
<1>3. CASE \/ Sales!Providers \/ Sales!OfferSlots \/ Sales!FindExisting
           \/ Sales!InsertVisit \/ Sales!SlotIsTaken
  <2>1. salesCall' \in {salesCall, [salesCall EXCEPT !.booked = TRUE]}
      BY <1>3, Zenon
         DEF Sales!Providers, Sales!OfferSlots, Sales!FindExisting, Sales!InsertVisit,
         Sales!SlotIsTaken, Sales!VisitIsBooked
  <2>2. salesTurn # Sales!Idle
      BY <1>3, Zenon
         DEF Sales!Providers, Sales!OfferSlots, Sales!FindExisting, Sales!InsertVisit,
         Sales!SlotIsTaken
  <2>3. salesTurn'.words = salesTurn.words
    <3>1. CASE Sales!Providers
        BY <1>0, <2>2, <3>1, Zenon
           DEF Sales!Providers, VisitTyped, IsCalendar, IsVisit, IsTurn,
           IsCall
    <3>2. CASE Sales!OfferSlots \/ Sales!FindExisting \/ Sales!InsertVisit \/ Sales!SlotIsTaken
        BY <1>0, <2>2, <3>2, Zenon
           DEF Sales!OfferSlots, Sales!FindExisting, Sales!InsertVisit,
           Sales!SlotIsTaken, Sales!VisitIsBooked, Sales!Tell, VisitTyped, IsCalendar,
           IsVisit, IsTurn, IsCall
    <3>3. QED
        BY <1>3, <3>1, <3>2
  <2>4. salesCall'.carried = salesCall.carried
      BY <1>0, <2>1 DEF VisitTyped, IsCalendar, IsVisit, IsTurn, IsCall
  <2>5. QED
      BY <1>0, <2>2, <2>3, <2>4 DEF WordsAreRead
<1>4. CASE Sales!CallEnds
  <2>1. salesTurn' \in {Sales!Idle, salesTurn} /\ salesCall'.carried = Sales!NoWords
      BY <1>0, <1>4 DEF Sales!CallEnds, VisitTyped, IsCalendar, IsVisit, IsTurn, IsCall
  <2>2. QED
      BY <1>0, <2>1 DEF WordsAreRead
<1>5. QED
    BY <1>1, <1>2, <1>3, <1>4 DEF Sales!SalesNext

\* Every step keeps the invariant, and what was confirmed unless the record is read.
LEMMA StepsKeepInterview ==
    InterviewInv /\ [Sales!SalesNext]_salesVars
        => InterviewInv' /\ (loaded' = loaded => Stands(snapshot, snapshot'))
<1> SUFFICES ASSUME InterviewInv, [Sales!SalesNext]_salesVars
             PROVE  InterviewInv' /\ (loaded' = loaded => Stands(snapshot, snapshot'))
    OBVIOUS
<1>1. VisitInv'
    BY StepsKeepVisit DEF InterviewInv
<1>2. CASE UNCHANGED salesVars
    BY <1>1, <1>2 DEF salesVars, InterviewInv, WordsAreRead, Stands
<1>3. CASE Sales!SalesNext
  <2>1. WordsAreRead'
      BY <1>3, StepsKeepWords
  <2>2. Sound(snapshot') /\ (loaded' = loaded => Stands(snapshot, snapshot'))
    <3>1. CASE Sales!Providers
        BY <3>1, ProvidersRead
    <3>2. CASE ~Sales!Providers
      <4>1. UNCHANGED snapshot
          BY <1>3, <3>2, Zenon DEF Sales!SalesNext, Sales!TurnBegins, Sales!TurnIsCancelled,
             Sales!TurnEnds, Sales!OfferSlots, Sales!FindExisting, Sales!InsertVisit,
             Sales!SlotIsTaken, Sales!CallEnds
      <4>2. QED
          BY <4>1 DEF InterviewInv, Stands
    <3>3. QED
        BY <3>1, <3>2
  <2>3. QED
      BY <1>1, <2>1, <2>2 DEF InterviewInv
<1>4. QED
    BY <1>2, <1>3

\* The invariant of the qualification call.
LEMMA InterviewIsKept == MCSpec => []InterviewInv
<1>1. MCInit => InterviewInv
    BY InterviewStarts DEF MCInit
<1>2. InterviewInv /\ [MCNext]_<<scope, vars, speechVars, salesVars, crmVars, providerVars>>
          => InterviewInv'
    BY InterviewOnly, StepsKeepInterview
<1>3. QED
    BY <1>1, <1>2, PTL DEF MCSpec

\* For every schema, whatever is said and misheard, over however many turns, the value of a
\* field that the schema wants confirmed has been confirmed, is being read back or was asked
\* for as often as the schema allows, or the call is over (engine.ts).
THEOREM ConfirmFieldsAreReadBack == MCSpec => []CriticalIsReadBack
<1>1. InterviewInv => CriticalIsReadBack
    BY DEF InterviewInv, Sound, Midway, ReadBack, CriticalIsReadBack,
       Sales!CriticalIsReadBack
<1>2. QED
    BY <1>1, InterviewIsKept, PTL

\* For every schema, no utterance changes what was confirmed; only the customer record does,
\* when it is read late (engine.ts, sales-call.ts:140).
THEOREM NoUtteranceUnconfirms == MCSpec => UtterancesKeepConfirmed
<1>1. InterviewInv /\ [MCNext]_<<scope, vars, speechVars, salesVars, crmVars, providerVars>>
          => [\A f \in Sales!Fields :
                 Sales!Confirmed(snapshot, f) /\ loaded' = loaded
                     => snapshot'.fields[f] = snapshot.fields[f]]_salesVars
    BY InterviewOnly, StepsKeepInterview DEF Stands
<1>2. QED
    BY <1>1, InterviewIsKept, PTL DEF MCSpec, UtterancesKeepConfirmed, Sales!UtterancesKeepConfirmed,
       Sales!salesVars, salesVars

-------------------------------------------------------------------------------
(* The totals of the customers.  The sum over a set of rows, in whatever      *)
(* order the fold takes them, is the last of the running sums over the table *)
(* in which every other row weighs nothing; and a running sum changes by     *)
(* what one row of it does.                                                  *)

\* p is the running sum of the first n weights.
IsRunning(p, w, n) ==
    /\ p \in [0 .. n -> Nat]
    /\ p[0] = 0
    /\ \A i \in 1 .. n : p[i] = p[i - 1] + w[i]

\* There is one for every weights.
LEMMA RunningExists ==
    ASSUME NEW n \in Nat, NEW w \in [1 .. n -> Nat]
    PROVE  \E p : IsRunning(p, w, n)
<1> DEFINE T == {m \in Nat : m <= n => \E p : IsRunning(p, w, m)}
<1>1. 0 \in T
  <2> DEFINE p == [i \in 0 .. 0 |-> 0]
  <2>1. IsRunning(p, w, 0)
      BY DEF IsRunning
  <2>2. QED
      BY <2>1
<1>2. ASSUME NEW m \in Nat, m \in T PROVE m + 1 \in T
  <2> SUFFICES ASSUME m + 1 <= n PROVE \E p : IsRunning(p, w, m + 1)
      OBVIOUS
  <2>1. PICK p : IsRunning(p, w, m)
      BY <1>2
  <2> DEFINE q == [i \in 0 .. m + 1 |-> IF i = m + 1 THEN p[m] + w[m + 1] ELSE p[i]]
  <2>2. w[m + 1] \in Nat /\ p \in [0 .. m -> Nat] /\ p[m] \in Nat
      BY <2>1 DEF IsRunning
  <2>3. q \in [0 .. m + 1 -> Nat]
      BY <2>2
  <2>4. q[0] = 0 /\ q[m + 1] = q[m] + w[m + 1]
      BY <2>1, <2>2 DEF IsRunning
  <2>5. ASSUME NEW i \in 1 .. m PROVE q[i] = q[i - 1] + w[i]
    <3>1. p[i] = p[i - 1] + w[i]
        BY <2>1 DEF IsRunning
    <3>2. q[i] = p[i] /\ q[i - 1] = p[i - 1]
        OBVIOUS
    <3>3. QED
        BY <3>1, <3>2
  <2> HIDE DEF q
  <2>6. ASSUME NEW i \in 1 .. m + 1 PROVE q[i] = q[i - 1] + w[i]
    <3>1. CASE i = m + 1
      <4>1. i - 1 = m
          BY <3>1
      <4>2. QED
          BY <2>4, <3>1, <4>1
    <3>2. CASE i # m + 1
      <4>1. i \in 1 .. m
          BY <3>2
      <4>2. QED
          BY <2>5, <4>1
    <3>3. QED
        BY <3>1, <3>2
  <2>7. IsRunning(q, w, m + 1)
      BY <2>3, <2>4, <2>6 DEF IsRunning
  <2>8. QED
      BY <2>7
<1> HIDE DEF T
<1>3. n \in T
    BY <1>1, <1>2, Induction, Zenon
<1>4. QED
    BY <1>3 DEF T

LEMMA Shifted ==
    ASSUME NEW a \in Nat, NEW b \in Nat, NEW c \in Nat, NEW d \in Nat, NEW e \in Nat,
           a + b = c + d
    PROVE  (a + e) + b = (c + e) + d
OBVIOUS

\* Two running sums differ by as much as the one row in which their weights differ.
LEMMA RunningsDiffer ==
    ASSUME NEW n \in Nat, NEW w \in [1 .. n -> Nat], NEW v \in [1 .. n -> Nat],
           NEW p, NEW q, IsRunning(p, w, n), IsRunning(q, v, n),
           NEW k \in 1 .. n, \A i \in 1 .. n : i # k => v[i] = w[i]
    PROVE  q[n] + w[k] = p[n] + v[k]
<1> DEFINE T == {m \in Nat : m <= n => IF m < k THEN q[m] = p[m]
                                      ELSE q[m] + w[k] = p[m] + v[k]}
<1>1. 0 \in T
    BY DEF IsRunning
<1>2. ASSUME NEW m \in Nat, m \in T PROVE m + 1 \in T
  <2> SUFFICES ASSUME m + 1 <= n
               PROVE  IF m + 1 < k THEN q[m + 1] = p[m + 1]
                      ELSE q[m + 1] + w[k] = p[m + 1] + v[k]
      OBVIOUS
  <2>1. q[m + 1] = q[m] + v[m + 1] /\ p[m + 1] = p[m] + w[m + 1]
      BY DEF IsRunning
  <2>2. /\ q[m] \in Nat /\ p[m] \in Nat
        /\ v[m + 1] \in Nat /\ w[m + 1] \in Nat /\ w[k] \in Nat /\ v[k] \in Nat
      BY DEF IsRunning
  <2>3. IF m < k THEN q[m] = p[m] ELSE q[m] + w[k] = p[m] + v[k]
      BY <1>2
  <2>4. m + 1 # k => v[m + 1] = w[m + 1]
      OBVIOUS
  <2> HIDE DEF T
  <2>5. CASE m + 1 < k
      BY <2>1, <2>3, <2>4, <2>5
  <2>6. CASE m + 1 = k
    <3>1. q[m] = p[m] /\ w[k] = w[m + 1] /\ v[k] = v[m + 1]
        BY <2>3, <2>6, SMTT(30)
    <3>2. q[m + 1] + w[k] = p[m + 1] + v[k]
        BY <2>1, <2>2, <3>1
    <3>3. QED
        BY <2>6, <3>2
  <2>7. CASE m + 1 > k
    <3> DEFINE a == q[m]
               b == w[k]
               c == p[m]
               d == v[k]
               e == v[m + 1]
    <3>1. a + b = c + d
        BY <2>3, <2>7
    <3>2. a \in Nat /\ b \in Nat /\ c \in Nat /\ d \in Nat /\ e \in Nat
        BY <2>2
    <3>3. e = w[m + 1]
        BY <2>4, <2>7
    <3>4. q[m + 1] = a + e /\ p[m + 1] = c + e
        BY <2>1, <3>3
    <3> HIDE DEF a, b, c, d, e
    <3>5. (a + e) + b = (c + e) + d
        BY ONLY <3>1, <3>2, Shifted
    <3>6. q[m + 1] + b = p[m + 1] + d
        BY <3>4, <3>5
    <3>7. QED
        BY <2>7, <3>6 DEF b, d
  <2>8. QED
      BY <2>5, <2>6, <2>7
<1> HIDE DEF T
<1>3. n \in T
    BY <1>1, <1>2, Induction, Zenon
<1>4. QED
    BY <1>3 DEF T

\* Equal weights have equal running sums, as far as they go.
LEMMA RunningsAgree ==
    ASSUME NEW n \in Nat, NEW m \in 0 .. n, NEW w, NEW v, NEW p, NEW q,
           IsRunning(p, w, n), IsRunning(q, v, m), \A i \in 1 .. m : v[i] = w[i]
    PROVE  q[m] = p[m]
<1> DEFINE T == {i \in Nat : i <= m => q[i] = p[i]}
<1>1. 0 \in T
    BY DEF IsRunning
<1>2. ASSUME NEW i \in Nat, i \in T PROVE i + 1 \in T
  <2> SUFFICES ASSUME i + 1 <= m PROVE q[i + 1] = p[i + 1]
      OBVIOUS
  <2>1. q[i + 1] = q[i] + v[i + 1] /\ p[i + 1] = p[i] + w[i + 1]
      BY DEF IsRunning
  <2>2. q[i] = p[i] /\ v[i + 1] = w[i + 1]
      BY <1>2
  <2>3. QED
      BY <2>1, <2>2
<1> HIDE DEF T
<1>3. m \in T
    BY <1>1, <1>2, Induction
<1>4. QED
    BY <1>3 DEF T

\* What the rows of a set weigh.
Weights(rows, S) == [i \in 1 .. Len(rows) |-> IF i \in S THEN rows[i].total ELSE 0]

LiveRows(rows) == {i \in 1 .. Len(rows) : rows[i].merged = 0}

SumOf(rows, S) == (CHOOSE p : IsRunning(p, Weights(rows, S), Len(rows)))[Len(rows)]

LEMMA WeightsType ==
    ASSUME NEW rows \in Seq(Crm!Customer), NEW S
    PROVE  /\ Len(rows) \in Nat
           /\ Weights(rows, S) \in [1 .. Len(rows) -> Nat]
           /\ \A i \in 1 .. Len(rows) : rows[i] \in Crm!Customer /\ rows[i].total \in Nat
<1>1. \A i \in 1 .. Len(rows) : rows[i] \in Crm!Customer
    OBVIOUS
<1>2. \A i \in 1 .. Len(rows) : rows[i].total \in Nat
    BY <1>1 DEF Crm!Customer
<1>3. \A i \in 1 .. Len(rows) : (IF i \in S THEN rows[i].total ELSE 0) \in Nat
    BY <1>2
<1>4. QED
    BY <1>1, <1>2, <1>3 DEF Weights

LEMMA SumHas ==
    ASSUME NEW rows \in Seq(Crm!Customer), NEW S
    PROVE  \E p : IsRunning(p, Weights(rows, S), Len(rows))
BY WeightsType, RunningExists, Zenon

\* The sum is that of the running sums.
LEMMA SumIs ==
    ASSUME NEW rows \in Seq(Crm!Customer), NEW S,
           NEW p, IsRunning(p, Weights(rows, S), Len(rows))
    PROVE  SumOf(rows, S) = p[Len(rows)]
<1> DEFINE w == Weights(rows, S)
           n == Len(rows)
           q == CHOOSE r : IsRunning(r, w, n)
<1>1. n \in Nat /\ n \in 0 .. n /\ IsRunning(p, w, n)
    BY WeightsType
<1>2. SumOf(rows, S) = q[n]
    BY DEF SumOf
<1> HIDE DEF w, n
<1>3. IsRunning(q, w, n)
    BY <1>1
<1> HIDE DEF q
<1>4. q[n] = p[n]
    BY <1>1, <1>3, RunningsAgree
<1>5. QED
    BY <1>2, <1>4 DEF n

LEMMA SumType ==
    ASSUME NEW rows \in Seq(Crm!Customer), NEW S
    PROVE  SumOf(rows, S) \in Nat
<1>1. PICK p : IsRunning(p, Weights(rows, S), Len(rows))
    BY SumHas
<1>2. p[Len(rows)] \in Nat
    BY <1>1, WeightsType DEF IsRunning
<1>3. QED
    BY <1>1, <1>2, SumIs

\* Nothing weighs nothing.
LEMMA SumOfNone ==
    ASSUME NEW rows \in Seq(Crm!Customer)
    PROVE  SumOf(rows, {}) = 0
<1> DEFINE p == [i \in 0 .. Len(rows) |-> 0]
<1>1. IsRunning(p, Weights(rows, {}), Len(rows))
  <2>1. Len(rows) \in Nat
      OBVIOUS
  <2>2. \A i \in 1 .. Len(rows) : Weights(rows, {})[i] = 0
      BY DEF Weights
  <2>3. p \in [0 .. Len(rows) -> Nat] /\ p[0] = 0
      BY <2>1
  <2>4. \A i \in 1 .. Len(rows) : p[i] = 0 /\ p[i - 1] = 0
      BY <2>1
  <2> HIDE DEF p
  <2>5. QED
      BY <2>2, <2>3, <2>4 DEF IsRunning
<1>2. p[Len(rows)] = 0
    OBVIOUS
<1> HIDE DEF p
<1>3. QED
    BY <1>1, <1>2, SumIs

\* But for row k, the rows of R in one table have the totals of those of S in the other.
AlikeBut(k, rows, S, after, R) ==
    /\ Len(after) = Len(rows)
    /\ \A i \in 1 .. Len(rows) :
           i # k => (i \in R <=> i \in S) /\ after[i].total = rows[i].total

\* One row of a table changes, or is counted no more.
LEMMA SumChanges ==
    ASSUME NEW rows \in Seq(Crm!Customer), NEW after \in Seq(Crm!Customer), NEW S, NEW R,
           NEW k \in 1 .. Len(rows), AlikeBut(k, rows, S, after, R)
    PROVE  SumOf(after, R) + Weights(rows, S)[k] = SumOf(rows, S) + Weights(after, R)[k]
<1> DEFINE n == Len(rows)
           w == Weights(rows, S)
           v == Weights(after, R)
<1>1. PICK p : IsRunning(p, w, n)
    BY SumHas
<1>2. PICK q : IsRunning(q, v, n)
    BY SumHas, Zenon DEF AlikeBut
<1>3. /\ n \in Nat /\ w \in [1 .. n -> Nat] /\ v \in [1 .. n -> Nat] /\ k \in 1 .. n
      /\ SumOf(rows, S) = p[n] /\ SumOf(after, R) = q[n]
    BY <1>1, <1>2, SumIs, WeightsType DEF AlikeBut
<1>4. \A i \in 1 .. n : i # k => v[i] = w[i]
    BY DEF Weights, AlikeBut
<1> HIDE DEF n, w, v
<1>5. q[n] + w[k] = p[n] + v[k]
  <2>1. k \in 1 .. n /\ n \in Nat
      BY <1>3
  <2>2. \A i \in 1 .. n : i # k => v[i] = w[i]
      BY <1>4
  <2>3. QED
      BY ONLY <1>1, <1>2, <1>3, <2>1, <2>2, RunningsDiffer, ZenonT(60)
<1>6. QED
    BY <1>3, <1>5 DEF w, v

\* A row is added.
LEMMA SumGrows ==
    ASSUME NEW rows \in Seq(Crm!Customer), NEW row \in Crm!Customer, NEW S, NEW R,
           \A i \in 1 .. Len(rows) : i \in R <=> i \in S,
           Len(rows) + 1 \in R => row.total = 0
    PROVE  SumOf(Append(rows, row), R) = SumOf(rows, S)
<1> DEFINE n == Len(rows)
           after == Append(rows, row)
           w == Weights(rows, S)
           v == Weights(after, R)
<1>0. n \in Nat /\ after \in Seq(Crm!Customer) /\ Len(after) = n + 1
    OBVIOUS
<1>1. PICK p : IsRunning(p, w, n)
    BY SumHas
<1>2. PICK q : IsRunning(q, v, n + 1)
    BY <1>0, SumHas, Zenon
<1>3. SumOf(rows, S) = p[n] /\ SumOf(after, R) = q[n + 1]
    BY <1>0, <1>1, <1>2, SumIs, Zenon
<1>4. \A i \in 1 .. n : w[i] = v[i]
    BY <1>0 DEF Weights
<1>5. v[n + 1] = 0
    BY <1>0 DEF Weights
<1> HIDE DEF n, after, w, v
<1>6. p[n] = q[n]
    BY <1>0, <1>1, <1>2, <1>4, RunningsAgree
<1>7. q[n + 1] = q[n] + 0 /\ q[n] \in Nat
    BY <1>0, <1>2, <1>5 DEF IsRunning
<1>8. QED
    BY <1>3, <1>6, <1>7 DEF after

\* The fold of Counted, over the sets of rows.
Fold(rows, S) ==
    CHOOSE iter : iter = [s \in SUBSET S |->
        IF s = {} THEN 0 ELSE LET x == CHOOSE x \in s : TRUE
                              IN  rows[x].total + iter[s \ {x}]]

LEMMA CountedIs == Crm!Counted = Fold(customers, Crm!Live)[Crm!Live]
BY Zenon DEF Fold, Crm!Counted, Crm!MapThenSumSet, Crm!MapThenFoldSet

\* It is the sum.
LEMMA FoldIsSum ==
    ASSUME NEW rows \in Seq(Crm!Customer)
    PROVE  Fold(rows, LiveRows(rows))[LiveRows(rows)] = SumOf(rows, LiveRows(rows))
<1> DEFINE S == LiveRows(rows)
           sum == [s \in SUBSET S |-> SumOf(rows, s)]
           Unfolds(iter) ==
               iter = [s \in SUBSET S |->
                          IF s = {} THEN 0
                          ELSE rows[CHOOSE x \in s : TRUE].total
                                   + iter[s \ {CHOOSE x \in s : TRUE}]]
<1>1. S \subseteq 1 .. Len(rows) /\ Len(rows) \in Nat
    BY DEF LiveRows
<1> HIDE DEF S
<1>2. ASSUME NEW s \in SUBSET S, s # {}, NEW x \in s
      PROVE  SumOf(rows, s) = rows[x].total + SumOf(rows, s \ {x})
  <2>1. x \in 1 .. Len(rows)
      BY <1>1
  <2>2. SumOf(rows, s) + Weights(rows, s \ {x})[x]
            = SumOf(rows, s \ {x}) + Weights(rows, s)[x]
    <3>1. AlikeBut(x, rows, s \ {x}, rows, s)
        BY DEF AlikeBut
    <3>2. QED
        BY <2>1, <3>1, SumChanges
  <2>3. Weights(rows, s \ {x})[x] = 0 /\ Weights(rows, s)[x] = rows[x].total
      BY <1>2, <2>1 DEF Weights
  <2>4. /\ SumOf(rows, s) \in Nat /\ SumOf(rows, s \ {x}) \in Nat
        /\ rows[x].total \in Nat
      BY <2>1, SumType, WeightsType
  <2>5. QED
      BY <2>2, <2>3, <2>4
<1>3. Unfolds(sum)
  <2>1. ASSUME NEW s \in SUBSET S
        PROVE  sum[s] = IF s = {} THEN 0
                        ELSE rows[CHOOSE x \in s : TRUE].total
                                 + sum[s \ {CHOOSE x \in s : TRUE}]
    <3>1. CASE s = {}
        BY <3>1, SumOfNone
    <3>2. CASE s # {}
      <4> DEFINE x == CHOOSE x \in s : TRUE
      <4>1. x \in s
          BY <3>2
      <4> HIDE DEF x
      <4>2. s \ {x} \in SUBSET S
          OBVIOUS
      <4>3. sum[s] = rows[x].total + sum[s \ {x}]
          BY <1>2, <3>2, <4>1, <4>2
      <4>4. QED
          BY <3>2, <4>3 DEF x
    <3>3. QED
        BY <3>1, <3>2
  <2>2. sum = [s \in SUBSET S |-> sum[s]]
      OBVIOUS
  <2> HIDE DEF sum
  <2>3. QED
      BY <2>1, <2>2, Zenon
<1> DEFINE iter == Fold(rows, S)
<1>4. Unfolds(iter)
  <2>1. iter = CHOOSE f : Unfolds(f)
      BY DEF Fold
  <2> HIDE DEF iter, sum, Unfolds
  <2>2. QED
      BY <1>3, <2>1
<1>5. IsFiniteSet(S)
  <2>1. IsFiniteSet(1 .. Len(rows))
      BY <1>1, FS_Interval
  <2>2. QED
      BY <1>1, <2>1, FS_Subset, Zenon
<1> DEFINE T == {n \in Nat : \A s \in SUBSET S : Cardinality(s) = n => iter[s] = SumOf(rows, s)}
<1>6. 0 \in T
  <2>1. ASSUME NEW s \in SUBSET S, Cardinality(s) = 0 PROVE iter[s] = SumOf(rows, s)
    <3>1. s = {}
        BY <1>5, <2>1, FS_Subset, FS_EmptySet
    <3> HIDE DEF iter
    <3>2. iter[s] = 0
        BY <1>4, <3>1
    <3>3. QED
        BY <3>1, <3>2, SumOfNone
  <2>2. QED
      BY <2>1
<1>7. ASSUME NEW n \in Nat, n \in T PROVE n + 1 \in T
  <2>1. ASSUME NEW s \in SUBSET S, Cardinality(s) = n + 1 PROVE iter[s] = SumOf(rows, s)
    <3> DEFINE x == CHOOSE x \in s : TRUE
    <3>1. IsFiniteSet(s) /\ s # {}
        BY <1>5, <2>1, FS_Subset, FS_EmptySet
    <3>2. x \in s
        BY <3>1
    <3>3. iter[s] = rows[x].total + iter[s \ {x}]
      <4> HIDE DEF iter
      <4>1. QED
          BY <1>4, <3>1, Zenon
    <3> HIDE DEF x, iter
    <3>4. Cardinality(s \ {x}) = n
      <4>1. Cardinality(s \ {x}) = Cardinality(s) - 1
          BY <3>1, <3>2, FS_RemoveElement, Zenon
      <4>2. QED
          BY <2>1, <4>1
    <3>5. iter[s \ {x}] = SumOf(rows, s \ {x})
        BY <1>7, <3>4
    <3>6. QED
        BY <1>2, <3>1, <3>2, <3>3, <3>5
  <2>2. QED
      BY <2>1
<1> HIDE DEF T, iter, sum, Unfolds
<1>8. Cardinality(S) \in T
    BY <1>5, <1>6, <1>7, Induction, FS_CardinalityType
<1>9. QED
    BY <1>8 DEF T, S, iter

-------------------------------------------------------------------------------
(* The built-in CRM.  What an event knows of a row is what the row holds, as   *)
(* events are taken one at a time; between the first and the last statement  *)
(* of a merge, the total of the row that goes is counted twice.              *)

\* What an event may know of a customer.
Copies == [id : Nat \ {0}, row : Crm!Customer] \cup {Crm!NoCopy}

Merging == {"repoint", "mark"}

SyncSteps == {"insert", "merge", "patch", "entry", "count", "note"} \cup Merging

Syncs == [pc : SyncSteps, email : Emails \cup {NoContact}, phone : Phones \cup {NoContact},
          visit : BOOLEAN, customer : Copies, loser : Copies]

CrmTyped ==
    /\ customers \in Seq(Crm!Customer)
    /\ visits \in Nat /\ faulty \in BOOLEAN
    /\ sync \in Syncs \cup {Crm!Idle}

\* The copy of a row that counts holds what the row does.
IsTrueCopy(copy) == copy.id \in Crm!Live /\ copy = Crm!CopyOf(copy.id)

KnowsItsRows ==
    sync # Crm!Idle =>
        /\ sync.pc # "insert" => IsTrueCopy(sync.customer)
        /\ sync.pc \in Merging \cup {"merge"} =>
               IsTrueCopy(sync.loser) /\ sync.loser.id # sync.customer.id

EntriesCount ==
    /\ timeline \subseteq Crm!Live
    /\ sync.pc = "mark" => sync.loser.id \notin timeline

\* What is counted twice.
Twice == IF sync.pc \in Merging THEN sync.loser.row.total ELSE 0

TotalsHold ==
    /\ Crm!Counted >= visits + Twice
    /\ ~faulty => Crm!Counted = visits + Twice

CrmInv == CrmTyped /\ KnowsItsRows /\ EntriesCount /\ TotalsHold


\* The rows that count, and their total.
LEMMA TotalIs ==
    /\ Crm!Live = LiveRows(customers)
    /\ customers \in Seq(Crm!Customer) => Crm!Counted = SumOf(customers, LiveRows(customers))
BY CountedIs, FoldIsSum DEF Crm!Live, Crm!Ids, LiveRows

LEMMA TotalIsNext ==
    customers' \in Seq(Crm!Customer)
        => Crm!Counted' = SumOf(customers', LiveRows(customers'))
<1>1. Crm!Live' = LiveRows(customers')
    BY DEF Crm!Live, Crm!Ids, LiveRows
<1>2. Crm!Counted' = Fold(customers', Crm!Live')[Crm!Live']
    BY Zenon DEF Fold, Crm!Counted, Crm!MapThenSumSet, Crm!MapThenFoldSet
<1>3. QED
    BY <1>1, <1>2, FoldIsSum

\* One row of a table is another.
Rewrites(k, row, rows, after) ==
    /\ after \in Seq(Crm!Customer)
    /\ Len(after) = Len(rows)
    /\ \A i \in 1 .. Len(rows) : after[i] = IF i = k THEN row ELSE rows[i]

\* A row that counts is written, and counts.
LEMMA WritingChanges ==
    ASSUME NEW rows \in Seq(Crm!Customer), NEW k \in LiveRows(rows),
           NEW row \in Crm!Customer, row.merged = 0,
           NEW after, Rewrites(k, row, rows, after)
    PROVE  /\ LiveRows(after) = LiveRows(rows)
           /\ \A i \in LiveRows(rows) : after[i] = IF i = k THEN row ELSE rows[i]
           /\ SumOf(after, LiveRows(after)) + rows[k].total
                  = SumOf(rows, LiveRows(rows)) + row.total
<1>1. /\ after \in Seq(Crm!Customer) /\ Len(after) = Len(rows) /\ k \in 1 .. Len(rows)
      /\ \A i \in 1 .. Len(rows) : after[i] = IF i = k THEN row ELSE rows[i]
    BY DEF LiveRows, Rewrites
<1>2. LiveRows(after) = LiveRows(rows)
    BY <1>1, Zenon DEF LiveRows
<1>3. \A i \in LiveRows(rows) : after[i] = IF i = k THEN row ELSE rows[i]
    BY <1>1 DEF LiveRows
<1> DEFINE S == LiveRows(rows)
<1>4. /\ Weights(rows, S)[k] = rows[k].total
      /\ Weights(after, S)[k] = row.total
    BY <1>1 DEF Weights
<1>5. AlikeBut(k, rows, S, after, S)
    BY <1>1 DEF AlikeBut
<1> HIDE DEF S
<1>6. SumOf(after, S) + Weights(rows, S)[k] = SumOf(rows, S) + Weights(after, S)[k]
    BY ONLY <1>1, <1>5, rows \in Seq(Crm!Customer), SumChanges
<1>7. QED
    BY <1>1, <1>2, <1>3, <1>4, <1>6 DEF S

LEMMA Stamped ==
    ASSUME NEW r \in Crm!Customer, NEW keeper \in Nat
    PROVE  LET row == [email |-> r.email, phone |-> r.phone, total |-> r.total,
                       merged |-> keeper]
           IN  /\ [r EXCEPT !.merged = keeper] = row /\ row \in Crm!Customer
               /\ [r EXCEPT !.merged = keeper] \in Crm!Customer
               /\ row.merged = keeper /\ row.total = r.total
BY DEF Crm!Customer

\* A row that was merged counts no more.
LEMMA MarkingChanges ==
    ASSUME NEW rows \in Seq(Crm!Customer), NEW k \in LiveRows(rows), NEW keeper \in Nat \ {0},
           NEW after, Rewrites(k, [rows[k] EXCEPT !.merged = keeper], rows, after)
    PROVE  /\ LiveRows(after) = LiveRows(rows) \ {k}
           /\ \A i \in LiveRows(after) : after[i] = rows[i]
           /\ SumOf(after, LiveRows(after)) + rows[k].total = SumOf(rows, LiveRows(rows))
           /\ SumOf(after, LiveRows(after)) \in Nat
<1>1. k \in 1 .. Len(rows) /\ rows[k] \in Crm!Customer
    BY DEF LiveRows
<1> DEFINE row == [email |-> rows[k].email, phone |-> rows[k].phone,
                   total |-> rows[k].total, merged |-> keeper]
<1>2. /\ [rows[k] EXCEPT !.merged = keeper] = row /\ row \in Crm!Customer
      /\ row.merged = keeper /\ row.total = rows[k].total
    BY <1>1, Stamped
<1> HIDE DEF row
<1>3. /\ after \in Seq(Crm!Customer) /\ Len(after) = Len(rows)
      /\ \A i \in 1 .. Len(rows) : after[i] = IF i = k THEN row ELSE rows[i]
    BY <1>2, Zenon DEF Rewrites
<1>4. LiveRows(after) = LiveRows(rows) \ {k}
    BY <1>1, <1>2, <1>3 DEF LiveRows
<1>5. \A i \in LiveRows(after) : after[i] = rows[i]
    BY <1>3, <1>4 DEF LiveRows
<1> DEFINE S == LiveRows(rows)
           R == LiveRows(after)
<1>6. Weights(rows, S)[k] = rows[k].total /\ Weights(after, R)[k] = 0
    BY <1>1, <1>3, <1>4 DEF Weights
<1>7. AlikeBut(k, rows, S, after, R)
    BY <1>3, <1>4 DEF AlikeBut
<1> HIDE DEF S, R
<1>8. SumOf(after, R) + Weights(rows, S)[k] = SumOf(rows, S) + Weights(after, R)[k]
    BY ONLY <1>1, <1>3, <1>7, rows \in Seq(Crm!Customer), SumChanges
<1>9. SumOf(after, R) \in Nat /\ SumOf(rows, S) \in Nat
    BY <1>3, SumType
<1>10. SumOf(after, R) + rows[k].total = SumOf(rows, S)
    BY <1>6, <1>8, <1>9
<1>11. QED
    BY <1>3, <1>4, <1>5, <1>9, <1>10 DEF S, R

\* A row is inserted, and counts.
LEMMA InsertingChanges ==
    ASSUME NEW rows \in Seq(Crm!Customer), NEW row \in Crm!Customer,
           row.merged = 0, row.total = 0
    PROVE  /\ Append(rows, row) \in Seq(Crm!Customer)
           /\ LiveRows(Append(rows, row)) = LiveRows(rows) \cup {Len(rows) + 1}
           /\ Append(rows, row)[Len(rows) + 1] = row
           /\ SumOf(Append(rows, row), LiveRows(Append(rows, row)))
                  = SumOf(rows, LiveRows(rows))
<1> DEFINE after == Append(rows, row)
<1>1. /\ after \in Seq(Crm!Customer) /\ Len(rows) \in Nat /\ Len(after) = Len(rows) + 1
      /\ after[Len(rows) + 1] = row
      /\ \A i \in 1 .. Len(rows) : after[i] = rows[i]
    OBVIOUS
<1> HIDE DEF after
<1>2. LiveRows(after) = LiveRows(rows) \cup {Len(rows) + 1}
    BY <1>1 DEF LiveRows
<1>3. \A i \in 1 .. Len(rows) : i \in LiveRows(after) <=> i \in LiveRows(rows)
    BY <1>1, <1>2
<1>4. SumOf(after, LiveRows(after)) = SumOf(rows, LiveRows(rows))
    BY <1>3, SumGrows DEF after
<1>5. QED
    BY <1>1, <1>2, <1>4 DEF after

LEMMA CrmStarts == Crm!CrmInit => CrmInv
<1> SUFFICES ASSUME Crm!CrmInit PROVE CrmInv
    OBVIOUS
<1>1. /\ customers = <<>> /\ timeline = {} /\ visits = 0 /\ faulty = FALSE
      /\ sync = Crm!Idle /\ sync.pc = "idle"
    BY DEF Crm!CrmInit, Crm!Idle
<1>2. customers \in Seq(Crm!Customer) /\ LiveRows(customers) = {}
    BY <1>1 DEF LiveRows
<1>3. Crm!Counted = 0
    BY <1>2, TotalIs, SumOfNone
<1>4. CrmTyped /\ KnowsItsRows /\ EntriesCount
    BY <1>1, <1>2, Zenon DEF CrmTyped, KnowsItsRows, EntriesCount
<1>5. TotalsHold
    BY <1>1, <1>3 DEF TotalsHold, Twice, Merging
<1>6. QED
    BY <1>4, <1>5 DEF CrmInv

\* What is known of a true copy.
LEMMA TrueCopy ==
    ASSUME CrmTyped, NEW copy, IsTrueCopy(copy)
    PROVE  /\ copy.id \in LiveRows(customers) /\ copy.id \in Nat \ {0}
           /\ copy.row = customers[copy.id]
           /\ copy.row \in Crm!Customer /\ copy.row.merged = 0 /\ copy.row.total \in Nat
           /\ copy \in Copies /\ copy = [id |-> copy.id, row |-> copy.row]
<1>1. copy.id \in LiveRows(customers) /\ copy = [id |-> copy.id, row |-> customers[copy.id]]
    BY TotalIs DEF IsTrueCopy, Crm!CopyOf
<1>2. /\ copy.id \in 1 .. Len(customers) /\ Len(customers) \in Nat
      /\ customers[copy.id].merged = 0 /\ customers[copy.id] \in Crm!Customer
    BY <1>1 DEF LiveRows, CrmTyped
<1>3. copy.row = customers[copy.id] /\ copy.row.total \in Nat
    BY <1>1, <1>2 DEF Crm!Customer
<1>4. QED
    BY <1>1, <1>2, <1>3 DEF Copies

\* The next statement begins with what the last one knew.
LEMMA Proceeds ==
    ASSUME sync \in Syncs, NEW pc \in SyncSteps, NEW copy \in Copies, Crm!Proceed(pc, copy)
    PROVE  /\ sync' \in Syncs /\ sync'.pc = pc /\ sync'.customer = copy
           /\ sync'.loser = sync.loser
BY Zenon DEF Syncs, Crm!Proceed

\* An event that is being taken in.
LEMMA InHand ==
    ASSUME CrmInv, sync.pc \in SyncSteps
    PROVE  sync \in Syncs /\ sync # Crm!Idle
BY DEF CrmInv, CrmTyped, Crm!Idle, SyncSteps, Merging

\* The row that an event is about is written.
LEMMA WritesRow ==
    ASSUME CrmInv, sync \in Syncs, IsTrueCopy(sync.customer),
           NEW row \in Crm!Customer, row.merged = 0, Crm!Written(row),
           NEW pc \in SyncSteps, Crm!Proceed(pc, [sync.customer EXCEPT !.row = row])
    PROVE  /\ customers' \in Seq(Crm!Customer) /\ Crm!Live' = Crm!Live
           /\ sync' \in Syncs /\ sync'.pc = pc /\ sync'.loser = sync.loser
           /\ sync'.customer.id = sync.customer.id
           /\ IsTrueCopy(sync.customer)'
           /\ IsTrueCopy(sync.loser) /\ sync.loser.id # sync.customer.id
                  => IsTrueCopy(sync.loser)'
           /\ Crm!Counted \in Nat /\ Crm!Counted' \in Nat
           /\ Crm!Counted' + sync.customer.row.total = Crm!Counted + row.total
<1> DEFINE k == sync.customer.id
           old == sync.customer.row
<1>1. /\ k \in LiveRows(customers) /\ k \in Nat \ {0} /\ old = customers[k]
      /\ sync.customer = [id |-> k, row |-> old]
    BY TrueCopy DEF CrmInv
<1>2. customers \in Seq(Crm!Customer) /\ customers' = [customers EXCEPT ![k] = row]
    BY DEF CrmInv, CrmTyped, Crm!Written
<1>3. [sync.customer EXCEPT !.row = row] = [id |-> k, row |-> row]
    BY <1>1
<1>4. [id |-> k, row |-> row] \in Copies
    BY <1>1 DEF Copies
<1> HIDE DEF k, old
<1>5. /\ sync' \in Syncs /\ sync'.pc = pc /\ sync'.loser = sync.loser
      /\ sync'.customer = [id |-> k, row |-> row]
    BY <1>3, <1>4, Proceeds
<1>6. Rewrites(k, row, customers, customers') /\ customers' \in Seq(Crm!Customer)
    BY <1>1, <1>2 DEF Rewrites, LiveRows
<1>7. /\ LiveRows(customers') = LiveRows(customers)
      /\ \A i \in LiveRows(customers) : customers'[i] = IF i = k THEN row ELSE customers[i]
      /\ SumOf(customers', LiveRows(customers')) + customers[k].total
             = SumOf(customers, LiveRows(customers)) + row.total
    BY ONLY <1>6, <1>1, <1>2, row \in Crm!Customer, row.merged = 0, WritingChanges
<1>8. Crm!Live = LiveRows(customers) /\ Crm!Counted = SumOf(customers, LiveRows(customers))
    BY <1>2, TotalIs
<1>9. Crm!Live' = LiveRows(customers')
    BY DEF Crm!Live, Crm!Ids, LiveRows
<1>10. Crm!Counted' = SumOf(customers', LiveRows(customers'))
    BY <1>6, TotalIsNext
<1>11. IsTrueCopy(sync.customer)'
    BY <1>1, <1>5, <1>7, <1>9 DEF IsTrueCopy, Crm!CopyOf
<1>12. ASSUME IsTrueCopy(sync.loser), sync.loser.id # k
       PROVE  IsTrueCopy(sync.loser)'
    BY <1>5, <1>7, <1>8, <1>9, <1>12 DEF IsTrueCopy, Crm!CopyOf
<1>13. Crm!Counted \in Nat /\ Crm!Counted' \in Nat
    BY <1>2, <1>6, <1>8, <1>10, SumType, Zenon
<1>14. sync'.customer.id = k
    BY <1>5
<1>15. Crm!Counted' + old.total = Crm!Counted + row.total
    BY <1>1, <1>7, <1>8, <1>10
<1>16. QED
    BY <1>6, <1>5, <1>7, <1>8, <1>9, <1>11, <1>12, <1>13, <1>14, <1>15 DEF k, old

\* The table is as it was.
LEMMA SameTable ==
    ASSUME CrmTyped, UNCHANGED customers
    PROVE  /\ Crm!Live' = Crm!Live /\ Crm!Counted' = Crm!Counted
           /\ \A copy : IsTrueCopy(copy) <=>
                          copy.id \in Crm!Live' /\ copy = Crm!CopyOf(copy.id)'
<1>1. Crm!Live' = Crm!Live
    BY DEF Crm!Live, Crm!Ids
<1>2. Crm!Counted' = Crm!Counted
    BY TotalIs, TotalIsNext DEF CrmTyped
<1>3. QED
    BY <1>1, <1>2 DEF IsTrueCopy, Crm!CopyOf

LEMMA BeginsKeeps ==
    ASSUME CrmInv, NEW email \in Emails \cup {NoContact}, NEW phone \in Phones \cup {NoContact},
           NEW booked \in BOOLEAN, Crm!SyncBegins(email, phone, booked)
    PROVE  CrmInv'
<1>1. /\ sync = Crm!Idle /\ UNCHANGED <<customers, timeline, visits, faulty>>
      /\ sync.pc = "idle"
    BY DEF Crm!SyncBegins, Crm!Idle
<1>2. CrmTyped
    BY DEF CrmInv
<1> DEFINE First(a, b) == [pc |-> IF a = Crm!NoCopy /\ b = Crm!NoCopy THEN "insert"
                                  ELSE IF Crm!NoCopy \notin {a, b} /\ a.id # b.id
                                  THEN "merge" ELSE "patch",
                           email |-> email, phone |-> phone, visit |-> booked,
                           customer |-> IF a # Crm!NoCopy THEN a ELSE b,
                           loser |-> b]
<1>3. PICK a \in Crm!ByEmail(email), b \in Crm!ByPhone(phone) : sync' = First(a, b)
    BY DEF Crm!SyncBegins
<1>4. /\ a = Crm!NoCopy \/ IsTrueCopy(a)
      /\ b = Crm!NoCopy \/ IsTrueCopy(b)
  <2>1. ASSUME NEW i \in Crm!Live PROVE IsTrueCopy(Crm!CopyOf(i))
      BY DEF IsTrueCopy, Crm!CopyOf
  <2>2. QED
      BY <2>1 DEF Crm!ByEmail, Crm!ByPhone, Crm!Found
<1>5. a \in Copies /\ b \in Copies
    BY <1>2, <1>4, TrueCopy DEF Copies
<1>6. /\ sync' \in Syncs /\ sync'.pc \in {"insert", "merge", "patch"}
      /\ sync'.pc # "insert" => IsTrueCopy(sync'.customer)
      /\ sync'.pc = "merge" => IsTrueCopy(sync'.loser) /\ sync'.loser.id # sync'.customer.id
  <2>1. sync' = First(a, b)
      BY <1>3
  <2>2. /\ sync'.pc = IF a = Crm!NoCopy /\ b = Crm!NoCopy THEN "insert"
                      ELSE IF Crm!NoCopy \notin {a, b} /\ a.id # b.id
                      THEN "merge" ELSE "patch"
        /\ sync'.customer = IF a # Crm!NoCopy THEN a ELSE b
        /\ sync'.loser = b
      BY <2>1
  <2>3. sync' \in Syncs
      BY <1>5, <2>1 DEF Syncs, SyncSteps
  <2>4. QED
      BY <1>4, <2>2, <2>3
<1>7. CrmTyped'
    BY <1>1, <1>2, <1>6 DEF CrmTyped
<1>8. KnowsItsRows'
    BY <1>1, <1>2, <1>6, SameTable DEF KnowsItsRows, IsTrueCopy, Merging
<1>9. EntriesCount' /\ TotalsHold'
    BY <1>1, <1>2, <1>6, SameTable DEF CrmInv, EntriesCount, TotalsHold, Twice, Merging
<1>10. QED
    BY <1>7, <1>8, <1>9 DEF CrmInv

LEMMA InsertsKeeps == CrmInv /\ Crm!SyncInserts => CrmInv'
<1> SUFFICES ASSUME CrmInv, Crm!SyncInserts PROVE CrmInv'
    OBVIOUS
<1> DEFINE row == [email |-> sync.email, phone |-> sync.phone, total |-> 0, merged |-> 0]
           k == Len(customers) + 1
           copy == [id |-> k, row |-> row]
           next == IF sync.visit THEN "count" ELSE "note"
<1>1. /\ sync.pc = "insert" /\ customers' = Append(customers, row)
      /\ Crm!Proceed(next, copy) /\ UNCHANGED <<timeline, visits, faulty>>
    BY DEF Crm!SyncInserts, Crm!Recording
<1>2. sync \in Syncs
    BY <1>1, InHand DEF SyncSteps
<1>3. /\ customers \in Seq(Crm!Customer) /\ Len(customers) \in Nat
      /\ timeline \subseteq LiveRows(customers) /\ visits \in Nat /\ faulty \in BOOLEAN
    BY TotalIs DEF CrmInv, CrmTyped, EntriesCount
<1>4. row \in Crm!Customer /\ row.merged = 0 /\ row.total = 0
    BY <1>2 DEF Syncs, Crm!Customer
<1>5. next \in SyncSteps /\ next \notin Merging \cup {"merge", "insert"} /\ copy \in Copies
    BY <1>3, <1>4 DEF SyncSteps, Merging, Copies
<1>6. copy.id = k /\ copy.row = row /\ copy = [id |-> k, row |-> row]
    OBVIOUS
<1> HIDE DEF row, copy, next
<1>7. /\ customers' \in Seq(Crm!Customer)
      /\ LiveRows(customers') = LiveRows(customers) \cup {k}
      /\ customers'[k] = row
      /\ SumOf(customers', LiveRows(customers')) = SumOf(customers, LiveRows(customers))
    BY <1>1, <1>3, <1>4, InsertingChanges
<1>8. sync' \in Syncs /\ sync'.pc = next /\ sync'.customer = copy
    BY <1>1, <1>2, <1>5, Proceeds
<1>9. Crm!Live' = LiveRows(customers') /\ Crm!Counted' = Crm!Counted
    BY <1>3, <1>7, TotalIs, TotalIsNext DEF Crm!Live, Crm!Ids, LiveRows
<1>10. CrmTyped'
    BY <1>1, <1>3, <1>7, <1>8 DEF CrmTyped
<1>11. KnowsItsRows'
  <2>1. IsTrueCopy(sync.customer)'
      BY <1>6, <1>7, <1>8, <1>9 DEF IsTrueCopy, Crm!CopyOf
  <2>2. QED
      BY <1>5, <1>8, <2>1 DEF KnowsItsRows
<1>12. EntriesCount'
    BY <1>1, <1>3, <1>5, <1>7, <1>8, <1>9 DEF EntriesCount, Merging
<1>13. TotalsHold'
    BY <1>1, <1>5, <1>8, <1>9 DEF CrmInv, TotalsHold, Twice, Merging
<1>14. QED
    BY <1>10, <1>11, <1>12, <1>13 DEF CrmInv

\* What was known fills in what was not.
LEMMA OrFills ==
    /\ \A a, b \in Emails \cup {NoContact} : Crm!Or(a, b) \in Emails \cup {NoContact}
    /\ \A a, b \in Phones \cup {NoContact} : Crm!Or(a, b) \in Phones \cup {NoContact}
BY DEF Crm!Or

LEMMA PatchesKeeps == CrmInv /\ Crm!SyncPatches => CrmInv'
<1> SUFFICES ASSUME CrmInv, Crm!SyncPatches PROVE CrmInv'
    OBVIOUS
<1> DEFINE old == sync.customer.row
           row == [old EXCEPT !.email = Crm!Or(@, sync.email),
                              !.phone = Crm!Or(@, sync.phone)]
           next == IF sync.visit THEN "count" ELSE "note"
<1>1. /\ sync.pc = "patch"
      /\ IF row # old THEN Crm!Written(row) ELSE UNCHANGED customers
      /\ Crm!Proceed(next, [sync.customer EXCEPT !.row = row])
      /\ UNCHANGED <<timeline, visits, faulty>>
    BY DEF Crm!SyncPatches, Crm!Recording
<1>2. sync \in Syncs /\ sync # Crm!Idle
    BY <1>1, InHand DEF SyncSteps
<1>3. CrmTyped /\ IsTrueCopy(sync.customer)
    BY <1>1, <1>2 DEF CrmInv, KnowsItsRows
<1>4. /\ sync.customer.id \in LiveRows(customers) /\ old = customers[sync.customer.id]
      /\ old \in Crm!Customer /\ old.merged = 0 /\ old.total \in Nat
      /\ sync.customer = [id |-> sync.customer.id, row |-> old]
      /\ customers \in Seq(Crm!Customer)
    BY <1>3, TrueCopy DEF CrmTyped
<1>5. row \in Crm!Customer /\ row.merged = 0 /\ row.total = old.total
    BY <1>2, <1>4, OrFills, Zenon DEF Crm!Customer, Syncs
<1>6. next \in SyncSteps /\ next \notin Merging \cup {"merge", "insert"}
    BY DEF SyncSteps, Merging
<1> HIDE DEF row, next
<1>7. Crm!Written(row)
  <2>1. CASE row = old
    <3>1. customers' = customers /\ customers = [customers EXCEPT ![sync.customer.id] = old]
        BY <1>1, <1>4, <2>1 DEF LiveRows
    <3>2. QED
        BY <2>1, <3>1 DEF Crm!Written
  <2>2. CASE row # old
      BY <1>1, <2>2
  <2>3. QED
      BY <2>1, <2>2
<1>8. /\ customers' \in Seq(Crm!Customer) /\ Crm!Live' = Crm!Live
      /\ sync' \in Syncs /\ sync'.pc = next /\ IsTrueCopy(sync.customer)'
      /\ Crm!Counted \in Nat /\ Crm!Counted' \in Nat
      /\ Crm!Counted' + old.total = Crm!Counted + row.total
    BY <1>1, <1>2, <1>3, <1>5, <1>6, <1>7, WritesRow
<1>9. Crm!Counted' = Crm!Counted
    BY <1>4, <1>5, <1>8
<1>10. CrmTyped' /\ KnowsItsRows'
    BY <1>1, <1>6, <1>8 DEF CrmInv, CrmTyped, KnowsItsRows
<1>11. EntriesCount' /\ TotalsHold'
    BY <1>1, <1>6, <1>8, <1>9 DEF CrmInv, EntriesCount, TotalsHold, Twice, Merging
<1>12. QED
    BY <1>10, <1>11 DEF CrmInv

\* The row that is kept takes what the other knew, and its total.
LEMMA Absorbs ==
    ASSUME NEW old \in Crm!Customer, NEW gone \in Crm!Customer
    PROVE  LET row == [old EXCEPT !.email = Crm!Or(@, gone.email),
                                  !.phone = Crm!Or(@, gone.phone),
                                  !.total = @ + gone.total]
           IN  /\ row \in Crm!Customer /\ row.merged = old.merged
               /\ row.total = old.total + gone.total
<1> DEFINE row == [old EXCEPT !.email = Crm!Or(@, gone.email),
                              !.phone = Crm!Or(@, gone.phone),
                              !.total = @ + gone.total]
           email == Crm!Or(old.email, gone.email)
           phone == Crm!Or(old.phone, gone.phone)
           total == old.total + gone.total
<1>1. /\ email \in Emails \cup {NoContact} /\ phone \in Phones \cup {NoContact}
      /\ total \in Nat
    BY OrFills DEF Crm!Customer
<1>2. row = [old EXCEPT !.email = email, !.phone = phone, !.total = total]
    OBVIOUS
<1> HIDE DEF row, email, phone, total
<1>3. row \in Crm!Customer /\ row.merged = old.merged /\ row.total = total
    BY <1>1, <1>2, Zenon DEF Crm!Customer
<1>4. QED
    BY <1>3 DEF row, total

LEMMA MergesKeeps == CrmInv /\ Crm!SyncMerges => CrmInv'
<1> SUFFICES ASSUME CrmInv, Crm!SyncMerges PROVE CrmInv'
    OBVIOUS
<1> DEFINE old == sync.customer.row
           gone == sync.loser.row
           row == [old EXCEPT !.email = Crm!Or(@, gone.email),
                              !.phone = Crm!Or(@, gone.phone),
                              !.total = @ + gone.total]
<1>1. /\ sync.pc = "merge" /\ Crm!Written(row)
      /\ Crm!Proceed("repoint", [sync.customer EXCEPT !.row = row])
      /\ UNCHANGED <<timeline, visits, faulty>>
    BY DEF Crm!SyncMerges, Crm!MergeOrder
<1>2. sync \in Syncs /\ sync # Crm!Idle
    BY <1>1, InHand DEF SyncSteps
<1>3. /\ CrmTyped /\ IsTrueCopy(sync.customer)
      /\ IsTrueCopy(sync.loser) /\ sync.loser.id # sync.customer.id
    BY <1>1, <1>2 DEF CrmInv, KnowsItsRows
<1>4. /\ old \in Crm!Customer /\ old.merged = 0 /\ old.total \in Nat
      /\ gone \in Crm!Customer /\ gone.total \in Nat
    BY <1>3, TrueCopy
<1>5. row \in Crm!Customer /\ row.merged = 0 /\ row.total = old.total + gone.total
    BY <1>4, Absorbs, Zenon
<1> HIDE DEF row
<1>6. /\ customers' \in Seq(Crm!Customer) /\ Crm!Live' = Crm!Live
      /\ sync' \in Syncs /\ sync'.pc = "repoint" /\ sync'.loser = sync.loser
      /\ sync'.customer.id = sync.customer.id
      /\ IsTrueCopy(sync.customer)' /\ IsTrueCopy(sync.loser)'
      /\ Crm!Counted \in Nat /\ Crm!Counted' \in Nat
      /\ Crm!Counted' + old.total = Crm!Counted + row.total
  <2>1. "repoint" \in SyncSteps
      BY DEF SyncSteps, Merging
  <2>2. QED
      BY <1>1, <1>2, <1>3, <1>5, <2>1, WritesRow
<1>7. Crm!Counted' = Crm!Counted + gone.total
  <2>1. /\ old.total \in Nat /\ gone.total \in Nat
        /\ Crm!Counted \in Nat /\ Crm!Counted' \in Nat
        /\ row.total = old.total + gone.total
        /\ Crm!Counted' + old.total = Crm!Counted + row.total
      BY <1>4, <1>5, <1>6
  <2> HIDE DEF old, gone
  <2>2. QED
      BY ONLY <2>1
<1>8. CrmTyped' /\ KnowsItsRows'
    BY <1>1, <1>3, <1>6 DEF CrmInv, CrmTyped, KnowsItsRows
<1>9. EntriesCount'
    BY <1>1, <1>6 DEF CrmInv, EntriesCount
<1>10. TotalsHold'
  <2>1. /\ Crm!Counted >= visits /\ (~faulty => Crm!Counted = visits)
        /\ visits \in Nat
      BY <1>1 DEF CrmInv, CrmTyped, TotalsHold, Twice, Merging
  <2>2. Twice' = gone.total
      BY <1>6 DEF Twice, Merging
  <2>3. QED
      BY <1>1, <1>4, <1>6, <1>7, <2>1, <2>2 DEF TotalsHold
<1>11. QED
    BY <1>8, <1>9, <1>10 DEF CrmInv

LEMMA RepointsKeeps == CrmInv /\ Crm!SyncRepoints => CrmInv'
<1> SUFFICES ASSUME CrmInv, Crm!SyncRepoints PROVE CrmInv'
    OBVIOUS
<1>1. /\ sync.pc = "repoint" /\ Crm!Proceed("mark", sync.customer)
      /\ timeline' = {IF i = sync.loser.id THEN sync.customer.id ELSE i : i \in timeline}
      /\ UNCHANGED <<customers, visits, faulty>>
    BY DEF Crm!SyncRepoints, Crm!MergeOrder
<1>2. sync \in Syncs /\ sync # Crm!Idle
    BY <1>1, InHand DEF SyncSteps, Merging
<1>3. /\ CrmTyped /\ IsTrueCopy(sync.customer)
      /\ IsTrueCopy(sync.loser) /\ sync.loser.id # sync.customer.id
    BY <1>1, <1>2 DEF CrmInv, KnowsItsRows, Merging
<1>4. /\ sync' \in Syncs /\ sync'.pc = "mark" /\ sync'.customer = sync.customer
      /\ sync'.loser = sync.loser
  <2>1. sync.customer \in Copies /\ "mark" \in SyncSteps
      BY <1>2 DEF Syncs, SyncSteps, Merging
  <2>2. QED
      BY <1>1, <1>2, <2>1, Proceeds
<1>5. Crm!Live' = Crm!Live /\ Crm!Counted' = Crm!Counted
      /\ IsTrueCopy(sync.customer)' /\ IsTrueCopy(sync.loser)'
    BY <1>1, <1>3, <1>4, SameTable DEF IsTrueCopy
<1>6. CrmTyped' /\ KnowsItsRows'
    BY <1>1, <1>3, <1>4, <1>5 DEF CrmTyped, KnowsItsRows
<1>7. EntriesCount'
  <2>1. timeline \subseteq Crm!Live /\ sync.customer.id \in Crm!Live
      BY <1>3 DEF CrmInv, EntriesCount, IsTrueCopy
  <2>2. timeline' \subseteq Crm!Live /\ sync.loser.id \notin timeline'
      BY <1>1, <1>3, <2>1
  <2>3. QED
      BY <1>4, <1>5, <2>2 DEF EntriesCount
<1>8. TotalsHold'
    BY <1>1, <1>4, <1>5 DEF CrmInv, TotalsHold, Twice, Merging
<1>9. QED
    BY <1>6, <1>7, <1>8 DEF CrmInv

LEMMA MarksKeeps == CrmInv /\ Crm!SyncMarks => CrmInv'
<1> SUFFICES ASSUME CrmInv, Crm!SyncMarks PROVE CrmInv'
    OBVIOUS
<1> DEFINE k == sync.loser.id
           keeper == sync.customer.id
           gone == sync.loser.row
<1>1. /\ sync.pc = "mark" /\ Crm!Proceed("entry", sync.customer)
      /\ customers' = [customers EXCEPT ![k].merged = keeper]
      /\ UNCHANGED <<timeline, visits, faulty>>
    BY DEF Crm!SyncMarks, Crm!MergeOrder
<1>2. sync \in Syncs /\ sync # Crm!Idle
    BY <1>1, InHand DEF SyncSteps, Merging
<1>3. /\ CrmTyped /\ IsTrueCopy(sync.customer) /\ IsTrueCopy(sync.loser) /\ k # keeper
      /\ customers \in Seq(Crm!Customer) /\ visits \in Nat
    BY <1>1, <1>2 DEF CrmInv, CrmTyped, KnowsItsRows, Merging
<1>4. /\ k \in LiveRows(customers) /\ keeper \in LiveRows(customers) /\ keeper \in Nat \ {0}
      /\ gone = customers[k] /\ gone \in Crm!Customer /\ gone.total \in Nat
      /\ sync.customer = Crm!CopyOf(keeper) /\ sync.customer \in Copies
    BY <1>3, TrueCopy DEF IsTrueCopy
<1>5. /\ sync' \in Syncs /\ sync'.pc = "entry" /\ sync'.customer = sync.customer
  <2>1. "entry" \in SyncSteps
      BY DEF SyncSteps
  <2>2. QED
      BY <1>1, <1>2, <1>4, <2>1, Proceeds
<1> HIDE DEF gone
<1>6. /\ Rewrites(k, [customers[k] EXCEPT !.merged = keeper], customers, customers')
      /\ customers' \in Seq(Crm!Customer)
  <2> DEFINE row == [customers[k] EXCEPT !.merged = keeper]
  <2>1. k \in 1 .. Len(customers) /\ customers[k] \in Crm!Customer
      BY <1>3, <1>4 DEF LiveRows
  <2>2. row \in Crm!Customer
      BY ONLY <1>4, <2>1, Stamped, Zenon
  <2>3. customers' = [customers EXCEPT ![k] = row]
      BY <1>1, <1>3, <2>1
  <2> HIDE DEF row, k, keeper
  <2>4. Rewrites(k, row, customers, customers') /\ customers' \in Seq(Crm!Customer)
      BY <1>3, <2>1, <2>2, <2>3 DEF Rewrites
  <2>5. QED
      BY <2>4 DEF row
<1> HIDE DEF k, keeper
<1>7. /\ LiveRows(customers') = LiveRows(customers) \ {k}
      /\ \A i \in LiveRows(customers') : customers'[i] = customers[i]
      /\ SumOf(customers', LiveRows(customers')) + customers[k].total
             = SumOf(customers, LiveRows(customers))
      /\ SumOf(customers', LiveRows(customers')) \in Nat
    BY ONLY <1>3, <1>4, <1>6, MarkingChanges
<1>8. /\ Crm!Live = LiveRows(customers) /\ Crm!Live' = LiveRows(customers')
      /\ Crm!Counted' \in Nat /\ Crm!Counted' + gone.total = Crm!Counted
    BY <1>3, <1>4, <1>6, <1>7, TotalIs, TotalIsNext DEF Crm!Live, Crm!Ids, LiveRows
<1>9. CrmTyped'
    BY <1>1, <1>3, <1>5, <1>6 DEF CrmTyped
<1>10. KnowsItsRows'
  <2>1. sync'.customer = [id |-> keeper, row |-> customers[keeper]]
      BY <1>4, <1>5 DEF Crm!CopyOf
  <2>2. keeper \in LiveRows(customers')
      BY <1>3, <1>4, <1>7
  <2>3. IsTrueCopy(sync.customer)'
      BY <1>7, <1>8, <2>1, <2>2 DEF IsTrueCopy, Crm!CopyOf
  <2>4. QED
      BY <1>5, <2>3 DEF KnowsItsRows, Merging
<1>11. EntriesCount'
    BY <1>1, <1>5, <1>7, <1>8 DEF CrmInv, EntriesCount, k
<1>12. TotalsHold'
  <2>1. /\ Crm!Counted >= visits + gone.total /\ (~faulty => Crm!Counted = visits + gone.total)
      BY <1>1 DEF CrmInv, TotalsHold, Twice, Merging, gone
  <2>2. Twice' = 0
      BY <1>5 DEF Twice, Merging
  <2>3. QED
      BY <1>1, <1>3, <1>4, <1>8, <2>1, <2>2 DEF TotalsHold
<1>13. QED
    BY <1>9, <1>10, <1>11, <1>12 DEF CrmInv

LEMMA EntersKeeps == CrmInv /\ Crm!SyncEnters => CrmInv'
<1> SUFFICES ASSUME CrmInv, Crm!SyncEnters PROVE CrmInv'
    OBVIOUS
<1>1. /\ sync.pc = "entry" /\ Crm!Proceed("patch", sync.customer)
      /\ timeline' = timeline \cup {sync.customer.id}
      /\ UNCHANGED <<customers, visits, faulty>>
    BY DEF Crm!SyncEnters
<1>2. sync \in Syncs /\ sync # Crm!Idle
    BY <1>1, InHand DEF SyncSteps
<1>3. CrmTyped /\ IsTrueCopy(sync.customer)
    BY <1>1, <1>2 DEF CrmInv, KnowsItsRows
<1>4. sync' \in Syncs /\ sync'.pc = "patch" /\ sync'.customer = sync.customer
  <2>1. sync.customer \in Copies /\ "patch" \in SyncSteps
      BY <1>2 DEF Syncs, SyncSteps
  <2>2. QED
      BY <1>1, <1>2, <2>1, Proceeds
<1>5. Crm!Live' = Crm!Live /\ Crm!Counted' = Crm!Counted /\ IsTrueCopy(sync.customer)'
    BY <1>1, <1>3, <1>4, SameTable DEF IsTrueCopy
<1>6. CrmTyped' /\ KnowsItsRows'
    BY <1>1, <1>3, <1>4, <1>5 DEF CrmTyped, KnowsItsRows, Merging
<1>7. EntriesCount' /\ TotalsHold'
    BY <1>1, <1>3, <1>4, <1>5
       DEF CrmInv, EntriesCount, IsTrueCopy, TotalsHold, Twice, Merging
<1>8. QED
    BY <1>6, <1>7 DEF CrmInv

LEMMA CountsKeeps == CrmInv /\ Crm!SyncCounts => CrmInv'
<1> SUFFICES ASSUME CrmInv, Crm!SyncCounts PROVE CrmInv'
    OBVIOUS
<1> DEFINE old == sync.customer.row
           row == [old EXCEPT !.total = @ + 1]
<1>1. /\ sync.pc = "count" /\ Crm!Written(row)
      /\ Crm!Proceed("note", [sync.customer EXCEPT !.row = row])
      /\ visits' = visits + 1 /\ UNCHANGED <<timeline, faulty>>
    BY DEF Crm!SyncCounts
<1>2. sync \in Syncs /\ sync # Crm!Idle
    BY <1>1, InHand DEF SyncSteps
<1>3. CrmTyped /\ IsTrueCopy(sync.customer)
    BY <1>1, <1>2 DEF CrmInv, KnowsItsRows
<1>4. old \in Crm!Customer /\ old.merged = 0 /\ old.total \in Nat
    BY <1>3, TrueCopy
<1>5. row \in Crm!Customer /\ row.merged = 0 /\ row.total = old.total + 1
    BY <1>4 DEF Crm!Customer
<1> HIDE DEF row
<1>6. /\ customers' \in Seq(Crm!Customer) /\ Crm!Live' = Crm!Live
      /\ sync' \in Syncs /\ sync'.pc = "note" /\ IsTrueCopy(sync.customer)'
      /\ Crm!Counted \in Nat /\ Crm!Counted' \in Nat
      /\ Crm!Counted' + old.total = Crm!Counted + row.total
  <2>1. "note" \in SyncSteps
      BY DEF SyncSteps
  <2>2. QED
      BY <1>1, <1>2, <1>3, <1>5, <2>1, WritesRow
<1>7. Crm!Counted' = Crm!Counted + 1
    BY <1>4, <1>5, <1>6
<1>8. CrmTyped' /\ KnowsItsRows'
    BY <1>1, <1>6 DEF CrmInv, CrmTyped, KnowsItsRows, Merging
<1>9. EntriesCount'
    BY <1>1, <1>6 DEF CrmInv, EntriesCount
<1>10. TotalsHold'
  <2>1. /\ Crm!Counted >= visits /\ (~faulty => Crm!Counted = visits)
        /\ visits \in Nat
      BY <1>1 DEF CrmInv, CrmTyped, TotalsHold, Twice, Merging
  <2>2. Twice' = 0
      BY <1>6 DEF Twice, Merging
  <2>3. QED
      BY <1>1, <1>6, <1>7, <2>1, <2>2 DEF TotalsHold
<1>11. QED
    BY <1>8, <1>9, <1>10 DEF CrmInv

\* The last statement.
LEMMA NotesKeeps == CrmInv /\ Crm!SyncNotes => CrmInv'
<1> SUFFICES ASSUME CrmInv, Crm!SyncNotes PROVE CrmInv'
    OBVIOUS
<1>1. /\ sync.pc = "note" /\ sync' = Crm!Idle /\ sync'.pc = "idle"
      /\ timeline' = timeline \cup {sync.customer.id}
      /\ UNCHANGED <<customers, visits, faulty>>
    BY DEF Crm!SyncNotes, Crm!Idle
<1>2. sync \in Syncs /\ sync # Crm!Idle
    BY <1>1, InHand DEF SyncSteps
<1>3. CrmTyped /\ sync.customer.id \in Crm!Live
    BY <1>1, <1>2 DEF CrmInv, KnowsItsRows, IsTrueCopy
<1>4. Crm!Live' = Crm!Live /\ Crm!Counted' = Crm!Counted
    BY <1>1, <1>3, SameTable
<1>5. CrmTyped' /\ KnowsItsRows'
    BY <1>1, <1>3 DEF CrmTyped, KnowsItsRows
<1>6. EntriesCount' /\ TotalsHold'
    BY <1>1, <1>3, <1>4 DEF CrmInv, EntriesCount, TotalsHold, Twice, Merging
<1>7. QED
    BY <1>5, <1>6 DEF CrmInv

\* Whatever is counted twice, nothing is lost.
LEMMA NoneIsLost == CrmInv => Crm!Counted >= visits
<1> SUFFICES ASSUME CrmInv PROVE Crm!Counted >= visits
    OBVIOUS
<1>1. CrmTyped
    BY DEF CrmInv
<1>2. Twice \in Nat
  <2>1. CASE sync.pc \in Merging
    <3>1. sync # Crm!Idle
        BY <2>1 DEF Merging, Crm!Idle
    <3>2. IsTrueCopy(sync.loser)
        BY <2>1, <3>1 DEF CrmInv, KnowsItsRows
    <3>3. QED
        BY <1>1, <2>1, <3>2, TrueCopy DEF Twice
  <2>2. CASE sync.pc \notin Merging
      BY <2>2 DEF Twice
  <2>3. QED
      BY <2>1, <2>2
<1>3. Crm!Counted \in Nat /\ visits \in Nat
    BY <1>1, TotalIs, SumType DEF CrmTyped
<1>4. Crm!Counted >= visits + Twice
    BY DEF CrmInv, TotalsHold
<1>5. QED
    BY <1>2, <1>3, <1>4

\* A statement fails: what was counted twice stays so.
LEMMA FailsKeeps == CrmInv /\ Crm!SyncFails => CrmInv'
<1> SUFFICES ASSUME CrmInv, Crm!SyncFails PROVE CrmInv'
    OBVIOUS
<1>1. /\ sync # Crm!Idle /\ sync' = Crm!Idle /\ sync'.pc = "idle" /\ faulty' = TRUE
      /\ UNCHANGED <<customers, timeline, visits>>
    BY DEF Crm!SyncFails, Crm!Idle
<1>2. CrmTyped
    BY DEF CrmInv
<1>3. Crm!Live' = Crm!Live /\ Crm!Counted' = Crm!Counted
    BY <1>1, <1>2, SameTable
<1>4. CrmTyped' /\ KnowsItsRows'
    BY <1>1, <1>2 DEF CrmTyped, KnowsItsRows
<1>5. EntriesCount'
    BY <1>1, <1>3 DEF CrmInv, EntriesCount
<1>6. TotalsHold'
  <2>1. Crm!Counted >= visits
      BY NoneIsLost
  <2>2. Twice' = 0
      BY <1>1 DEF Twice, Merging
  <2>3. visits \in Nat
      BY <1>2 DEF CrmTyped
  <2>4. QED
      BY <1>1, <1>3, <2>1, <2>2, <2>3 DEF TotalsHold
<1>7. QED
    BY <1>4, <1>5, <1>6 DEF CrmInv

\* Every step of the CRM keeps the invariant.
LEMMA StepsKeepCrm == CrmInv /\ [Crm!CrmNext]_crmVars => CrmInv'
<1> SUFFICES ASSUME CrmInv, [Crm!CrmNext]_crmVars PROVE CrmInv'
    OBVIOUS
<1>1. CASE UNCHANGED crmVars
  <2>1. Crm!Live' = Crm!Live /\ Crm!Counted' = Crm!Counted
      BY <1>1, SameTable DEF crmVars, CrmInv
  <2>2. CrmTyped' /\ KnowsItsRows'
      BY <1>1, <2>1 DEF crmVars, CrmInv, CrmTyped, KnowsItsRows, IsTrueCopy, Crm!CopyOf
  <2>3. EntriesCount' /\ TotalsHold'
      BY <1>1, <2>1 DEF crmVars, CrmInv, EntriesCount, TotalsHold, Twice
  <2>4. QED
      BY <2>2, <2>3 DEF CrmInv
<1>2. CASE Crm!CrmNext
    BY <1>2, BeginsKeeps, InsertsKeeps, PatchesKeeps, MergesKeeps, RepointsKeeps, MarksKeeps,
       EntersKeeps, CountsKeeps, NotesKeeps, FailsKeeps DEF Crm!CrmNext
<1>3. QED
    BY <1>1, <1>2

\* The CRM goes on at its own steps.
LEMMA CustomersOnly == MCNext => [Crm!CrmNext]_crmVars
BY DEF MCNext, Call, Reply, Interview, CustomerSync, Routing, Synthesizing, Hearing

LEMMA CrmInvImplies == CrmInv => MergeLosesNothing
<1> SUFFICES ASSUME CrmInv PROVE MergeLosesNothing
    OBVIOUS
<1>1. timeline \subseteq Crm!Live
    BY DEF CrmInv, EntriesCount
<1>2. Crm!Counted >= visits
    BY NoneIsLost
<1>3. ~faulty /\ sync.pc \notin Merging => Crm!Counted = visits
    BY DEF CrmInv, CrmTyped, TotalsHold, Twice
<1>4. QED
    BY <1>1, <1>2, <1>3 DEF MergeLosesNothing, Crm!MergeLosesNothing, Merging

\* "Merge them, so history consolidates instead of splitting" (crm-service.ts): for any
\* contacts and any number of events, whichever rows are merged and whichever statement
\* fails, every entry is of a row that counts and no appointment is lost.
THEOREM HistoryIsConsolidated == MCSpec => []MergeLosesNothing
<1>1. MCInit => CrmInv
    BY CrmStarts DEF MCInit
<1>2. CrmInv /\ [MCNext]_<<scope, vars, speechVars, salesVars, crmVars, providerVars>>
          => CrmInv'
    BY CustomersOnly, StepsKeepCrm
<1>3. QED
    BY <1>1, <1>2, CrmInvImplies, PTL DEF MCSpec
===============================================================================

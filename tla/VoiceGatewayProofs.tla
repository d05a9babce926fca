-------------------------- MODULE VoiceGatewayProofs --------------------------
(***************************************************************************)
(* For every set of gateways, and however often sockets are lost, callbacks  *)
(* arrive, and processes or statements fail: a call gets one session, and    *)
(* its row moves along the table of transitions only.                       *)
(***************************************************************************)
EXTENDS VoiceGateway, TLAPS

-------------------------------------------------------------------------------
(* The tables, and what the handlers build from well-typed parts.           *)

\* The table leads from states of a call to states of a call.
LEMMA TableType ==
    ASSUME NEW from \in CallState
    PROVE  Transitions[from] \subseteq CallState
BY DEF Transitions, CallState

\* The states the carrier reports, and those a session ends in, are states of a call.
LEMMA StatusType ==
    /\ Terminal \subseteq CallState
    /\ FinalStatus \subseteq CallState
    /\ EndStates \cup {"completed"} \subseteq CallState
BY GatewayAssumption DEF Terminal, CallState

\* advanceTo from a known state to a known state begins a well-typed walk, if any.
LEMMA WalkingType ==
    ASSUME TypeOK, NEW g \in Gateways, NEW from \in CallState, NEW to \in CallState,
           NEW then \in {"start", "record", "nothing", "callback"}
    PROVE  Walking(g, from, to, then) \subseteq Walk
BY DEF TypeOK, Walking, Walk

\* A registered session is an entry of the registry.
LEMMA RegisteredType ==
    ASSUME TypeOK, NEW g \in Gateways, entry[g] # NoEntry
    PROVE  entry[g] \in Entry
BY DEF TypeOK

\* Ending a session keeps the registry well typed.
LEMMA EndedType ==
    ASSUME TypeOK, NEW g \in Gateways, NEW reason \in EndStates \cup {"completed"}
    PROVE  /\ Ended(g, reason) \in [Gateways -> Entry \cup {NoEntry}]
           /\ Registered(g) => Ended(g, reason)[g] \in Entry
<1>1. CASE Registered(g) /\ entry[g].step # "closing"
  <2>1. entry[g] \in Entry
      BY <1>1, RegisteredType DEF Registered
  <2>2. [entry[g] EXCEPT !.step = "closing", !.reason = reason] \in Entry
      BY <2>1 DEF Entry
  <2>3. Ended(g, reason) =
            [entry EXCEPT ![g] = [entry[g] EXCEPT !.step = "closing", !.reason = reason]]
      BY <1>1, <2>1 DEF Ended, TypeOK, Entry
  <2>4. QED
      BY <2>2, <2>3 DEF TypeOK
<1>2. CASE ~(Registered(g) /\ entry[g].step # "closing")
    BY <1>2, RegisteredType DEF Ended, Registered, TypeOK
<1>3. QED
    BY <1>1, <1>2

-------------------------------------------------------------------------------
(* The invariant: types, and the session counted is the one the row tells of. *)

\* A session is created in the step that claims the conversation, and in no other.
SessionIsClaimed == sessions = IF row.conversation THEN 1 ELSE 0

IInv == TypeOK /\ SessionIsClaimed

\* No session, and no conversation claimed.
LEMMA Initial == Init => IInv
<1> SUFFICES ASSUME Init
             PROVE  IInv
    OBVIOUS
<1>1. MaxDrops \in Nat /\ MaxCallbacks \in Nat /\ MaxFailures \in Nat
    BY GatewayAssumption
<1>2. row \in Row /\ row.conversation = FALSE
    BY DEF Init, Row, CallState
<1>3. NoAdmission \in Admission
    BY DEF NoAdmission, Admission
<1>4. TypeOK
    BY <1>1, <1>2, <1>3 DEF Init, TypeOK
<1>5. SessionIsClaimed
    BY <1>2 DEF Init, SessionIsClaimed
<1>6. QED
    BY <1>4, <1>5 DEF IInv

\* What an admission becomes keeps the admissions well typed.
LEMMA AdmissionType ==
    ASSUME TypeOK, NEW g \in Gateways, NEW a \in Admission
    PROVE  [admission EXCEPT ![g] = a] \in [Gateways -> Admission]
BY DEF TypeOK

\* So does what an entry of the registry becomes.
LEMMA EntryType ==
    ASSUME TypeOK, NEW g \in Gateways, NEW e \in Entry \cup {NoEntry}
    PROVE  [entry EXCEPT ![g] = e] \in [Gateways -> Entry \cup {NoEntry}]
BY DEF TypeOK

\* A refused admission leaves nothing behind.
LEMMA NoAdmissionType == NoAdmission \in Admission
BY DEF NoAdmission, Admission

-------------------------------------------------------------------------------
(* Admission.                                                               *)

\* Only the claim counts a session, and it requires that the row had no conversation.
LEMMA AdmittingKeepsIInv ==
    ASSUME IInv, NEW g \in Gateways, Admitting(g)
    PROVE  IInv'
<1> SUFFICES TypeOK' /\ SessionIsClaimed'
    BY DEF IInv
<1>0. TypeOK /\ SessionIsClaimed
    BY DEF IInv
<1> USE <1>0
<1>1. CASE StartFrame(g)
  <2>1. [step |-> "lookup", seen |-> "absent"] \in Admission
      BY DEF Admission
  <2>2. QED
      BY <1>1, <2>1, AdmissionType DEF StartFrame, Admit, TypeOK, SessionIsClaimed
<1>2. CASE Lookup(g)
  <2>1. [step |-> "create", seen |-> "absent"] \in Admission
      BY DEF Admission
  <2>2. admission' \in [Gateways -> Admission]
      BY <1>2, <2>1, NoAdmissionType, AdmissionType DEF Lookup, Admit, Refuse
  <2>3. QED
      BY <1>2, <2>2 DEF Lookup, TypeOK, SessionIsClaimed
<1>3. CASE Create(g)
  <2> DEFINE found == IF row.state = "absent" THEN "ringing" ELSE row.state
  <2>1. found \in CallState
      BY DEF TypeOK, Row, CallState
  <2>2. row' \in Row /\ row'.conversation = row.conversation
      BY <1>3, <2>1 DEF Create, TypeOK, Row
  <2>3. [step |-> "claim", seen |-> found] \in Admission
      BY <2>1 DEF Admission
  <2>4. admission' \in [Gateways -> Admission]
      BY <1>3, <2>3, NoAdmissionType, AdmissionType DEF Create, Admit, Refuse
  <2>5. QED
      BY <1>3, <2>2, <2>4 DEF Create, TypeOK, SessionIsClaimed
<1>4. CASE Claim(g)
  <2>1. CASE Refuse(g) /\ UNCHANGED <<row, entry, walks, sessions>>
    <3>1. admission' \in [Gateways -> Admission]
        BY <2>1, NoAdmissionType, AdmissionType DEF Refuse
    <3>2. QED
        BY <1>4, <2>1, <3>1 DEF Claim, TypeOK, SessionIsClaimed
  <2>2. CASE ~Refuse(g) \/ ~UNCHANGED <<row, entry, walks, sessions>>
    <3> DEFINE seen == admission[g].seen
               fresh == [step |-> "idle", state |-> seen,
                         reconnect |-> FALSE, reason |-> "completed"]
    <3>1. /\ admission[g].step = "claim"
          /\ ~row.conversation
          /\ row' = [row EXCEPT !.conversation = TRUE]
          /\ entry' = [entry EXCEPT ![g] = fresh]
          /\ walks' = walks \cup Walking(g, seen, "in_conversation", "start")
          /\ sessions' = sessions + 1
          /\ Admit(g, "walk", seen)
          /\ UNCHANGED <<draining, drops, callbacks, failures>>
        BY <1>4, <2>2 DEF Claim
    <3>2. seen \in CallState
        BY <3>1 DEF TypeOK, Admission
    <3>3. fresh \in Entry /\ [step |-> "walk", seen |-> seen] \in Admission
        BY <3>2 DEF Entry, Admission
    <3>4. entry' \in [Gateways -> Entry \cup {NoEntry}]
        BY <3>1, <3>3, EntryType
    <3>5. admission' \in [Gateways -> Admission]
        BY <3>1, <3>3, AdmissionType DEF Admit
    <3>6. "in_conversation" \in CallState
        BY DEF CallState
    <3>7. walks' \subseteq Walk
        BY <3>1, <3>2, <3>6, WalkingType DEF TypeOK
    <3>8. row' \in Row /\ row'.conversation = TRUE
        BY <3>1 DEF TypeOK, Row
    <3>9. sessions' = 1
        BY <3>1 DEF SessionIsClaimed
    <3>10. QED
        BY <3>1, <3>4, <3>5, <3>7, <3>8, <3>9 DEF TypeOK, SessionIsClaimed
  <2>3. QED
      BY <2>1, <2>2
<1>5. CASE Start(g)
  <2>1. admission' \in [Gateways -> Admission]
      BY <1>5, NoAdmissionType, AdmissionType DEF Start, Refuse
  <2>2. entry' \in [Gateways -> Entry \cup {NoEntry}]
    <3>1. CASE entry[g] # NoEntry /\ entry[g].step = "idle"
      <4>1. entry[g] \in Entry
          BY <3>1, RegisteredType
      <4>2. [entry[g] EXCEPT !.step = "live"] \in Entry
          BY <4>1 DEF Entry
      <4>3. entry' = [entry EXCEPT ![g] = [entry[g] EXCEPT !.step = "live"]]
          BY <1>5, <3>1 DEF Start
      <4>4. QED
          BY <4>2, <4>3, EntryType
    <3>2. CASE ~(entry[g] # NoEntry /\ entry[g].step = "idle")
        BY <1>5, <3>2 DEF Start, TypeOK
    <3>3. QED
        BY <3>1, <3>2
  <2>3. QED
      BY <1>5, <2>1, <2>2 DEF Start, TypeOK, SessionIsClaimed
<1>6. QED
    BY <1>1, <1>2, <1>3, <1>4, <1>5 DEF Admitting

-------------------------------------------------------------------------------
(* The walks of the row.                                                    *)

\* A transition that the trigger accepts starts at a state of a call and ends at one.
LEMMA AcceptedType ==
    ASSUME TypeOK, NEW w \in walks, NEW to, Accepts(w.from, to)
    PROVE  w \in Walk /\ w.from \in CallState /\ row.state = w.from /\ to \in CallState
BY TableType DEF TypeOK, Walk, Accepts

\* A transition of a walk, to whichever state it leads next.
TransitionTo(w, to) ==
    /\ IF Accepts(w.from, to)
       THEN /\ row' = [row EXCEPT !.state = to]
            /\ walks' = (walks \ {w}) \cup (IF to = w.to THEN {} ELSE {[w EXCEPT !.from = to]})
            /\ entry' = IF to = w.to THEN Arrived(w.at, to, w.then) ELSE entry
       ELSE /\ walks' = walks \ {w}
            /\ UNCHANGED <<row, entry>>
    /\ UNCHANGED <<admission, draining, sessions, drops, callbacks, failures>>

\* The next state on the path is some state.
LEMMA TransitionLeadsSomewhere ==
    ASSUME NEW w, Transition(w)
    PROVE  \E to : TransitionTo(w, to)
BY Zenon DEF Transition, TransitionTo

\* A walk whose step is accepted stays among the states of a call, refused it is gone.
LEMMA TransitionKeepsIInv ==
    ASSUME IInv, NEW w \in walks, Transition(w)
    PROVE  IInv'
<1> SUFFICES TypeOK' /\ SessionIsClaimed'
    BY DEF IInv
<1>0. TypeOK /\ SessionIsClaimed
    BY DEF IInv
<1> USE <1>0
<1> PICK to : TransitionTo(w, to)
    BY TransitionLeadsSomewhere
<1>1. CASE Accepts(w.from, to)
  <2>1. /\ row' = [row EXCEPT !.state = to]
        /\ walks' = (walks \ {w}) \cup (IF to = w.to THEN {} ELSE {[w EXCEPT !.from = to]})
        /\ entry' = IF to = w.to THEN Arrived(w.at, to, w.then) ELSE entry
      BY <1>1 DEF TransitionTo
  <2>2. w \in Walk /\ w.at \in Gateways /\ to \in CallState
      BY <1>1, AcceptedType DEF Walk
  <2>3. row' \in Row /\ row'.conversation = row.conversation
      BY <2>1, <2>2 DEF TypeOK, Row
  <2>4. [w EXCEPT !.from = to] \in Walk
      BY <2>2 DEF Walk
  <2>5. walks' \subseteq Walk
      BY <2>1, <2>4 DEF TypeOK
  <2>6. entry' \in [Gateways -> Entry \cup {NoEntry}]
    <3>1. CASE to = w.to /\ ~(w.then = "callback" \/ entry[w.at] = NoEntry)
      <4>1. [entry[w.at] EXCEPT !.state = to] \in Entry
          BY <2>2, <3>1, RegisteredType DEF Entry
      <4>2. entry' = [entry EXCEPT ![w.at] = [entry[w.at] EXCEPT !.state = to]]
          BY <2>1, <3>1 DEF Arrived
      <4>3. QED
          BY <2>2, <4>1, <4>2, EntryType
    <3>2. CASE ~(to = w.to /\ ~(w.then = "callback" \/ entry[w.at] = NoEntry))
        BY <2>1, <3>2 DEF Arrived, TypeOK
    <3>3. QED
        BY <3>1, <3>2
  <2>7. QED
      BY <2>3, <2>5, <2>6 DEF TransitionTo, TypeOK, SessionIsClaimed
<1>2. CASE ~Accepts(w.from, to)
    BY <1>2 DEF TransitionTo, TypeOK, SessionIsClaimed
<1>3. QED
    BY <1>1, <1>2

-------------------------------------------------------------------------------
(* The media socket and the end of the session.                             *)

\* The steps that end a session, or carry it on, touch entries and walks only.
LEMMA EndingKeepsIInv ==
    ASSUME IInv, NEW g \in Gateways, Ending(g)
    PROVE  IInv'
<1> SUFFICES TypeOK' /\ SessionIsClaimed'
    BY DEF IInv
<1>0. TypeOK /\ SessionIsClaimed
    BY DEF IInv
<1> USE <1>0
<1>1. CASE MediaLost(g)
  <2>1. entry[g] \in Entry
      BY <1>1, RegisteredType DEF MediaLost, Registered
  <2>2. [entry[g] EXCEPT !.reconnect = TRUE] \in Entry
      BY <2>1 DEF Entry
  <2>3. entry' \in [Gateways -> Entry \cup {NoEntry}]
      BY <1>1, <2>2, EntryType DEF MediaLost
  <2>4. Walking(g, entry[g].state, "interrupted", "nothing") \subseteq Walk
      BY <2>1, WalkingType DEF Entry, CallState
  <2>5. drops' \in 0 .. MaxDrops /\ drops + 1 = drops'
      BY <1>1, GatewayAssumption DEF MediaLost, TypeOK
  <2>6. ASSUME NEW w \in Walking(g, entry[g].state, "interrupted", "nothing")
        PROVE  [w EXCEPT !.nr = drops + 1] \in Walk
      BY <2>4, <2>5 DEF Walk
  <2>7. walks' \subseteq Walk
      BY <1>1, <2>6 DEF MediaLost, TypeOK
  <2>8. QED
      BY <1>1, <2>3, <2>5, <2>7 DEF MediaLost, TypeOK, SessionIsClaimed
<1>2. CASE Reattach(g)
  <2>1. entry[g] \in Entry
      BY <1>2, RegisteredType DEF Reattach, Registered
  <2>2. [entry[g] EXCEPT !.reconnect = FALSE] \in Entry
      BY <2>1 DEF Entry
  <2>3. entry' \in [Gateways -> Entry \cup {NoEntry}]
      BY <1>2, <2>2, EntryType DEF Reattach
  <2>4. walks' \subseteq Walk
      BY <1>2, <2>1, WalkingType DEF Reattach, Entry, CallState, TypeOK
  <2>5. QED
      BY <1>2, <2>3, <2>4 DEF Reattach, TypeOK, SessionIsClaimed
<1>3. CASE SessionEnds(g)
    BY <1>3, EndedType DEF SessionEnds, TypeOK, SessionIsClaimed
<1>4. CASE ReconnectTimeout(g)
  <2> DEFINE ended == Ended(g, "completed")
  <2>1. ended \in [Gateways -> Entry \cup {NoEntry}] /\ ended[g] \in Entry
      BY <1>4, EndedType DEF ReconnectTimeout
  <2>2. [ended[g] EXCEPT !.reconnect = FALSE] \in Entry
      BY <2>1 DEF Entry
  <2>3. entry' = [ended EXCEPT ![g] = [ended[g] EXCEPT !.reconnect = FALSE]]
      BY <1>4 DEF ReconnectTimeout
  <2>4. entry' \in [Gateways -> Entry \cup {NoEntry}]
      BY <2>1, <2>2, <2>3
  <2>5. QED
      BY <1>4, <2>4 DEF ReconnectTimeout, TypeOK, SessionIsClaimed
<1>5. CASE Finalize(g)
  <2>1. entry[g] \in Entry
      BY <1>5, RegisteredType DEF Finalize, Registered
  <2> DEFINE last == [entry[g] EXCEPT !.step = "finalizing", !.reconnect = FALSE]
  <2>2. last \in Entry
      BY <2>1 DEF Entry
  <2>3. entry' = [entry EXCEPT ![g] = last]
      BY <1>5, <2>1 DEF Finalize, TypeOK, Entry
  <2>4. entry[g].state \in CallState /\ entry[g].reason \in CallState
      BY <2>1, StatusType DEF Entry
  <2>5. walks' \subseteq Walk
      BY <1>5, <2>4, WalkingType DEF Finalize, TypeOK
  <2>6. entry' \in [Gateways -> Entry \cup {NoEntry}]
      BY <2>2, <2>3, EntryType
  <2>7. QED
      BY <1>5, <2>5, <2>6 DEF Finalize, TypeOK, SessionIsClaimed
<1>6. CASE RecordOutcome(g)
  <2>1. row' \in Row /\ row'.conversation = row.conversation
      BY <1>6 DEF RecordOutcome, TypeOK, Row
  <2>2. QED
      BY <1>6, <2>1 DEF RecordOutcome, TypeOK, SessionIsClaimed
<1>7. QED
    BY <1>1, <1>2, <1>3, <1>4, <1>5, <1>6 DEF Ending

-------------------------------------------------------------------------------
(* The carrier, and failures.                                               *)

\* A callback ends a session or begins a walk from a state that is not terminal.
LEMMA CallbackKeepsIInv ==
    ASSUME IInv, NEW g \in Gateways, NEW status \in FinalStatus, Callback(g, status)
    PROVE  IInv'
<1> SUFFICES TypeOK' /\ SessionIsClaimed'
    BY DEF IInv
<1>0. TypeOK /\ SessionIsClaimed
    BY DEF IInv
<1> USE <1>0
<1>1. callbacks' \in 0 .. MaxCallbacks
    BY GatewayAssumption DEF Callback, TypeOK
<1>2. entry' \in [Gateways -> Entry \cup {NoEntry}]
    BY EndedType DEF Callback, TypeOK
<1>3. row.state \notin Terminal \cup {"absent"} => row.state \in CallState
    BY DEF TypeOK, Row
<1>4. walks' \subseteq Walk
    BY <1>3, StatusType, WalkingType DEF Callback, TypeOK
<1>5. QED
    BY <1>1, <1>2, <1>4 DEF Callback, TypeOK, SessionIsClaimed

\* A shutdown, a crash or a failing statement forgets, and claims nothing.
LEMMA FailureKeepsIInv ==
    ASSUME IInv, NEW g \in Gateways, Shutdown(g) \/ Crash(g) \/ StatementFails(g)
    PROVE  IInv'
<1> SUFFICES TypeOK' /\ SessionIsClaimed'
    BY DEF IInv
<1>0. TypeOK /\ SessionIsClaimed
    BY DEF IInv
<1> USE <1>0
<1>1. CASE Shutdown(g)
    BY <1>1, EndedType DEF Shutdown, TypeOK, SessionIsClaimed
<1>2. CASE Crash(g)
  <2>1. failures' \in 0 .. MaxFailures
      BY <1>2, GatewayAssumption DEF Crash, TypeOK
  <2>2. admission' \in [Gateways -> Admission]
      BY <1>2, NoAdmissionType, AdmissionType DEF Crash, Refuse
  <2>3. QED
      BY <1>2, <2>1, <2>2 DEF Crash, TypeOK, SessionIsClaimed
<1>3. CASE StatementFails(g)
  <2>1. failures' \in 0 .. MaxFailures
      BY <1>3, GatewayAssumption DEF StatementFails, TypeOK
  <2>2. admission' \in [Gateways -> Admission]
      BY <1>3, NoAdmissionType, AdmissionType DEF StatementFails, Refuse, TypeOK
  <2>3. entry' \in [Gateways -> Entry \cup {NoEntry}] /\ walks' \subseteq Walk
      BY <1>3 DEF StatementFails, TypeOK
  <2>4. QED
      BY <1>3, <2>1, <2>2, <2>3 DEF StatementFails, TypeOK, SessionIsClaimed
<1>4. QED
    BY <1>1, <1>2, <1>3

-------------------------------------------------------------------------------
(* The theorems.                                                            *)

\* IInv is inductive.
LEMMA StepKeepsIInv == IInv /\ [Next]_vars => IInv'
<1> SUFFICES ASSUME IInv, [Next]_vars
             PROVE  IInv'
    OBVIOUS
<1>1. CASE UNCHANGED vars
    BY <1>1 DEF vars, IInv, TypeOK, SessionIsClaimed
<1>2. CASE Next
    BY <1>2, AdmittingKeepsIInv, EndingKeepsIInv, CallbackKeepsIInv, FailureKeepsIInv,
       TransitionKeepsIInv DEF Next
<1>3. QED
    BY <1>1, <1>2

\* The row, the admissions, the registries and the walks are always well typed; in
\* particular no walk is at a state the table does not have.
THEOREM TypeCorrect == Spec => []TypeOK
<1>1. IInv => TypeOK
    BY DEF IInv
<1>2. QED
    BY <1>1, Initial, StepKeepsIInv, PTL DEF Spec

\* Whatever sockets, replayed start frames, gateways and restarts there are: a call
\* gets one media session (the claim of begin_call_conversation).
THEOREM OneSession == Spec => []OneSessionPerCall
<1>1. IInv => OneSessionPerCall
    BY DEF IInv, SessionIsClaimed, OneSessionPerCall
<1>2. QED
    BY <1>1, Initial, StepKeepsIInv, PTL DEF Spec

\* Every step of every handler leaves the row's state alone, shows an inbound call
\* ringing, or moves the row along the table (transitionCall and its trigger).
LEMMA StepMovesAlongTheTable ==
    ASSUME IInv, [Next]_vars
    PROVE  [Life!Answered \/ Life!Move]_(row.state)
<1> USE DEF Life!Answered, Life!Move, state
<1>0. Life!Transitions = Transitions /\ Life!CallState = CallState
    BY Zenon DEF Life!Transitions, Transitions, Life!CallState, CallState
<1>1. ASSUME NEW g \in Gateways, Create(g)
      PROVE  row'.state = row.state \/ Life!Answered
    BY <1>1 DEF Create, IInv, TypeOK, Row
<1>2. ASSUME NEW g \in Gateways, Admitting(g), ~Create(g)
      PROVE  row'.state = row.state
    BY <1>2 DEF Admitting, StartFrame, Lookup, Claim, Start, IInv, TypeOK, Row
<1>3. ASSUME NEW g \in Gateways, Ending(g)
      PROVE  row'.state = row.state
    BY <1>3 DEF Ending, MediaLost, Reattach, SessionEnds, ReconnectTimeout, Finalize,
                RecordOutcome, IInv, TypeOK, Row
<1>4. ASSUME NEW w \in walks, Transition(w)
      PROVE  row'.state = row.state \/ Life!Move
  <2> PICK to : TransitionTo(w, to)
      BY <1>4, TransitionLeadsSomewhere
  <2>1. CASE Accepts(w.from, to)
    <3>1. row' = [row EXCEPT !.state = to]
        BY <2>1 DEF TransitionTo
    <3>2. row.state \in CallState /\ to \in Transitions[row.state]
        BY <2>1, AcceptedType DEF IInv, Accepts
    <3>3. row'.state = to
        BY <3>1 DEF IInv, TypeOK, Row
    <3>4. QED
        BY <1>0, <3>2, <3>3
  <2>2. CASE ~Accepts(w.from, to)
      BY <2>2 DEF TransitionTo
  <2>3. QED
      BY <2>1, <2>2
<1>5. ASSUME NEW g \in Gateways, Shutdown(g) \/ Crash(g) \/ StatementFails(g)
      PROVE  row'.state = row.state
    BY <1>5 DEF Shutdown, Crash, StatementFails
<1>6. ASSUME NEW g \in Gateways, NEW status \in FinalStatus, Callback(g, status)
      PROVE  row'.state = row.state
    BY <1>6 DEF Callback
<1>7. CASE UNCHANGED vars
    BY <1>7 DEF vars
<1>8. QED
    BY <1>1, <1>2, <1>3, <1>4, <1>5, <1>6, <1>7 DEF Next

\* However walks, callbacks and gateways interleave, the row of a call behaves as the
\* lifecycle of a call promises: along the table, and never out of a terminal state.
THEOREM RowKeepsLifecycle == Spec => ImplementsCallLifecycle
<1>1. Init => Life!Init
    BY DEF Init, Life!Init, state
<1>2. IInv /\ [Next]_vars => [Life!Answered \/ Life!Move]_(row.state)
    BY StepMovesAlongTheTable
<1>3. QED
    BY <1>1, <1>2, Initial, StepKeepsIInv, PTL
    DEF Spec, ImplementsCallLifecycle, Life!Spec, state
===============================================================================

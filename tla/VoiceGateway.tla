----------------------------- MODULE VoiceGateway -----------------------------
(***************************************************************************)
(* One phone call as the voice gateways see it (packages/voice/gateway.ts,   *)
(* services/voice-gateway/server.ts, stores/supabase-call-store.ts): media   *)
(* sockets and carrier callbacks arrive at any of several gateway processes, *)
(* which share the row of the call and nothing else.                         *)
(*                                                                         *)
(* A handler runs to its next await; every statement on the database is an   *)
(* action of its own.  The media session is the one of MediaSession: started *)
(* once, ended once by whatever reason.  The other calls of a gateway matter *)
(* only to its capacity, which may refuse this one.                          *)
(***************************************************************************)
EXTENDS CallStates, FiniteSets

CONSTANTS
    Gateways,
    FinalStatus,   \* what the carrier reports of a call that is over
    EndStates,     \* terminalStateFor of the reasons for which a session ends itself
    MaxDrops,      \* how often a gateway loses the media socket
    MaxCallbacks,  \* how often the carrier reports that the call is over
    MaxFailures    \* how often a process dies or a statement fails

ASSUME GatewayAssumption ==
    /\ IsFiniteSet(Gateways)
    /\ FinalStatus \subseteq {"completed", "no_answer", "busy", "failed", "cancelled"}
    /\ EndStates \subseteq {"completed", "failed", "transferred"}
    /\ {MaxDrops, MaxCallbacks, MaxFailures} \subseteq Nat

VARIABLES
    row,        \* the call's row, and whether its outcome is recorded
    admission,  \* per gateway: the startSession in flight (starting)
    entry,      \* per gateway: the Session, until it is finalized and recorded
    walks,      \* the walks of the row along a path that are in flight
    draining,   \* the gateways that shut down
    sessions,   \* history: the number of media sessions ever created
    drops, callbacks, failures

vars == <<row, admission, entry, walks, draining, sessions, drops, callbacks, failures>>

CONSTANTS NoEntry

state == row.state

Life == INSTANCE CallLifecycle

Row == [state : CallState \cup {"absent"}, conversation : BOOLEAN, outcome : BOOLEAN]

\* seen is the state that createOrGetCall returned.
Admission == [step : {"none", "lookup", "create"}, seen : {"absent"}]
             \cup [step : {"claim", "walk"}, seen : CallState]

\* reason is terminalStateFor of the summary's reason; in step "finalizing" the session
\* has left the registry.
Entry == [step : {"idle", "live", "closing", "finalizing"}, state : CallState,
          reconnect : BOOLEAN, reason : EndStates \cup {"completed"}]

\* then is what awaits the walk; nr tells apart the walks of a socket lost repeatedly.
Walk == [at : Gateways, from : CallState, to : CallState, nr : 0 .. MaxDrops,
         then : {"start", "record", "nothing", "callback"}]

TypeOK ==
    /\ row \in Row
    /\ admission \in [Gateways -> Admission]
    /\ entry \in [Gateways -> Entry \cup {NoEntry}]
    /\ walks \subseteq Walk
    /\ draining \subseteq Gateways
    /\ sessions \in Nat
    /\ drops \in 0 .. MaxDrops
    /\ callbacks \in 0 .. MaxCallbacks
    /\ failures \in 0 .. MaxFailures

NoAdmission == [step |-> "none", seen |-> "absent"]

\* An inbound call has no row yet, an outbound one was written when it was dialed.
Init ==
    /\ row \in [state : {"absent", "queued"}, conversation : {FALSE}, outcome : {FALSE}]
    /\ admission = [g \in Gateways |-> NoAdmission]
    /\ entry = [g \in Gateways |-> NoEntry]
    /\ walks = {}
    /\ draining = {}
    /\ sessions = 0
    /\ drops = 0
    /\ callbacks = 0
    /\ failures = 0

-------------------------------------------------------------------------------
\* In the maps sessions and byProviderCall.
Registered(g) == entry[g] # NoEntry /\ entry[g].step \in {"idle", "live", "closing"}

Admit(g, step, seen) == admission' = [admission EXCEPT ![g] = [step |-> step, seen |-> seen]]

Refuse(g) == admission' = [admission EXCEPT ![g] = NoAdmission]

\* advanceTo: no walk is begun to where the entry already is, or without a path.
Walking(g, from, to, then) ==
    IF from = to \/ ~Reachable(from, to) THEN {}
    ELSE {[at |-> g, from |-> from, to |-> to, nr |-> drops, then |-> then]}

-------------------------------------------------------------------------------
(* Admission: startSession and beginSession.                                *)

\* The start frame of a media socket.  Another start for the call is joined.
StartFrame(g) ==
    /\ g \notin draining
    /\ admission[g].step = "none"
    /\ ~Registered(g)
    /\ Admit(g, "lookup", "absent")
    /\ UNCHANGED <<row, entry, walks, draining, sessions, drops, callbacks, failures>>

\* Of a persisted call, or the number that was dialed; the number may be unknown, and
\* the gateway full.
Lookup(g) ==
    /\ admission[g].step = "lookup"
    /\ \/ Refuse(g)
       \/ /\ row.state \notin Terminal
          /\ ~row.conversation
          /\ Admit(g, "create", "absent")
    /\ UNCHANGED <<row, entry, walks, draining, sessions, drops, callbacks, failures>>

\* createOrGetCall: the unique provider call id makes a second insert a lookup.
Create(g) ==
    LET found == IF row.state = "absent" THEN "ringing" ELSE row.state IN
    /\ admission[g].step = "create"
    /\ row' = [row EXCEPT !.state = found]
    /\ IF found \in Terminal THEN Refuse(g) ELSE Admit(g, "claim", found)
    /\ UNCHANGED <<entry, walks, draining, sessions, drops, callbacks, failures>>

\* Mutant: the conversation of the call is taken over instead of refused.
ClaimAnyway(g) ==
    /\ admission[g].step = "claim"
    /\ row.state \notin Terminal
    /\ row' = [row EXCEPT !.conversation = TRUE]
    /\ entry' = [entry EXCEPT ![g] = [step |-> "idle", state |-> admission[g].seen,
                                      reconnect |-> FALSE, reason |-> "completed"]]
    /\ walks' = walks \cup Walking(g, admission[g].seen, "in_conversation", "start")
    /\ sessions' = sessions + 1
    /\ Admit(g, "walk", admission[g].seen)
    /\ UNCHANGED <<draining, drops, callbacks, failures>>

\* begin_call_conversation, and what beginSession does up to its next await: the session
\* is registered, and the row walks to in_conversation.
Claim(g) ==
    /\ admission[g].step = "claim"
    /\ \/ /\ Refuse(g)
          /\ UNCHANGED <<row, entry, walks, sessions>>
       \/ /\ ~row.conversation
          /\ row.state \notin Terminal
          /\ row' = [row EXCEPT !.conversation = TRUE]
          /\ entry' = [entry EXCEPT ![g] = [step |-> "idle", state |-> admission[g].seen,
                                            reconnect |-> FALSE, reason |-> "completed"]]
          /\ walks' = walks \cup Walking(g, admission[g].seen, "in_conversation", "start")
          /\ sessions' = sessions + 1
          /\ Admit(g, "walk", admission[g].seen)
    /\ UNCHANGED <<draining, drops, callbacks, failures>>

\* The walk is over, however it ended: session.start(), unless it was ended before.
Start(g) ==
    /\ admission[g].step = "walk"
    /\ \A w \in walks : ~(w.at = g /\ w.then = "start")
    /\ Refuse(g)
    /\ entry' = IF entry[g] # NoEntry /\ entry[g].step = "idle"
                THEN [entry EXCEPT ![g].step = "live"] ELSE entry
    /\ UNCHANGED <<row, walks, draining, sessions, drops, callbacks, failures>>

-------------------------------------------------------------------------------
(* The walks of the row.                                                    *)

\* transitionCall: compare-and-set, and the trigger holds the table.
Accepts(from, to) == row.state = from /\ to \in Transitions[from]

\* Where the row is after a walk, as the entry believes.
Arrived(g, to, then) ==
    IF then = "callback" \/ entry[g] = NoEntry THEN entry
    ELSE [entry EXCEPT ![g].state = to]

\* Mutant: the update names only the id, and there is no trigger.
TransitionAnyway(w) ==
    LET to == NextOnPath[w.from, w.to] IN
    /\ w \in walks
    /\ row' = [row EXCEPT !.state = to]
    /\ walks' = (walks \ {w}) \cup (IF to = w.to THEN {} ELSE {[w EXCEPT !.from = to]})
    /\ entry' = IF to = w.to THEN Arrived(w.at, to, w.then) ELSE entry
    /\ UNCHANGED <<admission, draining, sessions, drops, callbacks, failures>>

\* One transition of a walk; the walk ends where it is refused.
Transition(w) ==
    LET to == NextOnPath[w.from, w.to] IN
    /\ w \in walks
    /\ IF Accepts(w.from, to)
       THEN /\ row' = [row EXCEPT !.state = to]
            /\ walks' = (walks \ {w}) \cup (IF to = w.to THEN {} ELSE {[w EXCEPT !.from = to]})
            /\ entry' = IF to = w.to THEN Arrived(w.at, to, w.then) ELSE entry
       ELSE /\ walks' = walks \ {w}
            /\ UNCHANGED <<row, entry>>
    /\ UNCHANGED <<admission, draining, sessions, drops, callbacks, failures>>

-------------------------------------------------------------------------------
(* The media socket and the end of the session.                             *)

\* mediaDisconnected: the walk to interrupted is not awaited.
MediaLost(g) ==
    /\ Registered(g)
    /\ admission[g].step = "none"
    /\ ~entry[g].reconnect
    /\ drops < MaxDrops
    /\ drops' = drops + 1
    /\ walks' = walks \cup {[w EXCEPT !.nr = drops + 1] :
                              w \in Walking(g, entry[g].state, "interrupted", "nothing")}
    /\ entry' = [entry EXCEPT ![g].reconnect = TRUE]
    /\ UNCHANGED <<row, admission, draining, sessions, callbacks, failures>>

\* attachMedia: the call is carried by another socket.
Reattach(g) ==
    /\ g \notin draining
    /\ Registered(g)
    /\ entry[g].reconnect
    /\ entry' = [entry EXCEPT ![g].reconnect = FALSE]
    /\ walks' = walks \cup Walking(g, entry[g].state, "in_conversation", "nothing")
    /\ UNCHANGED <<row, admission, draining, sessions, drops, callbacks, failures>>

\* session.end, by a hangup or by the session itself; only the first reason counts.
Ended(g, reason) ==
    IF Registered(g) /\ entry[g].step # "closing"
    THEN [entry EXCEPT ![g].step = "closing", ![g].reason = reason]
    ELSE entry

SessionEnds(g) ==
    /\ Registered(g)
    /\ entry[g].step = "live"
    /\ \E reason \in EndStates : entry' = Ended(g, reason)
    /\ UNCHANGED <<row, admission, walks, draining, sessions, drops, callbacks, failures>>

ReconnectTimeout(g) ==
    /\ Registered(g)
    /\ entry[g].reconnect
    /\ entry' = [Ended(g, "completed") EXCEPT ![g].reconnect = FALSE]
    /\ UNCHANGED <<row, admission, walks, draining, sessions, drops, callbacks, failures>>

\* onEnded and finalize, up to its first await: the session leaves the registry.
Finalize(g) ==
    /\ Registered(g)
    /\ entry[g].step = "closing"
    /\ entry' = [entry EXCEPT ![g].step = "finalizing", ![g].reconnect = FALSE]
    /\ walks' = walks \cup Walking(g, entry[g].state, entry[g].reason, "record")
    /\ UNCHANGED <<row, admission, draining, sessions, drops, callbacks, failures>>

\* Mutant: the walk's failure is not caught, and nothing after it runs.
RecordOutcomeStrict(g) ==
    /\ entry[g] # NoEntry
    /\ entry[g].step = "finalizing"
    /\ \A w \in walks : ~(w.at = g /\ w.then = "record")
    /\ row' = [row EXCEPT !.outcome = @ \/ row.state \in Terminal]
    /\ entry' = [entry EXCEPT ![g] = NoEntry]
    /\ UNCHANGED <<admission, walks, draining, sessions, drops, callbacks, failures>>

\* The walk to the terminal state is over, however it ended.  finalizeCall, which writes
\* nothing that is modelled, and recordOutcome, with the suppression of the number: one
\* outcome per call.
RecordOutcome(g) ==
    /\ entry[g] # NoEntry
    /\ entry[g].step = "finalizing"
    /\ \A w \in walks : ~(w.at = g /\ w.then = "record")
    /\ row' = [row EXCEPT !.outcome = TRUE]
    /\ entry' = [entry EXCEPT ![g] = NoEntry]
    /\ UNCHANGED <<admission, walks, draining, sessions, drops, callbacks, failures>>

-------------------------------------------------------------------------------
(* The carrier, and failures.                                               *)

\* handleProviderEvent for a final status: a live session is ended, else the row is
\* read and walks to the state of that name.
Callback(g, status) ==
    /\ callbacks < MaxCallbacks
    /\ callbacks' = callbacks + 1
    /\ IF Registered(g)
       THEN entry' = Ended(g, "completed") /\ UNCHANGED walks
       ELSE /\ walks' = walks \cup (IF row.state \in Terminal \cup {"absent"} THEN {}
                                    ELSE Walking(g, row.state, status, "callback"))
            /\ UNCHANGED entry
    /\ UNCHANGED <<row, admission, draining, sessions, drops, failures>>

\* Every session of that moment is ended; what is being admitted is not.
Shutdown(g) ==
    /\ g \notin draining
    /\ draining' = draining \cup {g}
    /\ entry' = Ended(g, "completed")
    /\ UNCHANGED <<row, admission, walks, sessions, drops, callbacks, failures>>

Crash(g) ==
    /\ failures < MaxFailures
    /\ failures' = failures + 1
    /\ entry' = [entry EXCEPT ![g] = NoEntry]
    /\ walks' = {w \in walks : w.at # g}
    /\ draining' = draining \ {g}
    /\ Refuse(g)
    /\ UNCHANGED <<row, sessions, drops, callbacks>>

\* A statement fails: an admission is refused, a walk stops where it is, and the rest of
\* the recording is skipped.
StatementFails(g) ==
    /\ failures < MaxFailures
    /\ failures' = failures + 1
    /\ \/ /\ admission[g].step \in {"lookup", "create", "claim"}
          /\ Refuse(g)
          /\ UNCHANGED <<entry, walks>>
       \/ /\ \E w \in walks : w.at = g /\ walks' = walks \ {w}
          /\ UNCHANGED <<admission, entry>>
       \/ /\ entry[g] # NoEntry
          /\ entry[g].step = "finalizing"
          /\ \A w \in walks : ~(w.at = g /\ w.then = "record")
          /\ entry' = [entry EXCEPT ![g] = NoEntry]
          /\ UNCHANGED <<admission, walks>>
    /\ UNCHANGED <<row, draining, sessions, drops, callbacks>>

-------------------------------------------------------------------------------
Admitting(g) == StartFrame(g) \/ Lookup(g) \/ Create(g) \/ Claim(g) \/ Start(g)

Ending(g) ==
    \/ MediaLost(g) \/ Reattach(g) \/ SessionEnds(g) \/ ReconnectTimeout(g)
    \/ Finalize(g) \/ RecordOutcome(g)

Next ==
    \/ \E g \in Gateways :
          \/ Admitting(g) \/ Ending(g) \/ Shutdown(g) \/ Crash(g) \/ StatementFails(g)
          \/ \E status \in FinalStatus : Callback(g, status)
    \/ \E w \in walks : Transition(w)

Spec == Init /\ [][Next]_vars

\* A session that was started ends (MediaSession; SessionEnds of both engines), timers
\* fire, and the database answers each statement, if only by failing.
Fairness ==
    /\ \A g \in Gateways :
           /\ WF_vars(Start(g))
           /\ WF_vars(SessionEnds(g))
           /\ WF_vars(ReconnectTimeout(g))
           /\ WF_vars(Finalize(g))
           /\ WF_vars(RecordOutcome(g))
    /\ WF_vars(\E w \in walks : Transition(w))

FairSpec == Spec /\ Fairness

-------------------------------------------------------------------------------
(* Properties.                                                              *)

\* However many sockets, replayed start frames and gateways there are, and even after
\* a restart, a call gets one media session and one conversation (the single flight of
\* startSession and the claim of begin_call_conversation).
OneSessionPerCall == sessions <= 1

\* The row moves only along the table, and a late callback or a late walk never brings
\* a finished call back (transitionCall and the trigger against concurrent walks).
ImplementsCallLifecycle == Life!Spec

\* Hangups, carrier callbacks, lost sockets and shutdowns may race each other and the
\* walks of the row, and the last walk may fail: the outcome of a call that got a
\* session is recorded all the same, unless a process died or a statement failed
\* (finalize catches what advanceTo throws and goes on).
EverySessionHasOutcome == sessions > 0 ~> (row.outcome \/ failures > 0)

\* Nothing about the call is under way anywhere.
Quiet ==
    /\ walks = {}
    /\ \A g \in Gateways : admission[g] = NoAdmission /\ entry[g] = NoEntry

\* "It may recover to in_conversation on one media reconnect, or proceed to completing"
\* (docs/VOICE_STATE_MACHINE.md:50): a call that is over is not left interrupted.  The
\* walk to interrupted is not awaited and may make the walk of finalize fail.
InterruptedProceeds == Quiet /\ failures = 0 => row.state # "interrupted"
===============================================================================

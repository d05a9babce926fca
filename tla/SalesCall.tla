------------------------------- MODULE SalesCall -------------------------------
(***************************************************************************)
(* A qualification call (core/services/voice/sales-call.ts): the providers   *)
(* that run before the model in every turn - the customer already known, the *)
(* qualification engine, the booking of a visit - and the outcome that is    *)
(* computed when the call is over.                                          *)
(*                                                                         *)
(* The providers live as long as the call.  A turn may be cancelled before   *)
(* it has acted; its words then come before the caller's next ones, but what *)
(* the providers made of them stays.  Turns that are given up while they run *)
(* are the subject of AgentTurns.                                           *)
(***************************************************************************)
EXTENDS Qualification

CONSTANTS
    Utterances,   \* what the caller may say, as the language pack reads it
    Known,        \* what the customer record may hold: a set of sets of fields
    VisitSlots,   \* the free times of the calendar when the call begins
    MaxAttempts,  \* of the booking of a visit
    Patience      \* bound: how often a field is asked for

VARIABLES
    snapshot,   \* of the qualification provider
    loaded,     \* the customer record was read
    visit,      \* BookingStepState
    calendar,   \* the times that are free, and those of this conversation
    turn,       \* the turn in flight
    call        \* what the call keeps across turns, and its outcome

salesVars == <<snapshot, loaded, visit, calendar, turn, call>>

Utterance == [intents : SUBSET Intent, reads : [Fields -> Reading \cup {NoReading}],
              picks : BOOLEAN, time : BOOLEAN]

NoWords == [intents |-> {}, reads |-> [f \in Fields |-> NoReading], picks |-> FALSE,
            time |-> FALSE]

NoSlot == "none"

Idle == [at |-> "idle"]

\* told is what the section of the booking provider has the model say of the visit.
Turn == [at : {"context", "offering", "finding", "inserting", "model"}, words : Utterance,
         slot : VisitSlots \cup {NoSlot}, told : {"unspoken", "booked", "not_booked"}]

Disposition == {"do_not_call", "wrong_number", "appointment_booked", "escalated_to_human",
                "callback_requested", "not_qualified", "no_outcome", "qualified"}

SalesTypeOK ==
    /\ SchemaOK
    /\ snapshot \in Snapshot
    /\ loaded \in BOOLEAN
    /\ visit \in [phase : {"idle", "offered", "booked", "failed"}, offered : SUBSET VisitSlots,
                  attempts : 0 .. MaxAttempts]
    /\ calendar \in [free : SUBSET VisitSlots, visits : SUBSET VisitSlots]
    /\ turn \in Turn \cup {Idle}
    /\ call.carried \in Utterance
    /\ call.booked \in BOOLEAN
    /\ call.turns \in BOOLEAN
    /\ call.disposition \in Disposition \cup {"open"}

SalesInit ==
    /\ snapshot = EmptySnapshot
    /\ loaded = FALSE
    /\ visit = [phase |-> "idle", offered |-> {}, attempts |-> 0]
    /\ calendar = [free |-> VisitSlots, visits |-> {}]
    /\ turn = Idle
    /\ call = [carried |-> NoWords, booked |-> FALSE, turns |-> FALSE, disposition |-> "open"]

-------------------------------------------------------------------------------
(* A turn.                                                                  *)

\* The words of a cancelled turn and the next ones, read as one text.
Merged(u, v) ==
    {[intents |-> u.intents \cup v.intents,
      reads |-> [f \in Fields |->
                    IF NoReading \in {u.reads[f], v.reads[f]}
                    THEN IF u.reads[f] = NoReading THEN v.reads[f] ELSE u.reads[f]
                    ELSE IF f \in first THEN u.reads[f] ELSE v.reads[f]],
      picks |-> u.picks \/ v.picks, time |-> u.time \/ v.time] : first \in SUBSET Fields}

TurnBegins(u) ==
    /\ call.disposition = "open"
    /\ turn = Idle
    /\ \E words \in Merged(call.carried, u) :
          turn' = [at |-> "context", words |-> words, slot |-> NoSlot, told |-> "unspoken"]
    /\ call' = [call EXCEPT !.carried = NoWords]
    /\ UNCHANGED <<snapshot, loaded, visit, calendar>>

\* The caller barges in before the turn has acted.
TurnIsCancelled ==
    /\ turn # Idle
    /\ turn.at \in {"context", "model"}
    /\ turn.told # "booked"
    /\ turn.words \in Utterances   \* bound
    /\ turn' = Idle
    /\ call' = [call EXCEPT !.carried = turn.words]
    /\ UNCHANGED <<snapshot, loaded, visit, calendar>>

TurnEnds ==
    /\ turn # Idle
    /\ turn.at = "model"
    /\ turn' = Idle
    /\ call' = [call EXCEPT !.turns = TRUE]
    /\ UNCHANGED <<snapshot, loaded, visit, calendar>>

-------------------------------------------------------------------------------
(* The providers.                                                           *)

\* existing_customer: restore replaces the whole snapshot.  A lookup that fails is tried
\* again in the next turn.
Restored(known) ==
    [EmptySnapshot EXCEPT !.fields = [f \in Fields |->
        IF f \in known THEN [value |-> "plain", unit |-> FALSE, confirmed |-> TRUE] ELSE NoValue]]

KnownCustomer ==
    IF loaded THEN {[snapshot |-> snapshot, loaded |-> TRUE]}
    ELSE {[snapshot |-> snapshot, loaded |-> FALSE]}
         \cup {[snapshot |-> Restored(known), loaded |-> TRUE] : known \in Known}

\* VisitBookingStepProvider.prepare up to its first await: where the turn goes on.
VisitStep(s, v, words) ==
    CASE v.phase = "booked" -> "told"
      [] v.phase # "booked" /\ (s.status # "complete" \/ s.human \/ v.attempts >= MaxAttempts) ->
            "nothing"
      [] OTHER ->
            IF v.phase = "idle" \/ v.offered = {} THEN "offer"
            ELSE IF words.picks THEN "choose"
            ELSE IF words.time THEN "offer" ELSE "insist"

Providers ==
    /\ turn # Idle
    /\ turn.at = "context"
    /\ \E k \in KnownCustomer, poorlyHeard \in BOOLEAN :
          LET s == Prepare(k.snapshot, turn.words, poorlyHeard)
              step == VisitStep(s, visit, turn.words) IN
          /\ \A f \in Fields : s.attempts[f] <= Patience
          /\ snapshot' = s
          /\ loaded' = k.loaded
          /\ visit' = IF step = "insist" THEN [visit EXCEPT !.attempts = @ + 1] ELSE visit
          /\ CASE step = "offer" -> turn' = [turn EXCEPT !.at = "offering"]
               [] step = "choose" ->
                     \E c \in visit.offered : turn' = [turn EXCEPT !.at = "finding", !.slot = c]
               [] step = "told" -> turn' = [turn EXCEPT !.at = "model", !.told = "booked"]
               [] OTHER -> turn' = [turn EXCEPT !.at = "model"]
    /\ UNCHANGED <<calendar, call>>

Tell(what) == turn' = [turn EXCEPT !.at = "model", !.told = what]

\* offerSlots answers, or throws.
OfferSlots ==
    /\ turn # Idle
    /\ turn.at = "offering"
    /\ \/ UNCHANGED visit
       \/ visit' = IF calendar.free = {}
                   THEN [visit EXCEPT !.phase = "failed", !.attempts = @ + 1]
                   ELSE [visit EXCEPT !.phase = "offered", !.offered = calendar.free]
    /\ Tell("unspoken")
    /\ UNCHANGED <<snapshot, loaded, calendar, call>>

VisitIsBooked ==
    /\ visit' = [visit EXCEPT !.phase = "booked"]
    /\ call' = [call EXCEPT !.booked = TRUE]
    /\ Tell("booked")

\* Mutant: every choice is inserted.
NeverExists == FALSE

\* findLiveAppointmentByConversation finds one.
Exists == calendar.visits # {}

\* The appointment of the conversation, if there is one, answers the choice.
FindExisting ==
    /\ turn # Idle
    /\ turn.at = "finding"
    /\ \/ Exists /\ VisitIsBooked
       \/ ~Exists /\ turn' = [turn EXCEPT !.at = "inserting"] /\ UNCHANGED <<visit, call>>
       \/ Tell("unspoken") /\ UNCHANGED <<visit, call>>
    /\ UNCHANGED <<snapshot, loaded, calendar>>

\* BookingService.book: the insert, and then its answer, which may be lost; the time is
\* gone; or it is refused.
InsertVisit ==
    LET c == turn.slot
        refused == [visit EXCEPT !.attempts = @ + 1] IN
    /\ turn # Idle
    /\ turn.at = "inserting"
    /\ \/ /\ c \in calendar.free
          /\ calendar' = [free |-> calendar.free \ {c}, visits |-> calendar.visits \cup {c}]
          /\ VisitIsBooked \/ (Tell("unspoken") /\ UNCHANGED <<visit, call>>)
       \/ /\ c \notin calendar.free
          /\ visit' = [refused EXCEPT !.phase = "offered", !.offered = calendar.free]
          /\ Tell("not_booked")
          /\ UNCHANGED <<calendar, call>>
       \/ /\ visit' = [refused EXCEPT !.phase = "failed"]
          /\ Tell("not_booked")
          /\ UNCHANGED <<calendar, call>>
       \/ /\ Tell("unspoken")
          /\ UNCHANGED <<visit, calendar, call>>
    /\ UNCHANGED <<snapshot, loaded>>

\* Somebody else takes a time.
SlotIsTaken ==
    /\ turn # Idle /\ turn.at \in {"offering", "inserting"}
    /\ \E c \in calendar.free : calendar' = [calendar EXCEPT !.free = @ \ {c}]
    /\ UNCHANGED <<snapshot, loaded, visit, turn, call>>

-------------------------------------------------------------------------------
(* computeDisposition, and the end of the call.                             *)

Outcome(s, transferred, escalation) ==
    LET collected == \E f \in Fields : s.fields[f] # NoValue IN
    CASE s.status \in {"do_not_call", "wrong_number"} -> s.status
      [] s.status \notin {"do_not_call", "wrong_number"} /\ call.booked -> "appointment_booked"
      [] OTHER ->
            IF transferred THEN "escalated_to_human"
            ELSE IF s.status = "callback_requested" THEN s.status
            ELSE IF s.status = "disqualified" THEN "not_qualified"
            ELSE IF escalation \/ s.human THEN "escalated_to_human"
            ELSE IF ~call.turns THEN "no_outcome"
            ELSE IF s.status = "complete" THEN "qualified"
            ELSE IF ~collected THEN "no_outcome" ELSE "not_qualified"

\* The session is over; a turn may still be in flight.
CallEnds ==
    /\ call.disposition = "open"
    /\ \E transferred, escalation \in BOOLEAN :
          call' = [call EXCEPT !.disposition = Outcome(snapshot, transferred, escalation),
                               !.carried = NoWords]
    /\ turn' = IF turn # Idle /\ turn.at \in {"context", "model"} THEN Idle ELSE turn
    /\ UNCHANGED <<snapshot, loaded, visit, calendar>>

SalesNext ==
    \/ \E u \in Utterances : TurnBegins(u)
    \/ TurnIsCancelled
    \/ TurnEnds
    \/ Providers
    \/ OfferSlots
    \/ FindExisting
    \/ InsertVisit
    \/ SlotIsTaken
    \/ CallEnds

SalesSpec == SalesInit /\ [][SalesNext]_salesVars

-------------------------------------------------------------------------------
(* Properties.                                                              *)

Confirmed(s, f) == Answered(s, f) /\ s.fields[f].confirmed

\* No utterance changes what the caller has confirmed: not what he says next, is misheard to
\* say or says again after a cancelled turn.  The customer record does, when it is read
\* late: restore replaces the whole snapshot, and the engine asks again for what was
\* confirmed (sales-call.ts:140).
UtterancesKeepConfirmed ==
    [][\A f \in Fields :
          Confirmed(snapshot, f) /\ loaded' = loaded => snapshot'.fields[f] = snapshot.fields[f]]_salesVars

\* What the schema wants confirmed is not taken silently: it has been confirmed, is being
\* read back, or was asked for as often as allowed, unless the call is over for the engine.
\* Of the other fields a value that was poorly heard is read back too, but kept unconfirmed
\* when the caller moves on (engine.ts:204).
CriticalIsReadBack ==
    \A f \in Fields :
        Schema[f].confirm /\ Answered(snapshot, f) /\ ~snapshot.fields[f].confirmed =>
            \/ snapshot.awaiting = f
            \/ snapshot.attempts[f] >= Schema[f].maxAttempts
            \/ IsTerminal(snapshot.status)

\* "A repeated yes cannot double-book" (booking-step.ts:16), even when the answer of the
\* scheduler was lost: a conversation has one visit at most, and what is said of it, to
\* the caller and on the record, is so.
VisitIsAsTold ==
    /\ Cardinality(calendar.visits) <= 1
    /\ turn # Idle => /\ turn.told = "booked" => calendar.visits # {}
                      /\ turn.told = "not_booked" => calendar.visits = {}
    /\ call.disposition = "appointment_booked" => calendar.visits # {}

\* "Drop it and ask again" (engine.ts:199): as long as there is a question to ask the
\* engine does not say that everything was collected.
DroppedIsAskedAgain ==
    snapshot.status = "complete" /\ snapshot.awaiting = NoField => snapshot.pending = NoField
===============================================================================

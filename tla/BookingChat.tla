------------------------------ MODULE BookingChat ------------------------------
(***************************************************************************)
(* How a conversation arrives at an appointment: BookingOrchestrator, the     *)
(* draft it keeps in booking_drafts between turns, and the open slots it      *)
(* matches the visitor's words against.  Turns come one at a time; in them    *)
(* and between them others take and give back slots, and the visitor's own    *)
(* appointment is moved, checked in or closed by a link or by staff.         *)
(*                                                                         *)
(* Of a message only what the parsers make of it is kept; the extraction by    *)
(* the language model is any answer its schema allows.  Names, contact data   *)
(* and the service are Details; there is one staff member.  Of what a turn    *)
(* hands on, its outcome is kept, which decides what the reply may claim      *)
(* (actionsForOutcome), and not the words of its prompt section.             *)
(***************************************************************************)
EXTENDS Integers, FiniteSets

CONSTANTS
    Times,          \* the slots of the calendar: [day, at], at in minutes of the day
    Messages,       \* [cancels, commits, about : BOOLEAN, day, hour], 0 for not said
    None,           \* no draft, appointment, turn, outcome or slot
    Details,        \* what must be known before an appointment is made
    SLOT_LIMIT,     \* slots offered for what the visitor asked for
    Alternatives,   \* slots offered instead
    MaxTurns,       \* bound: turns
    MaxOutsiders    \* bound: acts of others

Days == {t.day : t \in Times}

HourOf(at) == at \div 60

VARIABLES
    draft,          \* the row of booking_drafts, or None
    appointment,    \* the conversation's active appointment, [slot, arrived], or None
    rivals,         \* slots others hold
    said,           \* days and hours that recent messages named, and whether one was about a visit
    chat,           \* the turn under way, or None
    told,           \* the outcome of the last turn, while nothing else has changed it
    agreements,     \* history: slots the visitor agreed to since the draft was started
    seen,           \* history: what the appointment was, since the turn loaded it
    turns, outsiders

chatVars == <<draft, appointment, rivals, said, chat, told, agreements, seen, turns, outsiders>>

Draft ==
    [day : Days \cup {0}, time : {0} \cup {60 * m.hour : m \in Messages} \cup {t.at : t \in Times},
     has : SUBSET Details, committed : BOOLEAN]

EMPTY_DRAFT == [day |-> 0, time |-> 0, has |-> {}, committed |-> FALSE]

Appointment == [slot : Times, arrived : BOOLEAN]

Outcomes == {"booked", "rescheduled", "cancelled", "slot_taken", "invalid", "unchanged",
             "guidance", "nothing_to_cancel"}

ChatTypeOK ==
    /\ draft \in Draft \cup {None}
    /\ appointment \in Appointment \cup {None}
    /\ rivals \subseteq Times
    /\ agreements \subseteq Times
    /\ seen \subseteq Appointment \cup {None}
    /\ told = None \/ (told.kind \in Outcomes /\ told.existing \in BOOLEAN)

ChatInit ==
    /\ draft = None
    /\ appointment = None
    /\ rivals = {}
    /\ said = [days |-> {0}, hours |-> {0}, about |-> FALSE]
    /\ chat = None
    /\ told = None
    /\ agreements = {}
    /\ seen = {}
    /\ turns = 0
    /\ outsiders = 0

-------------------------------------------------------------------------------
(* The draft (booking-draft.ts).                                            *)

\* Mutant: a corrected time keeps the agreement to the old one.
MergeKeepsAgreement(d, details, day, hour) ==
    [d EXCEPT !.day = IF day # 0 THEN day ELSE @,
              !.time = IF hour # 0 THEN 60 * hour ELSE @,
              !.has = @ \cup details]

\* Later values win, an empty one clears nothing, and another time is not agreed yet.
mergeDraft(d, details, day, hour) ==
    LET next == [d EXCEPT !.day = IF day # 0 THEN day ELSE @,
                          !.time = IF hour # 0 THEN 60 * hour ELSE @,
                          !.has = @ \cup details]
    IN  [next EXCEPT !.committed = @ /\ next.day = d.day /\ next.time = d.time]

hasDraftContent(d) == d # None /\ (d.day # 0 \/ d.time # 0 \/ d.has # {})

Before(s, t) == s.day < t.day \/ (s.day = t.day /\ s.at < t.at)

\* The first n of a set of slots.
Earliest(n, slots) == {s \in slots : Cardinality({t \in slots : Before(t, s)}) < n}

\* The slot the draft's wall clock names, at most one: a full hour stands for any slot
\* in it, and without a day the hour must not be open on several.
resolveSlot(d, slots) ==
    LET fits == {s \in slots : /\ d.day \in {0, s.day}
                               /\ HourOf(s.at) = HourOf(d.time)
                               /\ d.time % 60 = 0 \/ s.at = d.time}
    IN  IF d.time = 0 \/ (d.day = 0 /\ Cardinality({s.day : s \in fits}) > 1) THEN {}
        ELSE Earliest(1, fits)

commitSlot(d, slot) == [d EXCEPT !.day = slot.day, !.time = slot.at, !.committed = TRUE]

\* Whether the appointment is at the hour the draft names.
namesTimeOf(existing, d) ==
    /\ d.time # 0
    /\ d.day \in {0, existing.slot.day}
    /\ HourOf(existing.slot.at) = HourOf(d.time)

-------------------------------------------------------------------------------
(* Availability.                                                            *)

Open == Times \ (rivals \cup (IF appointment = None THEN {} ELSE {appointment.slot}))

InWindow(s, w) == w.day \in {0, s.day} /\ w.hour \in {0, HourOf(s.at)}

\* getAvailability, searched again without the hour if that one is full.
OfferedFor(w) ==
    LET wanted == Earliest(SLOT_LIMIT, {s \in Open : InWindow(s, w)})
    IN  IF wanted = {} /\ w.hour # 0
        THEN Earliest(Alternatives, {s \in Open : s.day >= w.day})
        ELSE wanted

\* parseWhen: the message's own words, or else those of recent messages read as one.
Windows(m) ==
    IF m.day # 0 \/ m.hour # 0 THEN {[day |-> m.day, hour |-> m.hour]}
    ELSE {[day |-> d, hour |-> h] : d \in said.days, h \in said.hours}

NoWindow == [day |-> 0, hour |-> 0]

-------------------------------------------------------------------------------
(* prepareTurn.                                                             *)

Tell(kind, slot, existing) == told' = [kind |-> kind, slot |-> slot, existing |-> existing]

\* Mutant: who has arrived is not looked up.
ExistingNotArrived == IF appointment # None /\ appointment.arrived THEN None ELSE appointment

\* findLiveAppointmentByConversation.
Existing == appointment

\* The turn loads the draft (a failed lookup counts as none) and the appointment, and
\* what is open.  It may have nothing to do with appointments, going by this message and
\* the last few, or nothing to cancel.
TurnBegins(m) ==
    /\ chat = None
    /\ turns < MaxTurns
    /\ turns' = turns + 1
    /\ said' = [days |-> said.days \cup {m.day}, hours |-> said.hours \cup {m.hour},
                about |-> said.about \/ m.about]
    /\ seen' = {appointment}
    /\ \E stored \in {draft, None}, w \in Windows(m) :
          LET scheduling == m.about \/ said.about \/ w # NoWindow \/ hasDraftContent(stored) IN
          IF Existing = None /\ (~ scheduling \/ m.cancels)
          THEN /\ IF scheduling THEN Tell("nothing_to_cancel", None, FALSE) ELSE told' = None
               /\ UNCHANGED chat
          ELSE /\ chat' = [pc |-> "extract", message |-> m, stored |-> stored,
                           existing |-> Existing, slots |-> OfferedFor(w)]
               /\ told' = None
    /\ UNCHANGED <<draft, appointment, rivals, agreements, outsiders>>

\* Upserts and deletes of the draft are logged when they fail, never thrown.
MayStore(row) == draft' \in {row, draft}

\* The slot the visitor points at, if any: his words outrank the model's slot number.
Picked(d, slots) ==
    IF resolveSlot(d, slots) # {} \/ d.time # 0 THEN {resolveSlot(d, slots)}
    ELSE {{}} \cup {{s} : s \in slots}

\* What was said, merged into the draft and matched against the open slots; the engine
\* is called as soon as the draft is complete, and otherwise the draft is saved.
Advance(wants, details) ==
    LET m == chat.message
        existing == chat.existing
        merged == mergeDraft(IF chat.stored = None THEN EMPTY_DRAFT ELSE chat.stored,
                             details, m.day, m.hour)
        agreesNow == wants = "book" \/ m.commits
    IN
    IF existing # None /\ namesTimeOf(existing, merged)
    THEN /\ Tell("unchanged", existing.slot, TRUE)
         /\ chat' = None
         /\ UNCHANGED <<draft, agreements>>
    ELSE \E picked \in Picked(merged, chat.slots) :
         LET committed == picked # {} /\ (agreesNow \/ merged.committed)
             slot == CHOOSE s \in picked : TRUE
             next == IF committed THEN commitSlot(merged, slot) ELSE merged
             ready == committed /\ (existing # None \/ next.has = Details)
         IN
         /\ agreements' = IF agreesNow THEN agreements \cup picked ELSE agreements
         /\ IF ready
            THEN /\ chat' = [pc |-> "engine", draft |-> next, existing |-> existing,
                             slot |-> slot]
                 /\ UNCHANGED <<draft, told>>
            ELSE /\ MayStore(next)
                 /\ Tell("guidance", None, existing # None)
                 /\ chat' = None

\* extractAction: a cancellation is recognised without the model, whose answer (or its
\* failure: "none" and nothing else) may be anything else.
TurnExtracts ==
    /\ chat # None
    /\ chat.pc = "extract"
    /\ \E wants \in {"none", "book", "cancel"}, details \in SUBSET Details :
          IF chat.existing # None /\ (chat.message.cancels \/ wants = "cancel")
          THEN /\ chat' = [pc |-> "cancel", existing |-> chat.existing]
               /\ UNCHANGED <<draft, told, agreements>>
          ELSE Advance(wants, details)
    /\ UNCHANGED <<appointment, rivals, said, seen, turns, outsiders>>

-------------------------------------------------------------------------------
(* The engine's answer, and what becomes of the draft.                       *)

\* Done: the draft is dropped, if the statement succeeds.
Done(kind, slot) ==
    /\ MayStore(None)
    /\ agreements' = IF draft' = None THEN {} ELSE agreements
    /\ Tell(kind, slot, kind = "rescheduled")

\* executeBooking: book or reschedule; the exclusion constraint has the last word.  The
\* guard of a move looks at the loaded copy, and the update names only the row: one that
\* was closed meanwhile is "moved" too.  A failure keeps the draft except its time.
EngineBooks ==
    /\ chat # None
    /\ chat.pc = "engine"
    /\ LET moving == chat.existing # None
           closed == moving /\ appointment = None
           refused == moving /\ chat.existing.arrived
           taken == chat.slot \in rivals /\ ~ closed
       IN
       IF refused \/ taken
       THEN /\ MayStore([chat.draft EXCEPT !.time = 0, !.committed = FALSE])
            /\ Tell(IF refused THEN "invalid" ELSE "slot_taken", None, moving)
            /\ UNCHANGED <<appointment, agreements>>
       ELSE /\ appointment' = IF closed THEN None
                              ELSE [slot |-> chat.slot,
                                    arrived |-> moving /\ appointment.arrived]
            /\ Done(IF moving THEN "rescheduled" ELSE "booked", chat.slot)
    /\ chat' = None
    /\ UNCHANGED <<rivals, said, seen, turns, outsiders>>

\* booking.cancel, and the draft is dropped.
EngineCancels ==
    /\ chat # None
    /\ chat.pc = "cancel"
    /\ appointment' = None
    /\ Done("cancelled", None)
    /\ chat' = None
    /\ UNCHANGED <<rivals, said, seen, turns, outsiders>>

\* The database fails under the turn: it ends with an error.
TurnFails ==
    /\ chat # None
    /\ chat' = None
    /\ UNCHANGED <<draft, appointment, rivals, said, told, agreements, seen, turns, outsiders>>

-------------------------------------------------------------------------------
(* Others.                                                                  *)

\* Somebody else takes a slot, or gives one back.
RivalActs ==
    /\ outsiders < MaxOutsiders
    /\ outsiders' = outsiders + 1
    /\ \/ \E s \in Open : rivals' = rivals \cup {s}
       \/ \E s \in rivals : rivals' = rivals \ {s}
    /\ UNCHANGED <<draft, appointment, said, chat, told, agreements, seen, turns>>

\* The visitor's link moves the appointment, checks in or cancels, or staff close it: at
\* any moment, that of a turn's awaits too.
LinkActs ==
    /\ appointment # None
    /\ outsiders < MaxOutsiders
    /\ outsiders' = outsiders + 1
    /\ \/ \E s \in Open : ~ appointment.arrived /\ appointment' = [appointment EXCEPT !.slot = s]
       \/ ~ appointment.arrived /\ appointment' = [appointment EXCEPT !.arrived = TRUE]
       \/ appointment' = None
    /\ seen' = IF chat = None THEN {} ELSE seen \cup {appointment'}
    /\ told' = None
    /\ UNCHANGED <<draft, rivals, said, chat, agreements, turns>>

ChatNext ==
    \/ \E m \in Messages : TurnBegins(m)
    \/ TurnExtracts
    \/ EngineBooks
    \/ EngineCancels
    \/ TurnFails
    \/ RivalActs
    \/ LinkActs

ChatSpec == ChatInit /\ [][ChatNext]_chatVars

-------------------------------------------------------------------------------
(* Properties.                                                              *)

SameHour(s, t) == s.day = t.day /\ HourOf(s.at) = HourOf(t.at)

\* Whether this step is the chat's engine giving the conversation a time.
Books ==
    /\ chat # None
    /\ chat.pc = "engine"
    /\ chat' = None
    /\ appointment' \notin {None, appointment}

\* "Only a committed time may be booked, and changing the time clears the commitment so
\* a correction can never book the old slot": to the hour, what the chat books or moves
\* to is a time the visitor agreed to, whatever he asked about since, whoever took or
\* freed slots meanwhile, and whichever write of the draft was lost.
BookedHourWasAgreed ==
    [][Books => \E a \in agreements : SameHour(a, appointment'.slot)]_chatVars

\* "A stale list can't book the wrong time": not only the hour, the slot itself.
BookedSlotWasAgreed == [][Books => appointment'.slot \in agreements]_chatVars

\* What the outcome of a turn lets the reply claim was so at some moment of that turn, for
\* all that the link and staff did in the middle of it: that an appointment is on file (at
\* the time told, if nothing was changed) or that there is none; and what the turn says it
\* made, moved or cancelled is as told when it says so.  (A move of an appointment that
\* was closed in the middle of the turn is told as one too.)
OutcomeWasTrue ==
    told # None =>
        /\ told.existing =>
              \E a \in seen \ {None} : told.kind = "unchanged" => a.slot = told.slot
        /\ ~ told.existing /\ told.kind # "cancelled" => None \in seen
        /\ told.kind = "cancelled" => appointment = None
        /\ told.kind = "booked" => appointment # None
        /\ told.kind \in {"booked", "rescheduled"} /\ appointment # None =>
              appointment.slot = told.slot
===============================================================================

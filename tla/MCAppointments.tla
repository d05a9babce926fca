---------------------------- MODULE MCAppointments ----------------------------
(***************************************************************************)
(* The appointments table under requests and a cron job that overlap at       *)
(* every await, the same operations one at a time, and the conversation in     *)
(* which a visitor arrives at an appointment.                               *)
(*                                                                         *)
(* Business b1 has one staff member and b2 another.  When requests overlap,   *)
(* b1's two slots overlap too (the slot duration was changed between two       *)
(* bookings).                                                               *)
(***************************************************************************)
EXTENDS Appointments, TLC

CONSTANTS
    v1, v2, s1, s2, b1, b2, None,
    Scopes,                 \* a subset of {"overlapping", "serial", "chat"}
    SerialClerks, SerialSlots, SerialGrace, SerialRows, SerialTime,
    Times, Messages, Details, SLOT_LIMIT, Alternatives, MaxTurns, MaxOutsiders

VARIABLES
    scope,
    table, request, time,   \* the variables of the serial instance
    draft, appointment, rivals, said, chat, told, agreements, seen, turns, outsiders

Slot(s, from, to) == [staff |-> s, start |-> from, end |-> to]

MCTenantOf == (v1 :> b1) @@ (v2 :> b1) @@ (s1 :> b1) @@ (s2 :> b2)

MCGrace == (b1 :> 0) @@ (b2 :> 1)

\* Two overlapping slots of one staff member.
Contended == {Slot(s1, 0, 1), Slot(s1, 0, 2)}

\* One at a time, one slot is early and one late, and b1's rows have a grace to wait out.
MCSerialSlots == {Slot(s1, 0, 1), Slot(s1, 2, 3)}

MCSerialGrace == (b1 :> 2) @@ (b2 :> 0)

ASSUME SerialAssumption ==
    /\ \A p, q \in SerialClerks : p = q
    /\ SerialSlots \subseteq [staff : Staff, start : Nat, end : Nat]
    /\ \A s \in SerialSlots : s.start < s.end
    /\ NoSlot \notin SerialSlots
    /\ SerialGrace \in [Tenants -> Nat]
    /\ {SerialRows, SerialTime} \subseteq Nat

\* One handler is every request and the cron.
Serial == INSTANCE Appointments WITH
    Clerks <- SerialClerks, Sweepers <- SerialClerks,
    Slots <- SerialSlots, Grace <- SerialGrace,
    MaxRows <- SerialRows, MaxTime <- SerialTime,
    rows <- table, task <- request, clock <- time

serialVars == <<table, request, time>>

chatVars == <<draft, appointment, rivals, said, chat, told, agreements, seen, turns, outsiders>>

\* 10:00, 10:30 and 11:00 on the first day, 10:00 on the second.
ChatTimes ==
    {[day |-> 1, at |-> 600], [day |-> 1, at |-> 630], [day |-> 1, at |-> 660],
     [day |-> 2, at |-> 600]}

Message(about, commits, day, hour) ==
    [about |-> about, commits |-> commits, cancels |-> FALSE, day |-> day, hour |-> hour]

\* "Do you have 10 on Monday?", "then 11 works", "at 10?", "perfect", "I am John" and
\* "please cancel".
ChatMessages ==
    {Message(TRUE, FALSE, 1, 10), Message(TRUE, TRUE, 0, 11), Message(FALSE, FALSE, 0, 10),
     Message(FALSE, TRUE, 0, 0), Message(FALSE, FALSE, 0, 0),
     [Message(TRUE, FALSE, 0, 0) EXCEPT !.cancels = TRUE]}

Chat == INSTANCE BookingChat

\* 0 is a day or a time that is not given, and None is none of the records.
ASSUME ChatAssumption ==
    /\ Times \subseteq [day : Nat \ {0}, at : Nat \ {0}]
    /\ Messages \subseteq [cancels : BOOLEAN, commits : BOOLEAN, about : BOOLEAN,
                          day : Nat, hour : Nat]
    /\ None \notin Chat!Appointment

-------------------------------------------------------------------------------

MCInit ==
    /\ scope \in Scopes
    /\ Init
    /\ Serial!Init
    /\ Chat!ChatInit

Overlapping ==
    /\ scope = "overlapping"
    /\ Next
    /\ UNCHANGED <<scope, serialVars, chatVars>>

OneAtATime ==
    /\ scope = "serial"
    /\ Serial!Next
    /\ UNCHANGED <<scope, vars, chatVars>>

Conversation ==
    /\ scope = "chat"
    /\ Chat!ChatNext
    /\ UNCHANGED <<scope, vars, serialVars>>

MCNext == Overlapping \/ OneAtATime \/ Conversation

mcVars == <<scope, vars, serialVars, chatVars>>

MCSpec == MCInit /\ [][MCNext]_mcVars

\* Requests are interchangeable, and so are the conversations of one business.
Symmetry == Permutations(Clerks) \cup Permutations(Convs)

\* One operation at a time, every history of the table is one the state machine allows
\* (appointment-state.ts).
SerialImplementsLifecycle == Serial!ImplementsLifecycle

\* One operation at a time, a conversation has one active appointment at most
\* (booking-orchestrator.ts).
OneActiveSerially == Serial!OneActivePerConversation

\* What the chat books is, to the hour, a time the visitor agreed to (booking-draft.ts).
BookedHourWasAgreed == Chat!BookedHourWasAgreed

\* "A stale list can't book the wrong time": it is the slot he agreed to (booking-draft.ts).
BookedSlotWasAgreed == Chat!BookedSlotWasAgreed

\* What a turn's outcome lets the reply claim was so in that turn (booking-orchestrator.ts).
OutcomeWasTrue == Chat!OutcomeWasTrue
===============================================================================

------------------------- MODULE AppointmentLifecycle -------------------------
(***************************************************************************)
(* What the appointment state machine promises, independently of who       *)
(* writes the row: packages/scheduling/appointment-state.ts.  A row is      *)
(* booked as "confirmed", then moves only along Transitions, and its slot   *)
(* may change only while the row is live.  Appointments.tla is the          *)
(* detailed specification that is checked against this one.                 *)
(***************************************************************************)

CONSTANTS
    Appts,   \* identities of the appointment rows
    Slots,   \* the values of a row's (staff, start, end)
    NoSlot   \* slot of a row that does not exist yet

VARIABLES
    status,  \* [Appts -> Status \cup {"none"}]
    slot     \* [Appts -> Slots \cup {NoSlot}]

lifecycleVars == <<status, slot>>

Status == {"pending", "confirmed", "checked_in", "running_late",
           "in_progress", "cancelled", "completed", "no_show"}

\* The statuses a row in status s may move to.
Transitions ==
    [s \in Status |->
        CASE s = "pending"      -> {"confirmed", "cancelled"}
          [] s = "confirmed"    -> {"checked_in", "running_late", "in_progress",
                                    "completed", "cancelled", "no_show"}
          [] s = "running_late" -> {"checked_in", "in_progress", "completed",
                                    "cancelled", "no_show"}
          [] s = "checked_in"   -> {"in_progress", "completed", "cancelled"}
          [] s = "in_progress"  -> {"completed", "cancelled"}
          [] OTHER              -> {}]

CanTransition(from, to) == to \in Transitions[from]

\* Statuses that hold their time slot.
Active == {"pending", "confirmed", "checked_in", "running_late", "in_progress"}

Terminal == {"cancelled", "completed", "no_show"}

\* Statuses the automatic sweep may close: nobody arrived.
Sweepable == {"pending", "confirmed", "running_late"}

\* Statuses in which the visitor may still move or cancel the appointment.
Live == {"pending", "confirmed", "running_late"}

Init ==
    /\ status = [a \in Appts |-> "none"]
    /\ slot = [a \in Appts |-> NoSlot]

Book(a) ==
    /\ status[a] = "none"
    /\ status' = [status EXCEPT ![a] = "confirmed"]
    /\ \E s \in Slots : slot' = [slot EXCEPT ![a] = s]

Move(a) ==
    /\ status[a] \in Status
    /\ \E to \in Transitions[status[a]] : status' = [status EXCEPT ![a] = to]
    /\ UNCHANGED slot

Reschedule(a) ==
    /\ status[a] \in Live
    /\ \E s \in Slots : slot' = [slot EXCEPT ![a] = s]
    /\ UNCHANGED status

Next == \E a \in Appts : Book(a) \/ Move(a) \/ Reschedule(a)

Spec == Init /\ [][Next]_lifecycleVars
===============================================================================

------------------------- MODULE MCAppointmentsProofs -------------------------
(***************************************************************************)
(* Proofs about appointments as MCAppointments composes them: one operation  *)
(* at a time, the table implements the state machine and a conversation has  *)
(* one active appointment at most; and in the conversation that arrives at   *)
(* one, what is booked was agreed to and what may be claimed of it was so.    *)
(***************************************************************************)
EXTENDS MCAppointments, TLAPS

-------------------------------------------------------------------------------
(* One operation at a time: what AppointmentsProofs proves of one handler,    *)
(* about the serial instance.  Its operators are those of the instance,      *)
(* taken there a second time.                                               *)

Single == INSTANCE AppointmentsProofs WITH
    Clerks <- SerialClerks, Sweepers <- SerialClerks,
    Slots <- SerialSlots, Grace <- SerialGrace,
    MaxRows <- SerialRows, MaxTime <- SerialTime,
    rows <- table, task <- request, clock <- time

\* One handler, with the parameters those theorems assume.
LEMMA SerialIsSingle ==
    Single!SlotsAssumption /\ Single!ParametersAssumption /\ Single!OneHandler
BY SerialAssumption, ParametersAssumption
   DEF Single!SlotsAssumption, Single!ParametersAssumption, Single!OneHandler, Single!Actors

\* The state machine of the table.
LEMMA SameLifecycle ==
    /\ Serial!Lifecycle!Live = Single!Lifecycle!Live
    /\ Serial!Lifecycle!Active = Single!Lifecycle!Active
    /\ Serial!Lifecycle!Sweepable = Single!Lifecycle!Sweepable
    /\ Serial!Status = Single!Status
    /\ \A from, to :
          Serial!Lifecycle!CanTransition(from, to) <=> Single!Lifecycle!CanTransition(from, to)
BY DEF Serial!Lifecycle!Live, Single!Lifecycle!Live, Serial!Lifecycle!Active,
       Single!Lifecycle!Active, Serial!Lifecycle!Sweepable, Single!Lifecycle!Sweepable,
       Serial!Status, Single!Status, Serial!Lifecycle!Status, Single!Lifecycle!Status,
       Serial!Lifecycle!CanTransition, Single!Lifecycle!CanTransition,
       Serial!Lifecycle!Transitions, Single!Lifecycle!Transitions

\* What the table holds.
LEMMA SameBooked ==
    /\ Serial!Ids = Single!Ids /\ Serial!NoRow = Single!NoRow /\ Serial!Booked = Single!Booked
    /\ Serial!Idle = Single!Idle /\ Serial!NoCopy = Single!NoCopy
    /\ Serial!Actors = Single!Actors /\ Serial!HoldsSlot = Single!HoldsSlot
    /\ \A id : Serial!CopyOf(id) = Single!CopyOf(id)
    /\ \A s, t : Serial!Overlap(s, t) <=> Single!Overlap(s, t)
BY SameLifecycle
   DEF Serial!Ids, Single!Ids, Serial!NoRow, Single!NoRow, Serial!Booked, Single!Booked,
       Serial!Idle, Single!Idle, Serial!NoCopy, Single!NoCopy, Serial!Actors, Single!Actors,
       Serial!HoldsSlot, Single!HoldsSlot, Serial!CopyOf, Single!CopyOf,
       Serial!Overlap, Single!Overlap

\* What an operation finds there, and what it writes.
LEMMA SameAccess ==
    /\ \A id, st, s : Serial!Excluded(id, st, s) <=> Single!Excluded(id, st, s)
    /\ \A tenant, n : Serial!OpenSlots(tenant, n) = Single!OpenSlots(tenant, n)
    /\ \A conv : Serial!ExistingOf(conv) = Single!ExistingOf(conv)
    /\ \A id, to : Serial!StatusWritten(id, to) = Single!StatusWritten(id, to)
    /\ \A p, t : Serial!Become(p, t) <=> Single!Become(p, t)
BY SameBooked
   DEF Serial!Excluded, Single!Excluded, Serial!OpenSlots, Single!OpenSlots,
       Serial!Busy, Single!Busy, Serial!ExistingOf, Single!ExistingOf,
       Serial!StatusWritten, Single!StatusWritten, Serial!Become, Single!Become

\* Which rows are overdue.
LEMMA SameOverdue ==
    /\ \A row, n : Serial!NoShowOverdue(row, n) <=> Single!NoShowOverdue(row, n)
    /\ \A n : Serial!Batches(n) = Single!Batches(n)
<1>1. \A row, n : Serial!NoShowOverdue(row, n) <=> Single!NoShowOverdue(row, n)
    BY SameLifecycle DEF Serial!NoShowOverdue, Single!NoShowOverdue
<1>2. \A n : Serial!Candidates(n) = Single!Candidates(n)
    BY SameLifecycle, SameBooked DEF Serial!Candidates, Single!Candidates
<1>3. \A S : Serial!Cardinality(S) = Single!Cardinality(S)
    BY DEF Serial!Cardinality, Single!Cardinality
<1>4. ASSUME NEW n, NEW B PROVE B \in Serial!Batches(n) <=> B \in Single!Batches(n)
    BY <1>2, <1>3 DEF Serial!Batches, Single!Batches
<1>5. QED
    BY <1>1, <1>4 DEF Serial!Batches, Single!Batches

\* Every operation is the same one.
LEMMA SameNext == Serial!Next <=> Single!Next
<1> USE SameLifecycle, SameBooked, SameAccess
<1>1. ASSUME NEW p, NEW conv
      PROVE  Serial!TurnLoad(p, conv) <=> Single!TurnLoad(p, conv)
    BY DEF Serial!TurnLoad, Single!TurnLoad
<1>2. ASSUME NEW p
      PROVE  /\ Serial!TurnEndsWithoutEffect(p) <=> Single!TurnEndsWithoutEffect(p)
             /\ Serial!TurnCancels(p) <=> Single!TurnCancels(p)
             /\ Serial!TurnReschedules(p) <=> Single!TurnReschedules(p)
             /\ Serial!TurnBooks(p) <=> Single!TurnBooks(p)
    BY DEF Serial!TurnEndsWithoutEffect, Single!TurnEndsWithoutEffect,
           Serial!TurnCancels, Single!TurnCancels, Serial!TurnReschedules,
           Single!TurnReschedules, Serial!TurnBooks, Single!TurnBooks
<1>3. ASSUME NEW p, NEW id
      PROVE  /\ Serial!LinkStatus(p, id) <=> Single!LinkStatus(p, id)
             /\ Serial!LinkRescheduleLoad(p, id) <=> Single!LinkRescheduleLoad(p, id)
             /\ Serial!StaffStatus(p, id) <=> Single!StaffStatus(p, id)
    BY DEF Serial!LinkStatus, Single!LinkStatus, Serial!LinkRescheduleLoad,
           Single!LinkRescheduleLoad, Serial!StaffStatus, Single!StaffStatus
<1>4. ASSUME NEW p
      PROVE  /\ Serial!LinkReschedulePick(p) <=> Single!LinkReschedulePick(p)
             /\ Serial!Insert(p) <=> Single!Insert(p)
             /\ Serial!UpdateTimes(p) <=> Single!UpdateTimes(p)
             /\ Serial!UpdateStatus(p) <=> Single!UpdateStatus(p)
    BY DEF Serial!LinkReschedulePick, Single!LinkReschedulePick, Serial!Insert, Single!Insert,
           Serial!UpdateTimes, Single!UpdateTimes, Serial!UpdateStatus, Single!UpdateStatus
<1>5. ASSUME NEW p
      PROVE  /\ Serial!SweepScan(p) <=> Single!SweepScan(p)
             /\ Serial!SweepWrite(p) <=> Single!SweepWrite(p)
             /\ Serial!Crash(p) <=> Single!Crash(p)
    BY SameOverdue
       DEF Serial!SweepScan, Single!SweepScan, Serial!SweepWrite, Single!SweepWrite,
           Serial!Crash, Single!Crash
<1>6. Serial!Tick <=> Single!Tick
    BY DEF Serial!Tick, Single!Tick
<1>7. \A p : Serial!ClerkStep(p) <=> Single!ClerkStep(p)
    BY <1>1, <1>2, <1>3, <1>4 DEF Serial!ClerkStep, Single!ClerkStep
<1>8. QED
    BY <1>5, <1>6, <1>7 DEF Serial!Next, Single!Next

\* The serial part of the composed system is a history of the one handler.
LEMMA SerialPart == MCSpec => Single!Spec
<1>1. MCInit => Single!Init
  <2>1. Serial!Init => Single!Init
      BY SameBooked DEF Serial!Init, Single!Init
  <2>2. QED
      BY <2>1 DEF MCInit
<1>2. [MCNext]_mcVars => [Single!Next]_(Single!vars)
    BY SameNext
       DEF MCNext, mcVars, OneAtATime, Overlapping, Conversation, serialVars, Single!vars
<1>3. QED
    BY <1>1, <1>2, PTL DEF MCSpec, Single!Spec

\* One operation at a time, a conversation that has an active appointment never gets a
\* second one, for any number of conversations, rows and slots.
THEOREM OneAtATimeOneActive == MCSpec => []OneActiveSerially
<1>1. Single!Spec => []Single!OneActivePerConversation
    BY SerialIsSingle, Single!OneActiveAtATime
<1>2. Single!OneActivePerConversation => OneActiveSerially
    BY SameBooked DEF OneActiveSerially, Single!OneActivePerConversation,
       Serial!OneActivePerConversation
<1>3. QED
    BY <1>1, <1>2, SerialPart, PTL

\* One operation at a time, what was checked on a loaded copy holds of the row it is
\* written to: the table is an implementation of the state machine.
THEOREM OneAtATimeImplementsLifecycle == MCSpec => SerialImplementsLifecycle
<1>1. Single!Spec => Single!ImplementsLifecycle
    BY SerialIsSingle, Single!ImplementsLifecycleAtATime
<1>2. Single!Lifecycle!Init => Serial!Lifecycle!Init
    BY SameBooked DEF Single!Lifecycle!Init, Serial!Lifecycle!Init
<1>3. [Single!Lifecycle!Next]_(Single!Lifecycle!lifecycleVars)
         => [Serial!Lifecycle!Next]_(Serial!Lifecycle!lifecycleVars)
    BY SameLifecycle, SameBooked
       DEF Single!Lifecycle!Next, Serial!Lifecycle!Next, Single!Lifecycle!lifecycleVars,
           Serial!Lifecycle!lifecycleVars, Single!Lifecycle!Book, Serial!Lifecycle!Book,
           Single!Lifecycle!Move, Serial!Lifecycle!Move, Single!Lifecycle!Reschedule,
           Serial!Lifecycle!Reschedule, Single!Lifecycle!Status, Serial!Lifecycle!Status,
           Single!Lifecycle!Transitions, Serial!Lifecycle!Transitions, Single!Ids, Serial!Ids
<1>4. QED
    BY <1>1, <1>2, <1>3, SerialPart, PTL
       DEF SerialImplementsLifecycle, Serial!ImplementsLifecycle, Serial!Lifecycle!Spec,
           Single!ImplementsLifecycle, Single!Lifecycle!Spec

-------------------------------------------------------------------------------
(* The conversation that arrives at an appointment.  A draft that is          *)
(* committed, wherever a copy of it is kept, names an hour the visitor has    *)
(* agreed to; and while a turn is under way nothing has been said of the      *)
(* appointment, and what the turn loaded of it, like what it is now, is among *)
(* what it was in that turn.                                               *)

DraftRow == [day : Nat, time : Nat, has : SUBSET Details, committed : BOOLEAN]

\* A committed time is, to the hour, that of an agreed slot.
AgreedDraft(d, agreed) ==
    /\ d \in DraftRow
    /\ d.committed => /\ d.day # 0 /\ d.time # 0
                      /\ \E a \in agreed : /\ a.day = d.day
                                           /\ Chat!HourOf(a.at) = Chat!HourOf(d.time)

TurnIsCurrent ==
    chat # None =>
        /\ told = None
        /\ chat.existing \in seen
        /\ appointment \in seen
        /\ chat.pc \in {"extract", "engine", "cancel"}
        /\ chat.pc = "extract" =>
              /\ chat.message \in Messages
              /\ chat.slots \subseteq Times
              /\ chat.stored # None => AgreedDraft(chat.stored, agreements)
        /\ chat.pc = "engine" =>
              /\ AgreedDraft(chat.draft, agreements)
              /\ chat.slot \in Times
              /\ \E a \in agreements : Chat!SameHour(a, chat.slot)

ChatInv ==
    /\ appointment = None \/ appointment \in Chat!Appointment
    /\ draft # None => AgreedDraft(draft, agreements)
    /\ TurnIsCurrent
    /\ OutcomeWasTrue

\* A draft stays agreed to as more is agreed to.
LEMMA StaysAgreed ==
    ASSUME NEW d, NEW agreed, NEW more, AgreedDraft(d, agreed), agreed \subseteq more
    PROVE  AgreedDraft(d, more)
BY DEF AgreedDraft

\* What is offered are slots of the calendar.
LEMMA OfferedAreTimes == ASSUME NEW w PROVE Chat!OfferedFor(w) \subseteq Times
BY DEF Chat!OfferedFor, Chat!Earliest, Chat!Open

\* What the visitor points at is one of the slots; if the draft names an hour, at that hour.
LEMMA PickedIsOffered ==
    ASSUME NEW d, NEW slots, NEW picked \in Chat!Picked(d, slots), NEW s \in picked
    PROVE  /\ s \in slots
           /\ d.time # 0 => d.day \in {0, s.day} /\ Chat!HourOf(s.at) = Chat!HourOf(d.time)
BY DEF Chat!Picked, Chat!resolveSlot, Chat!Earliest

\* What a message changes of the time is not agreed to.
LEMMA MergedIsAgreed ==
    ASSUME NEW d, NEW agreed, AgreedDraft(d, agreed), NEW details \in SUBSET Details,
           NEW day \in Nat, NEW hour \in Nat
    PROVE  AgreedDraft(Chat!mergeDraft(d, details, day, hour), agreed)
<1> DEFINE dated == IF day # 0 THEN day ELSE d.day
           timed == IF hour # 0 THEN 60 * hour ELSE d.time
           known == d.has \cup details
           next == [d EXCEPT !.day = dated, !.time = timed, !.has = known]
           keeps == d.committed /\ dated = d.day /\ timed = d.time
           merged == [next EXCEPT !.committed = keeps]
<1>1. d \in DraftRow
    BY DEF AgreedDraft
<1>2. dated \in Nat /\ timed \in Nat /\ known \in SUBSET Details /\ keeps \in BOOLEAN
    BY <1>1 DEF DraftRow
<1> HIDE DEF dated, timed, known
<1>3. /\ next \in DraftRow
      /\ next.day = dated /\ next.time = timed /\ next.committed = d.committed
    BY <1>1, <1>2 DEF DraftRow
<1>4. Chat!mergeDraft(d, details, day, hour)
         = [next EXCEPT !.committed = next.committed /\ next.day = d.day /\ next.time = d.time]
    BY <1>1 DEF Chat!mergeDraft, DraftRow, dated, timed, known
<1>5. Chat!mergeDraft(d, details, day, hour) = merged
    BY <1>3, <1>4
<1>6. keeps => d.committed /\ dated = d.day /\ timed = d.time
    OBVIOUS
<1> HIDE DEF next, keeps
<1>7. /\ merged \in DraftRow
      /\ merged.day = dated /\ merged.time = timed /\ merged.committed = keeps
    BY <1>2, <1>3 DEF DraftRow
<1> HIDE DEF merged
<1>8. AgreedDraft(merged, agreed)
    BY <1>6, <1>7 DEF AgreedDraft
<1>9. QED
    BY <1>5, <1>8

\* A draft that is committed to a slot.
LEMMA CommittedIsAgreed ==
    ASSUME NEW d, NEW agreed, AgreedDraft(d, agreed), NEW slot \in Times,
           NEW a \in agreed, Chat!SameHour(a, slot)
    PROVE  AgreedDraft(Chat!commitSlot(d, slot), agreed)
<1>1. d \in DraftRow
    BY DEF AgreedDraft
<1>2. slot.day \in Nat \ {0} /\ slot.at \in Nat \ {0}
    BY ChatAssumption
<1>3. /\ Chat!commitSlot(d, slot) \in DraftRow
      /\ Chat!commitSlot(d, slot).day = slot.day /\ Chat!commitSlot(d, slot).time = slot.at
    BY <1>1, <1>2 DEF Chat!commitSlot, DraftRow
<1>4. QED
    BY <1>2, <1>3 DEF AgreedDraft, Chat!SameHour

\* A turn is under way, or it ended with nothing said, and the rest is as it was.
LEMMA TurnBeginsKeeps == ASSUME ChatInv, NEW m \in Messages, Chat!TurnBegins(m) PROVE ChatInv'
<1>1. PICK stored \in {draft, None}, w \in Chat!Windows(m) :
          \/ /\ appointment = None
             /\ chat' = chat
             /\ \/ told' = [kind |-> "nothing_to_cancel", slot |-> None, existing |-> FALSE]
                \/ told' = None
          \/ /\ chat' = [pc |-> "extract", message |-> m, stored |-> stored,
                          existing |-> appointment, slots |-> Chat!OfferedFor(w)]
             /\ told' = None
    BY DEF Chat!TurnBegins, Chat!Tell, Chat!Existing
<1>2. chat = None /\ seen' = {appointment} /\ UNCHANGED <<draft, appointment, agreements>>
    BY DEF Chat!TurnBegins
<1>3. OutcomeWasTrue'
    BY <1>1, <1>2 DEF OutcomeWasTrue, Chat!OutcomeWasTrue
<1>4. TurnIsCurrent'
    BY <1>1, <1>2, OfferedAreTimes DEF ChatInv, TurnIsCurrent
<1>5. QED
    BY <1>2, <1>3, <1>4 DEF ChatInv

\* What was said is merged and matched, and either the engine is called for a slot that
\* was agreed to or the draft is saved.
LEMMA AdvanceKeeps ==
    ASSUME ChatInv, chat # None, chat.pc = "extract",
           NEW wants, NEW details \in SUBSET Details,
           Chat!Advance(wants, details), UNCHANGED <<appointment, seen>>
    PROVE  ChatInv'
<1> DEFINE m == chat.message
           existing == chat.existing
           stored == IF chat.stored = None THEN Chat!EMPTY_DRAFT ELSE chat.stored
           merged == Chat!mergeDraft(stored, details, m.day, m.hour)
           agreesNow == wants = "book" \/ m.commits
<1>1. /\ told = None /\ existing \in seen /\ appointment \in seen
      /\ m \in Messages /\ chat.slots \subseteq Times
      /\ chat.stored # None => AgreedDraft(chat.stored, agreements)
      /\ draft # None => AgreedDraft(draft, agreements)
      /\ appointment = None \/ appointment \in Chat!Appointment
    BY DEF ChatInv, TurnIsCurrent
<1>2. AgreedDraft(merged, agreements)
  <2>1. AgreedDraft(Chat!EMPTY_DRAFT, agreements)
    BY DEF AgreedDraft, DraftRow, Chat!EMPTY_DRAFT
  <2>2. AgreedDraft(stored, agreements)
    BY <1>1, <2>1
  <2>3. m.day \in Nat /\ m.hour \in Nat
    BY <1>1, ChatAssumption
  <2> HIDE DEF stored, m
  <2>4. QED
    BY <2>2, <2>3, MergedIsAgreed
<1>3. CASE existing # None /\ Chat!namesTimeOf(existing, merged)
  <2>1. /\ told' = [kind |-> "unchanged", slot |-> existing.slot, existing |-> TRUE]
        /\ chat' = None /\ UNCHANGED <<draft, agreements>>
    BY <1>3 DEF Chat!Advance, Chat!Tell
  <2>2. OutcomeWasTrue'
    BY <1>1, <1>3, <2>1 DEF OutcomeWasTrue, Chat!OutcomeWasTrue
  <2>3. QED
    BY <1>1, <2>1, <2>2 DEF ChatInv, TurnIsCurrent
<1>4. CASE ~(existing # None /\ Chat!namesTimeOf(existing, merged))
  <2>1. PICK picked \in Chat!Picked(merged, chat.slots) :
          LET committed == picked # {} /\ (agreesNow \/ merged.committed)
              slot == CHOOSE s \in picked : TRUE
              next == IF committed THEN Chat!commitSlot(merged, slot) ELSE merged
              ready == committed /\ (existing # None \/ next.has = Details)
          IN
          /\ agreements' = IF agreesNow THEN agreements \cup picked ELSE agreements
          /\ IF ready
             THEN /\ chat' = [pc |-> "engine", draft |-> next, existing |-> existing,
                              slot |-> slot]
                  /\ UNCHANGED <<draft, told>>
             ELSE /\ draft' \in {next, draft}
                  /\ told' = [kind |-> "guidance", slot |-> None,
                              existing |-> existing # None]
                  /\ chat' = None
    BY <1>4 DEF Chat!Advance, Chat!Tell, Chat!MayStore
  <2> HIDE DEF merged, agreesNow, m
  <2> DEFINE committed == picked # {} /\ (agreesNow \/ merged.committed)
             slot == CHOOSE s \in picked : TRUE
             next == IF committed THEN Chat!commitSlot(merged, slot) ELSE merged
  <2>2. /\ agreements' = IF agreesNow THEN agreements \cup picked ELSE agreements
        /\ \/ /\ committed
              /\ chat' = [pc |-> "engine", draft |-> next, existing |-> existing,
                          slot |-> slot]
              /\ UNCHANGED <<draft, told>>
           \/ /\ draft' \in {next, draft}
              /\ told' = [kind |-> "guidance", slot |-> None, existing |-> existing # None]
              /\ chat' = None
    BY <2>1
  <2>3. agreements \subseteq agreements'
    BY <2>2
  <2>4. AgreedDraft(merged, agreements')
    BY <1>2, <2>3, StaysAgreed
  <2>5. ASSUME committed
        PROVE  slot \in Times /\ \E a \in agreements' : Chat!SameHour(a, slot)
    <3>1. slot \in picked
      BY <2>5
    <3>2. slot \in Times
      BY <1>1, <3>1, PickedIsOffered
    <3>3. CASE agreesNow
      BY <2>2, <3>1, <3>2, <3>3 DEF Chat!SameHour
    <3>4. CASE ~agreesNow
      <4>1. PICK a \in agreements' : /\ a.day = merged.day /\ merged.day # 0 /\ merged.time # 0
                                     /\ Chat!HourOf(a.at) = Chat!HourOf(merged.time)
        BY <2>4, <2>5, <3>4 DEF AgreedDraft
      <4>2. merged.day \in {0, slot.day} /\ Chat!HourOf(slot.at) = Chat!HourOf(merged.time)
        BY <3>1, <4>1, PickedIsOffered
      <4>3. QED
        BY <3>2, <4>1, <4>2 DEF Chat!SameHour
    <3>5. QED
      BY <3>3, <3>4
  <2>6. AgreedDraft(next, agreements')
    BY <2>4, <2>5, CommittedIsAgreed
  <2> HIDE DEF committed, slot, next
  <2>7. draft' # None => AgreedDraft(draft', agreements')
    BY <1>1, <2>2, <2>3, <2>6, StaysAgreed
  <2>8. OutcomeWasTrue'
    <3> DEFINE found == existing # None
    <3>1. \E a \in seen' : found <=> a # None
      BY <1>1
    <3>2. told' = None \/ told' = [kind |-> "guidance", slot |-> None, existing |-> found]
      BY <1>1, <2>2
    <3> HIDE DEF found
    <3>3. told' # None => told'.kind = "guidance" /\ told'.existing = found
      BY <3>2
    <3>4. QED
      BY <3>1, <3>3 DEF OutcomeWasTrue, Chat!OutcomeWasTrue
  <2>9. TurnIsCurrent'
    BY <1>1, <2>2, <2>5, <2>6 DEF TurnIsCurrent
  <2>10. QED
    BY <1>1, <2>7, <2>8, <2>9 DEF ChatInv
<1>5. QED
    BY <1>3, <1>4

\* A cancellation changes nothing yet.
LEMMA TurnExtractsKeeps == ASSUME ChatInv, Chat!TurnExtracts PROVE ChatInv'
<1>1. /\ chat # None /\ chat.pc = "extract"
      /\ UNCHANGED <<appointment, seen>>
    BY DEF Chat!TurnExtracts
<1>2. CASE /\ chat' = [pc |-> "cancel", existing |-> chat.existing]
           /\ UNCHANGED <<draft, told, agreements>>
    BY <1>1, <1>2 DEF ChatInv, TurnIsCurrent, OutcomeWasTrue, Chat!OutcomeWasTrue
<1>3. ASSUME NEW wants, NEW details \in SUBSET Details, Chat!Advance(wants, details)
      PROVE  ChatInv'
    BY <1>1, <1>3, AdvanceKeeps
<1>4. QED
    BY <1>2, <1>3 DEF Chat!TurnExtracts

\* The engine's answer: what was chosen is the appointment's slot, or it is as before.
LEMMA EngineBooksKeeps == ASSUME ChatInv, Chat!EngineBooks PROVE ChatInv'
<1> DEFINE moving == chat.existing # None
           closed == moving /\ appointment = None
           there == moving /\ appointment.arrived
           moved == [slot |-> chat.slot, arrived |-> there]
           failed == [chat.draft EXCEPT !.time = 0, !.committed = FALSE]
<1>1. /\ chat # None /\ chat.pc = "engine" /\ chat' = None
      /\ \/ /\ draft' \in {failed, draft}
            /\ \E kind \in {"invalid", "slot_taken"} :
                  told' = [kind |-> kind, slot |-> None, existing |-> moving]
            /\ UNCHANGED <<appointment, agreements>>
         \/ /\ appointment' = IF closed THEN None ELSE moved
            /\ draft' \in {None, draft}
            /\ agreements' = IF draft' = None THEN {} ELSE agreements
            /\ told' = IF moving
                       THEN [kind |-> "rescheduled", slot |-> chat.slot, existing |-> TRUE]
                       ELSE [kind |-> "booked", slot |-> chat.slot, existing |-> FALSE]
      /\ UNCHANGED seen
    BY DEF Chat!EngineBooks, Chat!Tell, Chat!Done, Chat!MayStore
<1>2. /\ chat.existing \in seen /\ chat.slot \in Times
      /\ AgreedDraft(chat.draft, agreements)
      /\ draft # None => AgreedDraft(draft, agreements)
    BY <1>1 DEF ChatInv, TurnIsCurrent
<1>3. AgreedDraft(failed, agreements)
    BY <1>2 DEF AgreedDraft, DraftRow
<1>4. \E a \in seen : moving <=> a # None
    BY <1>2
<1>5. closed => moving
    OBVIOUS
<1>6. ~ closed => moved \in Chat!Appointment /\ moved # None /\ moved.slot = chat.slot
  <2>1. ~ closed => there \in BOOLEAN
    BY <1>1 DEF ChatInv, Chat!Appointment
  <2> HIDE DEF there
  <2>2. ~ closed => moved \in Chat!Appointment /\ moved.slot = chat.slot
    BY <1>2, <2>1 DEF Chat!Appointment
  <2> HIDE DEF moved
  <2>3. QED
    BY <2>2, ChatAssumption
<1> HIDE DEF failed, moving, closed, there, moved
<1>7. draft' # None => AgreedDraft(draft', agreements')
    BY <1>1, <1>2, <1>3
<1>8. CASE /\ UNCHANGED appointment
           /\ \E kind \in {"invalid", "slot_taken"} :
                 told' = [kind |-> kind, slot |-> None, existing |-> moving]
  <2>1. told'.existing = moving /\ told'.kind \in {"invalid", "slot_taken"}
    BY <1>8
  <2>2. OutcomeWasTrue'
    BY <1>1, <1>4, <2>1 DEF OutcomeWasTrue, Chat!OutcomeWasTrue
  <2>3. QED
    BY <1>1, <1>7, <1>8, <2>2 DEF ChatInv, TurnIsCurrent
<1>9. CASE /\ appointment' = IF closed THEN None ELSE moved
           /\ told' = IF moving
                      THEN [kind |-> "rescheduled", slot |-> chat.slot, existing |-> TRUE]
                      ELSE [kind |-> "booked", slot |-> chat.slot, existing |-> FALSE]
  <2>1. /\ told'.slot = chat.slot
        /\ \/ told'.kind = "booked" /\ told'.existing = FALSE /\ ~ moving
           \/ told'.kind = "rescheduled" /\ told'.existing = TRUE /\ moving
    BY <1>9
  <2>2. /\ appointment' # None => appointment' \in Chat!Appointment /\ appointment'.slot = told'.slot
        /\ ~ moving => appointment' # None
    BY <1>5, <1>6, <1>9, <2>1
  <2>3. OutcomeWasTrue'
    BY <1>1, <1>4, <2>1, <2>2 DEF OutcomeWasTrue, Chat!OutcomeWasTrue
  <2>4. QED
    BY <1>1, <1>7, <2>2, <2>3 DEF ChatInv, TurnIsCurrent
<1>10. QED
    BY <1>1, <1>8, <1>9

\* The appointment is gone, and the draft too unless its statement failed.
LEMMA EngineCancelsKeeps == ASSUME ChatInv, Chat!EngineCancels PROVE ChatInv'
<1>1. /\ chat' = None /\ appointment' = None
      /\ draft' \in {None, draft}
      /\ agreements' = IF draft' = None THEN {} ELSE agreements
      /\ told' = [kind |-> "cancelled", slot |-> None, existing |-> FALSE]
    BY DEF Chat!EngineCancels, Chat!Tell, Chat!Done, Chat!MayStore
<1>2. OutcomeWasTrue'
    BY <1>1 DEF OutcomeWasTrue, Chat!OutcomeWasTrue
<1>3. QED
    BY <1>1, <1>2 DEF ChatInv, TurnIsCurrent

\* Others, and a turn that ends with an error.
LEMMA OthersKeep ==
    ASSUME ChatInv, Chat!TurnFails \/ Chat!RivalActs \/ Chat!LinkActs
    PROVE  ChatInv'
<1>1. CASE Chat!TurnFails \/ Chat!RivalActs
  <2>1. /\ chat' = None \/ UNCHANGED chat
        /\ UNCHANGED <<draft, appointment, told, agreements, seen>>
    BY <1>1 DEF Chat!TurnFails, Chat!RivalActs
  <2>2. QED
    BY <2>1 DEF ChatInv, TurnIsCurrent, OutcomeWasTrue, Chat!OutcomeWasTrue
<1>2. CASE Chat!LinkActs
  <2>1. /\ told' = None /\ UNCHANGED <<draft, chat, agreements>>
        /\ chat # None => seen' = seen \cup {appointment'}
        /\ appointment \in Chat!Appointment
    BY <1>2 DEF Chat!LinkActs, ChatInv
  <2>2. \/ \E s \in Times : appointment' = [appointment EXCEPT !.slot = s]
        \/ appointment' = [appointment EXCEPT !.arrived = TRUE]
        \/ appointment' = None
    BY <1>2 DEF Chat!LinkActs, Chat!Open
  <2>3. appointment' = None \/ appointment' \in Chat!Appointment
    BY <2>1, <2>2 DEF Chat!Appointment
  <2>4. QED
    BY <2>1, <2>3 DEF ChatInv, TurnIsCurrent, OutcomeWasTrue, Chat!OutcomeWasTrue
<1>3. QED
    BY <1>1, <1>2

\* Every step of the composed system keeps the invariant.
LEMMA StepKeepsChat == ChatInv /\ [MCNext]_mcVars => ChatInv'
<1> SUFFICES ASSUME ChatInv, [MCNext]_mcVars PROVE ChatInv'
    OBVIOUS
<1>1. CASE UNCHANGED chatVars
    BY <1>1 DEF chatVars, ChatInv, TurnIsCurrent, OutcomeWasTrue, Chat!OutcomeWasTrue
<1>2. CASE Chat!ChatNext
    BY <1>2, TurnBeginsKeeps, TurnExtractsKeeps, EngineBooksKeeps, EngineCancelsKeeps,
       OthersKeep DEF Chat!ChatNext
<1>3. QED
    BY <1>1, <1>2 DEF MCNext, mcVars, Overlapping, OneAtATime, Conversation

\* The first state, and with it every one.
LEMMA InitialChat == MCInit => ChatInv
BY DEF MCInit, Chat!ChatInit, ChatInv, TurnIsCurrent, OutcomeWasTrue, Chat!OutcomeWasTrue

LEMMA ChatIsCurrent == MCSpec => []ChatInv
BY InitialChat, StepKeepsChat, PTL DEF MCSpec

\* Whatever the link, staff and other visitors do in the middle of a turn, whichever
\* statement is lost and whatever the model answers: what the turn's outcome lets the reply
\* claim of the appointment was so in that turn.
THEOREM WhatIsToldWasSo == MCSpec => []OutcomeWasTrue
<1>1. ChatInv => OutcomeWasTrue
    BY DEF ChatInv
<1>2. QED
    BY <1>1, ChatIsCurrent, PTL

\* What the chat books or moves to is, to the hour, a time the visitor agreed to since the
\* draft was started: for any calendar, messages and number of turns.
THEOREM OnlyAgreedHours == MCSpec => BookedHourWasAgreed
<1> DEFINE Agreed == \E a \in agreements : Chat!SameHour(a, appointment'.slot)
<1>1. ChatInv /\ [MCNext]_mcVars => [Chat!Books => Agreed]_(Chat!chatVars)
  <2> SUFFICES ASSUME ChatInv, Chat!ChatNext, Chat!Books PROVE Agreed
    BY DEF MCNext, mcVars, Overlapping, OneAtATime, Conversation, chatVars, Chat!chatVars
  <2>1. /\ chat # None /\ chat.pc = "engine" /\ chat' = None
        /\ appointment' \notin {None, appointment}
    BY DEF Chat!Books
  <2>2. Chat!EngineBooks
    BY <2>1 DEF Chat!ChatNext, Chat!TurnBegins, Chat!TurnExtracts, Chat!EngineCancels,
           Chat!TurnFails, Chat!RivalActs, Chat!LinkActs
  <2>3. appointment'.slot = chat.slot
    BY <2>1, <2>2 DEF Chat!EngineBooks
  <2>4. QED
    BY <2>1, <2>3 DEF ChatInv, TurnIsCurrent
<1>2. QED
    BY <1>1, ChatIsCurrent, PTL DEF MCSpec, BookedHourWasAgreed, Chat!BookedHourWasAgreed
===============================================================================

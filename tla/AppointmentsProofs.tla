-------------------------- MODULE AppointmentsProofs --------------------------
(***************************************************************************)
(* For every set of actors, slots and businesses: the table stays well      *)
(* typed, and no staff member is booked twice at one time.  For one actor,   *)
(* so that operations do not overlap: the table implements the state machine *)
(* and a conversation has one active appointment at most.                   *)
(***************************************************************************)
EXTENDS Appointments, TLAPS

-------------------------------------------------------------------------------
(* Types of what the operations load and write.                             *)

\* A used id is the id of a row.
LEMMA RowType ==
    ASSUME TypeOK, NEW id \in Booked
    PROVE  id \in Ids /\ rows[id] \in Row
BY DEF TypeOK, Booked

\* The placeholder of an unused id is not a row.
LEMMA NoRowIsNoRow == NoRow \notin Row
BY SlotsAssumption DEF NoRow, Row

\* A loaded copy of a row of the table is well typed.
LEMMA CopyType ==
    ASSUME TypeOK, NEW id \in Booked
    PROVE  CopyOf(id) \in Copy /\ CopyOf(id).id \in Booked
BY RowType DEF CopyOf, Copy

\* What a chat turn finds for its conversation is a row of the table, or none.
LEMMA ExistingType ==
    ASSUME TypeOK, NEW conv, NEW c \in ExistingOf(conv)
    PROVE  \/ c = NoCopy
           \/ c \in Copy /\ c.id \in Booked
BY CopyType DEF ExistingOf

\* "No appointment found" is not a copy of a row.
LEMMA NoCopyIsNoCopy == NoCopy \notin Copy
BY DEF NoCopy, Copy

\* A status write of a used id keeps the table well typed, and deletes nothing.
LEMMA StatusWrittenType ==
    ASSUME TypeOK, NEW id \in Booked, NEW to \in Status
    PROVE  /\ StatusWritten(id, to) \in [Ids -> Row \cup {NoRow}]
           /\ \A j \in Booked : StatusWritten(id, to)[j] # NoRow
<1>1. id \in Ids /\ rows[id] \in Row
    BY RowType
<1>2. [rows[id] EXCEPT !.status = to] \in Row
    BY <1>1 DEF Row
<1>3. StatusWritten(id, to) \in [Ids -> Row \cup {NoRow}]
    BY <1>1, <1>2 DEF StatusWritten, TypeOK
<1>4. ASSUME NEW j \in Booked
      PROVE  StatusWritten(id, to)[j] # NoRow
  <2>1. rows[j] # NoRow /\ j \in Ids
      BY DEF Booked
  <2>2. StatusWritten(id, to)[j] \in {rows[j], [rows[id] EXCEPT !.status = to]}
      BY <1>1, <2>1 DEF StatusWritten, TypeOK
  <2>3. QED
      BY <1>2, <2>1, <2>2, NoRowIsNoRow
<1>5. QED
    BY <1>3, <1>4

-------------------------------------------------------------------------------
(* The invariant IInv: types, and no copy of a row that does not exist.     *)

\* An operation that moves on to task t, whatever it wrote: enough for IInv.
LEMMA BecomeKeepsIInv ==
    ASSUME IInv, NEW p \in Actors, NEW t \in Tasks, Become(p, t),
           rows' \in [Ids -> Row \cup {NoRow}],
           \A j \in Booked : rows'[j] # NoRow,
           \A c \in CopiesOf(t) : rows'[c.id] # NoRow /\ c.id \in Ids,
           clock' \in Nat
    PROVE  IInv'
<1>1. task' = [task EXCEPT ![p] = t] /\ task \in [Actors -> Tasks]
    BY DEF Become, IInv, TypeOK
<1>2. TypeOK'
    BY <1>1 DEF TypeOK
<1>3. ASSUME NEW q \in Actors, NEW c \in CopiesOf(task'[q])
      PROVE  c.id \in Booked'
  <2>1. CASE q = p
    BY <1>1, <1>3, <2>1 DEF Booked
  <2>2. CASE q # p
    <3>1. c \in CopiesOf(task[q])
        BY <1>1, <1>3, <2>2
    <3>2. c.id \in Booked
        BY <3>1 DEF IInv, CopiesAreOfRows
    <3>3. QED
        BY <3>2 DEF Booked
  <2>3. QED
    BY <2>1, <2>2
<1>4. CopiesAreOfRows'
    BY <1>3 DEF CopiesAreOfRows, CopiesOf
<1>5. QED
    BY <1>2, <1>4 DEF IInv

\* The same for an operation that only looked.
LEMMA LookingKeepsIInv ==
    ASSUME IInv, NEW p \in Actors, NEW t \in Tasks, Become(p, t),
           \A c \in CopiesOf(t) : c.id \in Booked,
           UNCHANGED <<rows, clock>>
    PROVE  IInv'
<1>1. /\ rows' \in [Ids -> Row \cup {NoRow}]
      /\ \A j \in Booked : rows'[j] # NoRow
      /\ \A c \in CopiesOf(t) : rows'[c.id] # NoRow /\ c.id \in Ids
      /\ clock' \in Nat
    BY DEF IInv, TypeOK, Booked
<1>2. QED
    BY <1>1, BecomeKeepsIInv

\* An actor between operations is well typed and holds no copy.
LEMMA IdleIsTask == Idle \in Tasks /\ CopiesOf(Idle) = {}
BY DEF Idle, Tasks, CopiesOf

\* What a task holds, by the step it is at.
LEMMA TaskShape ==
    ASSUME IInv, NEW p \in Actors
    PROVE  /\ task[p].pc = "turn" =>
                  \/ task[p].existing = NoCopy
                  \/ task[p].existing \in Copy /\ task[p].existing.id \in Booked
           /\ task[p].pc \in {"move_link", "times", "status"} =>
                  task[p].copy \in Copy /\ task[p].copy.id \in Booked
           /\ task[p].pc \in {"insert", "times"} => task[p].slot \in Slots
           /\ task[p].pc = "insert" => task[p].conv \in Convs
           /\ task[p].pc = "status" => task[p].to \in Status
           /\ task[p].pc = "sweep" =>
                  /\ task[p].batch \in SUBSET Copy
                  /\ \A c \in task[p].batch : c.id \in Booked
<1>1. task[p] \in Tasks
    BY DEF IInv, TypeOK
<1>2. \A c \in CopiesOf(task[p]) : c.id \in Booked
    BY DEF IInv, CopiesAreOfRows
<1>3. CASE task[p].pc = "turn"
  <2>1. task[p].existing \in Copy \cup {NoCopy}
    BY <1>1, <1>3 DEF Tasks, Idle
  <2>2. QED
    BY <1>2, <1>3, <2>1 DEF CopiesOf
<1>4. CASE task[p].pc \in {"move_link", "times", "status"}
  <2>1. /\ task[p].copy \in Copy
        /\ task[p].pc = "times" => task[p].slot \in Slots
        /\ task[p].pc = "status" => task[p].to \in Status
    BY <1>1, <1>4 DEF Tasks, Idle
  <2>2. QED
    BY <1>2, <1>4, <2>1 DEF CopiesOf
<1>5. CASE task[p].pc = "sweep"
  <2>1. task[p].batch \in SUBSET Copy
    BY <1>1, <1>5 DEF Tasks, Idle
  <2>2. QED
    BY <1>2, <1>5, <2>1 DEF CopiesOf
<1>6. CASE task[p].pc = "insert"
    BY <1>1, <1>6 DEF Tasks, Idle
<1>7. QED
    BY <1>3, <1>4, <1>5, <1>6

\* What a chat turn does before its write.
LEMMA ChatTurnKeepsIInv ==
    ASSUME IInv, NEW p \in Actors,
           \/ \E conv \in Convs : TurnLoad(p, conv)
           \/ TurnEndsWithoutEffect(p)
           \/ TurnCancels(p)
           \/ TurnReschedules(p)
           \/ TurnBooks(p)
    PROVE  IInv'
<1>1. CASE \E conv \in Convs : TurnLoad(p, conv)
  <2>1. PICK conv \in Convs : TurnLoad(p, conv)
    BY <1>1
  <2>2. PICK c \in ExistingOf(conv) :
            Become(p, [pc |-> "turn", conv |-> conv, existing |-> c, now |-> clock])
    BY <2>1 DEF TurnLoad
  <2> DEFINE t == [pc |-> "turn", conv |-> conv, existing |-> c, now |-> clock]
  <2>3. c = NoCopy \/ (c \in Copy /\ c.id \in Booked)
    BY ExistingType DEF IInv
  <2>4. t \in Tasks
    BY <2>3 DEF Tasks, IInv, TypeOK
  <2>5. \A d \in CopiesOf(t) : d.id \in Booked
    BY <2>3, NoCopyIsNoCopy DEF CopiesOf
  <2>6. UNCHANGED <<rows, clock>>
    BY <2>1 DEF TurnLoad
  <2> HIDE DEF t
  <2>7. Become(p, t)
    BY <2>2 DEF t
  <2>8. QED
    BY <2>4, <2>5, <2>6, <2>7, LookingKeepsIInv
<1>2. CASE TurnEndsWithoutEffect(p)
    BY <1>2, IdleIsTask, LookingKeepsIInv DEF TurnEndsWithoutEffect
<1>3. CASE TurnCancels(p)
  <2> DEFINE c == task[p].existing
             t == [pc |-> "status", copy |-> c, to |-> "cancelled", by |-> "visitor"]
  <2>1. Become(p, t) /\ UNCHANGED <<rows, clock>> /\ task[p].pc = "turn" /\ c # NoCopy
    BY <1>3 DEF TurnCancels
  <2>2. c \in Copy /\ c.id \in Booked
    BY <2>1, TaskShape
  <2>3. t \in Tasks
    BY <2>2 DEF Tasks, Status, Lifecycle!Status
  <2>4. \A d \in CopiesOf(t) : d.id \in Booked
    BY <2>2 DEF CopiesOf
  <2> HIDE DEF t
  <2>5. QED
    BY <2>1, <2>3, <2>4, LookingKeepsIInv
<1>4. CASE TurnReschedules(p)
  <2> DEFINE c == task[p].existing
  <2>1. UNCHANGED <<rows, clock>> /\ task[p].pc = "turn" /\ c # NoCopy
    BY <1>4 DEF TurnReschedules
  <2>2. PICK s \in Slots : Become(p, [pc |-> "times", copy |-> c, slot |-> s])
    BY <1>4 DEF TurnReschedules, OpenSlots
  <2> DEFINE t == [pc |-> "times", copy |-> c, slot |-> s]
  <2>3. c \in Copy /\ c.id \in Booked
    BY <2>1, TaskShape
  <2>4. t \in Tasks
    BY <2>3 DEF Tasks
  <2>5. \A d \in CopiesOf(t) : d.id \in Booked
    BY <2>3 DEF CopiesOf
  <2> HIDE DEF t
  <2>6. Become(p, t)
    BY <2>2 DEF t
  <2>7. QED
    BY <2>1, <2>4, <2>5, <2>6, LookingKeepsIInv
<1>5. CASE TurnBooks(p)
  <2>1. UNCHANGED <<rows, clock>> /\ task[p].pc = "turn"
    BY <1>5 DEF TurnBooks
  <2>2. PICK s \in Slots : Become(p, [pc |-> "insert", conv |-> task[p].conv, slot |-> s])
    BY <1>5 DEF TurnBooks, OpenSlots
  <2> DEFINE t == [pc |-> "insert", conv |-> task[p].conv, slot |-> s]
  <2>3. task[p].conv \in Convs
    BY <2>1 DEF IInv, TypeOK, Tasks, Idle
  <2>4. t \in Tasks
    BY <2>3 DEF Tasks
  <2>5. \A d \in CopiesOf(t) : d.id \in Booked
    BY DEF CopiesOf
  <2> HIDE DEF t
  <2>6. Become(p, t)
    BY <2>2 DEF t
  <2>7. QED
    BY <2>1, <2>4, <2>5, <2>6, LookingKeepsIInv
<1>6. QED
    BY <1>1, <1>2, <1>3, <1>4, <1>5

\* What a manage-link or staff request does before its write.
LEMMA LinkAndStaffKeepIInv ==
    ASSUME IInv, NEW p \in Actors,
           \/ \E id \in Ids : \/ LinkStatus(p, id)
                            \/ LinkRescheduleLoad(p, id)
                            \/ StaffStatus(p, id)
           \/ LinkReschedulePick(p)
    PROVE  IInv'
<1>1. ASSUME NEW id \in Ids, LinkStatus(p, id) \/ StaffStatus(p, id)
      PROVE  IInv'
  <2>1. id \in Booked /\ UNCHANGED <<rows, clock>>
    BY <1>1 DEF LinkStatus, StaffStatus
  <2>2. PICK to \in Status, by \in {"visitor", "staff"} :
            Become(p, [pc |-> "status", copy |-> CopyOf(id), to |-> to, by |-> by])
    BY <1>1 DEF LinkStatus, StaffStatus, Status, Lifecycle!Status
  <2> DEFINE t == [pc |-> "status", copy |-> CopyOf(id), to |-> to, by |-> by]
  <2>3. CopyOf(id) \in Copy /\ CopyOf(id).id \in Booked
    BY <2>1, CopyType DEF IInv
  <2>4. t \in Tasks
    BY <2>3 DEF Tasks
  <2>5. \A d \in CopiesOf(t) : d.id \in Booked
    BY <2>3 DEF CopiesOf
  <2> HIDE DEF t
  <2>6. Become(p, t)
    BY <2>2 DEF t
  <2>7. QED
    BY <2>1, <2>4, <2>5, <2>6, LookingKeepsIInv
<1>2. ASSUME NEW id \in Ids, LinkRescheduleLoad(p, id)
      PROVE  IInv'
  <2> DEFINE t == [pc |-> "move_link", copy |-> CopyOf(id)]
  <2>1. id \in Booked /\ UNCHANGED <<rows, clock>> /\ Become(p, t)
    BY <1>2 DEF LinkRescheduleLoad
  <2>2. CopyOf(id) \in Copy /\ CopyOf(id).id \in Booked
    BY <2>1, CopyType DEF IInv
  <2>3. t \in Tasks
    BY <2>2 DEF Tasks
  <2>4. \A d \in CopiesOf(t) : d.id \in Booked
    BY <2>2 DEF CopiesOf
  <2> HIDE DEF t
  <2>5. QED
    BY <2>1, <2>3, <2>4, LookingKeepsIInv
<1>3. CASE LinkReschedulePick(p)
  <2> DEFINE c == task[p].copy
  <2>1. task[p].pc = "move_link" /\ UNCHANGED <<rows, clock>>
    BY <1>3 DEF LinkReschedulePick
  <2>2. c \in Copy /\ c.id \in Booked
    BY <2>1, TaskShape
  <2>3. CASE Become(p, Idle)
    BY <2>1, <2>3, IdleIsTask, LookingKeepsIInv
  <2>4. ASSUME NEW s \in Slots, Become(p, [pc |-> "times", copy |-> c, slot |-> s])
        PROVE  IInv'
    <3> DEFINE t == [pc |-> "times", copy |-> c, slot |-> s]
    <3>1. t \in Tasks
      BY <2>2 DEF Tasks
    <3>2. \A d \in CopiesOf(t) : d.id \in Booked
      BY <2>2 DEF CopiesOf
    <3>3. Become(p, t)
      BY <2>4
    <3> HIDE DEF t
    <3>4. QED
      BY <2>1, <3>1, <3>2, <3>3, LookingKeepsIInv
  <2>5. Become(p, Idle) \/ \E s \in Slots : Become(p, [pc |-> "times", copy |-> c, slot |-> s])
    BY <1>3 DEF LinkReschedulePick, OpenSlots
  <2>6. QED
    BY <2>3, <2>4, <2>5
<1>4. QED
    BY <1>1, <1>2, <1>3

\* The INSERT and the UPDATEs of the requests.
LEMMA WritesKeepIInv ==
    ASSUME IInv, NEW p \in Actors, Insert(p) \/ UpdateTimes(p) \/ UpdateStatus(p)
    PROVE  IInv'
<1>1. /\ Become(p, Idle) /\ clock' \in Nat
      /\ rows \in [Ids -> Row \cup {NoRow}]
    BY DEF Insert, UpdateTimes, UpdateStatus, IInv, TypeOK
<1>2. ASSUME rows' \in [Ids -> Row \cup {NoRow}], \A j \in Booked : rows'[j] # NoRow
      PROVE  IInv'
    BY <1>1, <1>2, IdleIsTask, BecomeKeepsIInv
<1>3. CASE Insert(p)
  <2>1. CASE UNCHANGED rows
    BY <1>1, <1>2, <2>1 DEF Booked
  <2>2. CASE rows' # rows
    <3> DEFINE r == [status |-> "confirmed", slot |-> task[p].slot, conv |-> task[p].conv]
    <3>1. PICK id \in Ids \ Booked : rows' = [rows EXCEPT ![id] = r]
      BY <1>3, <2>2 DEF Insert
    <3>2. r \in Row
      BY <1>3, TaskShape DEF Insert, Row, Status, Lifecycle!Status
    <3>3. rows' \in [Ids -> Row \cup {NoRow}]
      BY <1>1, <3>1, <3>2
    <3>4. \A j \in Booked : rows'[j] # NoRow
      BY <1>1, <3>1 DEF Booked
    <3>5. QED
      BY <1>2, <3>3, <3>4
  <2>3. QED
    BY <2>1, <2>2
<1>4. CASE UpdateTimes(p)
  <2> DEFINE id == task[p].copy.id
             r == [rows[id] EXCEPT !.slot = task[p].slot]
  <2>1. id \in Booked /\ task[p].slot \in Slots
    BY <1>4, TaskShape DEF UpdateTimes
  <2>2. rows[id] \in Row /\ id \in Ids
    BY <2>1, RowType DEF IInv
  <2>3. r \in Row
    BY <2>1, <2>2 DEF Row
  <2>4. rows' = rows \/ rows' = [rows EXCEPT ![id] = r]
    BY <1>4 DEF UpdateTimes
  <2> HIDE DEF r, id
  <2>5. rows' \in [Ids -> Row \cup {NoRow}]
    BY <1>1, <2>3, <2>4
  <2>6. \A j \in Booked : rows'[j] # NoRow
    BY <1>1, <2>2, <2>3, <2>4, NoRowIsNoRow DEF Booked
  <2>7. QED
    BY <1>2, <2>5, <2>6
<1>5. CASE UpdateStatus(p)
  <2>1. task[p].copy.id \in Booked /\ task[p].to \in Status
    BY <1>5, TaskShape DEF UpdateStatus
  <2>2. rows' = StatusWritten(task[p].copy.id, task[p].to)
    BY <1>5 DEF UpdateStatus
  <2>3. QED
    BY <1>2, <2>1, <2>2, StatusWrittenType DEF IInv
<1>6. QED
    BY <1>3, <1>4, <1>5

\* The sweep loads a batch, then writes its rows one by one.
LEMMA SweepKeepsIInv ==
    ASSUME IInv, NEW p \in Actors, SweepScan(p) \/ SweepWrite(p)
    PROVE  IInv'
<1>1. CASE SweepScan(p)
  <2>1. PICK B \in Batches(clock) :
            Become(p, [pc |-> "sweep",
                       batch |-> {CopyOf(i) : i \in {j \in B : NoShowOverdue(rows[j], clock)}}])
    BY <1>1 DEF SweepScan
  <2> DEFINE due == {j \in B : NoShowOverdue(rows[j], clock)}
             t == [pc |-> "sweep", batch |-> {CopyOf(i) : i \in due}]
  <2>2. due \subseteq Booked
    BY DEF Batches, Candidates
  <2> HIDE DEF due
  <2>3. \A i \in due : CopyOf(i) \in Copy /\ CopyOf(i).id \in Booked
    BY <2>2, CopyType DEF IInv
  <2>4. t \in Tasks
    BY <2>3 DEF Tasks
  <2>5. \A d \in CopiesOf(t) : d.id \in Booked
    BY <2>3 DEF CopiesOf
  <2>6. Become(p, t) /\ UNCHANGED <<rows, clock>>
    BY <1>1, <2>1 DEF SweepScan, due
  <2> HIDE DEF t
  <2>7. QED
    BY <2>4, <2>5, <2>6, LookingKeepsIInv
<1>2. CASE SweepWrite(p)
  <2>1. task[p].pc = "sweep"
    BY <1>2 DEF SweepWrite
  <2>2. PICK c \in task[p].batch :
            /\ rows' = StatusWritten(c.id, "no_show")
            /\ Become(p, IF task[p].batch \ {c} = {} THEN Idle
                         ELSE [pc |-> "sweep", batch |-> task[p].batch \ {c}])
    BY <1>2 DEF SweepWrite
  <2> DEFINE rest == task[p].batch \ {c}
             t == IF rest = {} THEN Idle ELSE [pc |-> "sweep", batch |-> rest]
  <2>3. task[p].batch \in SUBSET Copy /\ \A d \in task[p].batch : d.id \in Booked
    BY <2>1, TaskShape
  <2>4. t \in Tasks
    BY <2>3, IdleIsTask DEF Tasks
  <2>5. \A d \in CopiesOf(t) : d.id \in Booked
    BY <2>3, IdleIsTask DEF CopiesOf
  <2>6. c.id \in Booked /\ "no_show" \in Status
    BY <2>3 DEF Status, Lifecycle!Status
  <2>7. rows' \in [Ids -> Row \cup {NoRow}] /\ \A j \in Booked : rows'[j] # NoRow
    BY <2>2, <2>6, StatusWrittenType DEF IInv
  <2>8. Become(p, t) /\ clock' \in Nat
    BY <1>2, <2>2 DEF SweepWrite, IInv, TypeOK
  <2>9. \A d \in CopiesOf(t) : rows'[d.id] # NoRow /\ d.id \in Ids
    BY <2>5, <2>7 DEF Booked
  <2> HIDE DEF t
  <2>10. QED
    BY <2>4, <2>7, <2>8, <2>9, BecomeKeepsIInv
<1>3. QED
    BY <1>1, <1>2

\* Every step keeps the invariant.
LEMMA StepKeepsIInv == IInv /\ [Next]_vars => IInv'
<1> SUFFICES ASSUME IInv, [Next]_vars PROVE IInv'
    OBVIOUS
<1>1. ASSUME NEW p \in Clerks, ClerkStep(p) PROVE IInv'
  <2>1. p \in Actors
    BY DEF Actors
  <2>2. QED
    BY <1>1, <2>1, ChatTurnKeepsIInv, LinkAndStaffKeepIInv, WritesKeepIInv DEF ClerkStep
<1>2. ASSUME NEW p \in Sweepers, SweepScan(p) \/ SweepWrite(p) PROVE IInv'
    BY <1>2, SweepKeepsIInv DEF Actors
<1>3. ASSUME NEW p \in Actors, Crash(p) PROVE IInv'
    BY <1>3, IdleIsTask, LookingKeepsIInv DEF Crash
<1>4. CASE Tick
    BY <1>4 DEF Tick, IInv, TypeOK, CopiesAreOfRows, Booked
<1>5. CASE UNCHANGED vars
    BY <1>5 DEF vars, IInv, TypeOK, CopiesAreOfRows, Booked
<1>6. QED
    BY <1>1, <1>2, <1>3, <1>4, <1>5 DEF Next

\* The empty table.
LEMMA InitIInv == Init => IInv
<1> SUFFICES ASSUME Init PROVE IInv
    OBVIOUS
<1>1. TypeOK
    BY IdleIsTask DEF Init, TypeOK
<1>2. CopiesAreOfRows
    BY IdleIsTask DEF Init, CopiesAreOfRows
<1>3. QED
    BY <1>1, <1>2 DEF IInv

\* Every UPDATE by id finds its row, and every task and row is well typed, for
\* any number of concurrent requests and sweeps.
THEOREM TableIsWellTyped == Spec => []IInv
BY InitIInv, StepKeepsIInv, PTL DEF Spec

\* TypeOK of every reachable state.
THEOREM TypeCorrect == Spec => []TypeOK
<1>1. IInv => TypeOK
    BY DEF IInv
<1>2. QED
    BY <1>1, TableIsWellTyped, PTL

-------------------------------------------------------------------------------
(* No double booking.                                                       *)

\* One row replaced by a row the exclusion constraint accepts.
LEMMA AcceptedRowKeepsSlotsApart ==
    ASSUME IInv, NoDoubleBooking, NEW id \in Ids, NEW r \in Row,
           rows' = [rows EXCEPT ![id] = r],
           r.status \in HoldsSlot =>
              ~ \E j \in Booked : /\ j # id
                                  /\ rows[j].status \in HoldsSlot
                                  /\ Overlap(rows[j].slot, r.slot)
    PROVE  NoDoubleBooking'
<1>1. rows \in [Ids -> Row \cup {NoRow}]
    BY DEF IInv, TypeOK
<1>2. \A j \in Booked' : j # id => j \in Booked /\ rows'[j] = rows[j]
    BY <1>1 DEF Booked
<1>3. rows'[id] = r
    BY <1>1
<1>4. \A s, t : Overlap(s, t) <=> Overlap(t, s)
    BY DEF Overlap
<1>5. ASSUME NEW i \in Booked', NEW j \in Booked', i # j,
             rows'[i].status \in HoldsSlot, rows'[j].status \in HoldsSlot
      PROVE  ~ Overlap(rows'[i].slot, rows'[j].slot)
  <2>1. CASE i # id /\ j # id
    BY <1>2, <1>5, <2>1 DEF NoDoubleBooking
  <2>2. CASE i = id
    BY <1>2, <1>3, <1>4, <1>5, <2>2
  <2>3. CASE j = id
    BY <1>2, <1>3, <1>5, <2>3
  <2>4. QED
    BY <2>1, <2>2, <2>3
<1>6. QED
    BY <1>5 DEF NoDoubleBooking, HoldsSlot

\* A status write may bring a closed row back to life, but not into a taken slot.
LEMMA StatusWriteKeepsSlotsApart ==
    ASSUME IInv, NoDoubleBooking, NEW id \in Booked, NEW to \in Status,
           rows' = StatusWritten(id, to)
    PROVE  NoDoubleBooking'
<1>1. id \in Ids /\ rows[id] \in Row
    BY RowType DEF IInv
<1>2. CASE Excluded(id, to, rows[id].slot)
    BY <1>2 DEF StatusWritten, NoDoubleBooking, Booked
<1>3. CASE ~ Excluded(id, to, rows[id].slot)
  <2> DEFINE r == [rows[id] EXCEPT !.status = to]
  <2>1. rows' = [rows EXCEPT ![id] = r]
    BY <1>3 DEF StatusWritten
  <2>2. r \in Row /\ r.status = to /\ r.slot = rows[id].slot
    BY <1>1 DEF Row
  <2> HIDE DEF r
  <2>3. QED
    BY <1>1, <1>3, <2>1, <2>2, AcceptedRowKeepsSlotsApart DEF Excluded
<1>4. QED
    BY <1>2, <1>3

\* Every write of a slot or a status goes through the exclusion constraint.
LEMMA StepKeepsSlotsApart == IInv /\ NoDoubleBooking /\ [Next]_vars => NoDoubleBooking'
<1> SUFFICES ASSUME IInv, NoDoubleBooking, [Next]_vars PROVE NoDoubleBooking'
    OBVIOUS
<1>1. CASE UNCHANGED rows
    BY <1>1 DEF NoDoubleBooking, Booked
<1>2. ASSUME NEW p \in Actors, Insert(p), rows' # rows
      PROVE  NoDoubleBooking'
  <2> DEFINE r == [status |-> "confirmed", slot |-> task[p].slot, conv |-> task[p].conv]
  <2>1. PICK id \in Ids \ Booked : rows' = [rows EXCEPT ![id] = r]
    BY <1>2 DEF Insert
  <2>2. r \in Row
    BY <1>2, TaskShape DEF Insert, Row, Status, Lifecycle!Status
  <2>3. ~ Excluded(0, "confirmed", task[p].slot)
    BY <1>2 DEF Insert
  <2>4. \A j \in Booked : j # 0
    BY ParametersAssumption DEF Booked, Ids
  <2>5. ~ \E j \in Booked : rows[j].status \in HoldsSlot /\ Overlap(rows[j].slot, r.slot)
    BY <2>3, <2>4 DEF Excluded, HoldsSlot, Lifecycle!Active
  <2> HIDE DEF r
  <2>6. QED
    BY <2>1, <2>2, <2>5, AcceptedRowKeepsSlotsApart
<1>3. ASSUME NEW p \in Actors, UpdateTimes(p), rows' # rows
      PROVE  NoDoubleBooking'
  <2> DEFINE id == task[p].copy.id
             r == [rows[id] EXCEPT !.slot = task[p].slot]
  <2>1. id \in Booked /\ task[p].slot \in Slots
    BY <1>3, TaskShape DEF UpdateTimes
  <2>2. rows[id] \in Row /\ id \in Ids
    BY <2>1, RowType DEF IInv
  <2>3. r \in Row /\ r.slot = task[p].slot /\ r.status = rows[id].status
    BY <2>1, <2>2 DEF Row
  <2>4. ~ Excluded(id, rows[id].status, task[p].slot) /\ rows' = [rows EXCEPT ![id] = r]
    BY <1>3 DEF UpdateTimes
  <2> HIDE DEF r, id
  <2>5. QED
    BY <2>2, <2>3, <2>4, AcceptedRowKeepsSlotsApart DEF Excluded
<1>4. ASSUME NEW p \in Actors, UpdateStatus(p)
      PROVE  NoDoubleBooking'
  <2>1. task[p].copy.id \in Booked /\ task[p].to \in Status
    BY <1>4, TaskShape DEF UpdateStatus
  <2>2. QED
    BY <1>4, <2>1, StatusWriteKeepsSlotsApart DEF UpdateStatus
<1>5. ASSUME NEW p \in Actors, SweepWrite(p)
      PROVE  NoDoubleBooking'
  <2>1. PICK c \in task[p].batch : rows' = StatusWritten(c.id, "no_show")
    BY <1>5 DEF SweepWrite
  <2>2. c.id \in Booked /\ "no_show" \in Status
    BY <1>5, TaskShape DEF SweepWrite, Status, Lifecycle!Status
  <2>3. QED
    BY <2>1, <2>2, StatusWriteKeepsSlotsApart
<1>6. \/ UNCHANGED rows
      \/ \E p \in Actors : Insert(p) \/ UpdateTimes(p) \/ UpdateStatus(p) \/ SweepWrite(p)
    BY DEF Next, ClerkStep, Actors, vars, TurnLoad, TurnEndsWithoutEffect, TurnCancels,
           TurnReschedules, TurnBooks, LinkStatus, LinkRescheduleLoad, StaffStatus,
           LinkReschedulePick, SweepScan, Crash, Tick
<1>7. QED
    BY <1>1, <1>2, <1>3, <1>4, <1>5, <1>6

\* No staff member ever holds two overlapping active appointments, however many
\* requests, stale copies and sweeps interleave.
THEOREM NeverDoubleBooked == Spec => []NoDoubleBooking
<1>1. Init => NoDoubleBooking
    BY DEF Init, NoDoubleBooking, Booked
<1>2. QED
    BY <1>1, StepKeepsSlotsApart, TableIsWellTyped, PTL DEF Spec

-------------------------------------------------------------------------------
(* One operation at a time.  When one handler does all the work, what an      *)
(* operation holds in memory is what the table still holds, so that the       *)
(* checks it made on the copy are checks on the row.                        *)

OneHandler == \A p, q \in Actors : p = q

\* What was loaded is what the table holds.
Current(t) == \A c \in CopiesOf(t) : c.row = rows[c.id]

\* What was decided on the copy is legal for the copy.
Decided(t) ==
    /\ t.pc = "status" => Lifecycle!CanTransition(t.copy.row.status, t.to)
    /\ t.pc = "times" => t.copy.row.status \in Lifecycle!Live

HasNoActive(conv) ==
    \A id \in Booked : rows[id].conv = conv => rows[id].status \notin HoldsSlot

\* A turn that found no appointment books for a conversation that has none.
FoundNone(t) ==
    t.pc = "insert" \/ (t.pc = "turn" /\ t.existing = NoCopy) => HasNoActive(t.conv)

AsLoaded(t) == Current(t) /\ Decided(t) /\ FoundNone(t)

SerialInv == IInv /\ OneActivePerConversation /\ \A p \in Actors : AsLoaded(task[p])

\* What a write does to the table when the row is as it was loaded.
LegalWrite ==
    \/ UNCHANGED rows
    \/ \E id \in Ids \ Booked, s \in Slots, conv \in Convs :
          /\ HasNoActive(conv)
          /\ rows' = [rows EXCEPT ![id] = [status |-> "confirmed", slot |-> s, conv |-> conv]]
    \/ \E id \in Booked, s \in Slots :
          /\ rows[id].status \in Lifecycle!Live
          /\ rows' = [rows EXCEPT ![id].slot = s]
    \/ \E id \in Booked, to \in Status :
          /\ Lifecycle!CanTransition(rows[id].status, to)
          /\ rows' = [rows EXCEPT ![id].status = to]

\* An actor between operations holds nothing that could be out of date.
LEMMA IdleIsAsLoaded == AsLoaded(Idle) /\ Idle.pc = "idle"
BY IdleIsTask DEF AsLoaded, Current, Decided, FoundNone, Idle

\* An operation that only looked.
LEMMA LookingKeepsAsLoaded ==
    ASSUME SerialInv, IInv', NEW p \in Actors, NEW t, Become(p, t), AsLoaded(t), UNCHANGED rows
    PROVE  SerialInv'
<1>1. task' = [task EXCEPT ![p] = t] /\ task \in [Actors -> Tasks]
    BY DEF Become, SerialInv, IInv, TypeOK
<1>2. \A q \in Actors : task'[q] = t \/ task'[q] = task[q]
    BY <1>1
<1>3. \A q \in Actors : AsLoaded(task'[q])
    BY <1>2 DEF SerialInv
<1>4. \A q \in Actors : AsLoaded(task[q])'
    BY <1>3 DEF AsLoaded, Current, Decided, FoundNone, HasNoActive, Booked
<1>5. OneActivePerConversation'
    BY DEF SerialInv, OneActivePerConversation, Booked
<1>6. QED
    BY <1>4, <1>5 DEF SerialInv

\* A write: a sweep goes on with the copies of other rows, and nobody else holds any.
LEMMA WritingKeepsAsLoaded ==
    ASSUME OneHandler, SerialInv, NEW p \in Actors, NEW t, Become(p, t),
           t.pc \in {"idle", "sweep"},
           \A c \in CopiesOf(t) : c.row = rows'[c.id]
    PROVE  \A q \in Actors : AsLoaded(task[q])'
<1>1. task' = [task EXCEPT ![p] = t] /\ task \in [Actors -> Tasks]
    BY DEF Become, SerialInv, IInv, TypeOK
<1>2. \A q \in Actors : task'[q] = t
    BY <1>1 DEF OneHandler
<1>3. QED
    BY <1>2 DEF AsLoaded, Current, Decided, FoundNone

\* A legal write gives no conversation a second active appointment.
LEMMA LegalWriteKeepsOneActive ==
    ASSUME IInv, OneActivePerConversation, LegalWrite
    PROVE  OneActivePerConversation'
<1>1. rows \in [Ids -> Row \cup {NoRow}]
    BY DEF IInv, TypeOK
<1>2. ASSUME NEW id \in Ids, NEW r, rows' = [rows EXCEPT ![id] = r],
             r.status \in HoldsSlot =>
                \A j \in Booked \ {id} :
                    rows[j].conv = r.conv => rows[j].status \notin HoldsSlot
      PROVE  OneActivePerConversation'
  <2>1. \A j \in Booked' : j # id => j \in Booked /\ rows'[j] = rows[j]
    BY <1>1, <1>2 DEF Booked
  <2>2. rows'[id] = r
    BY <1>1, <1>2
  <2>3. ASSUME NEW i \in Booked', NEW j \in Booked', rows'[i].status \in HoldsSlot,
               rows'[j].status \in HoldsSlot, rows'[i].conv = rows'[j].conv, i # j
        PROVE  FALSE
    <3>1. CASE i # id /\ j # id
      BY <2>1, <2>3, <3>1 DEF OneActivePerConversation
    <3>2. CASE i = id
      BY <1>2, <2>1, <2>2, <2>3, <3>2
    <3>3. CASE j = id
      BY <1>2, <2>1, <2>2, <2>3, <3>3
    <3>4. QED
      BY <3>1, <3>2, <3>3
  <2>4. QED
    BY <2>3 DEF OneActivePerConversation, HoldsSlot
<1>3. CASE UNCHANGED rows
    BY <1>3 DEF OneActivePerConversation, Booked
<1>4. ASSUME NEW id \in Ids \ Booked, NEW s \in Slots, NEW conv \in Convs, HasNoActive(conv),
             rows' = [rows EXCEPT ![id] = [status |-> "confirmed", slot |-> s, conv |-> conv]]
      PROVE  OneActivePerConversation'
    BY <1>2, <1>4 DEF HasNoActive
<1>5. ASSUME NEW id \in Booked, NEW r, rows' = [rows EXCEPT ![id] = r],
             r.conv = rows[id].conv,
             r.status \in HoldsSlot => rows[id].status \in HoldsSlot
      PROVE  OneActivePerConversation'
  <2>1. id \in Ids
    BY DEF Booked
  <2>2. ASSUME NEW j \in Booked \ {id}, r.status \in HoldsSlot, rows[j].conv = r.conv
        PROVE  rows[j].status \notin HoldsSlot
    BY <1>5, <2>2 DEF OneActivePerConversation
  <2>3. QED
    BY <1>2, <1>5, <2>1, <2>2
<1>6. ASSUME NEW id \in Booked, NEW s \in Slots, rows' = [rows EXCEPT ![id].slot = s]
      PROVE  OneActivePerConversation'
  <2> DEFINE r == [rows[id] EXCEPT !.slot = s]
  <2>1. r.conv = rows[id].conv /\ r.status = rows[id].status
    BY RowType DEF IInv, Row
  <2>2. rows' = [rows EXCEPT ![id] = r]
    BY <1>6
  <2> HIDE DEF r
  <2>3. QED
    BY <1>5, <2>1, <2>2
<1>7. ASSUME NEW id \in Booked, NEW to \in Status, rows' = [rows EXCEPT ![id].status = to],
             Lifecycle!CanTransition(rows[id].status, to)
      PROVE  OneActivePerConversation'
  <2> DEFINE r == [rows[id] EXCEPT !.status = to]
  <2>1. r.conv = rows[id].conv
    BY RowType DEF IInv, Row
  <2>2. rows[id].status \in Status
    BY RowType DEF IInv, Row
  <2>3. rows[id].status \in HoldsSlot
    BY <1>7, <2>2 DEF Lifecycle!CanTransition, Lifecycle!Transitions, HoldsSlot,
           Lifecycle!Active, Status, Lifecycle!Status
  <2>4. rows' = [rows EXCEPT ![id] = r]
    BY <1>7
  <2> HIDE DEF r
  <2>5. QED
    BY <1>5, <2>1, <2>3, <2>4
<1>8. QED
    BY <1>3, <1>4, <1>6, <1>7 DEF LegalWrite

\* A legal write is a step of the state machine.
LEMMA LegalWriteIsLegal ==
    ASSUME IInv, LegalWrite
    PROVE  [Lifecycle!Next]_(Lifecycle!lifecycleVars)
<1>1. rows \in [Ids -> Row \cup {NoRow}]
    BY DEF IInv, TypeOK
<1>2. CASE UNCHANGED rows
    BY <1>2 DEF Lifecycle!lifecycleVars
<1>3. ASSUME NEW id \in Ids \ Booked, NEW s \in Slots, NEW conv \in Convs,
             rows' = [rows EXCEPT ![id] = [status |-> "confirmed", slot |-> s, conv |-> conv]]
      PROVE  Lifecycle!Book(id)
  <2>1. rows[id].status = "none"
    BY DEF Booked, NoRow
  <2>2. [i \in Ids |-> rows'[i].status] =
            [[i \in Ids |-> rows[i].status] EXCEPT ![id] = "confirmed"]
    BY <1>1, <1>3
  <2>3. [i \in Ids |-> rows'[i].slot] = [[i \in Ids |-> rows[i].slot] EXCEPT ![id] = s]
    BY <1>1, <1>3
  <2>4. QED
    BY <2>1, <2>2, <2>3 DEF Lifecycle!Book
<1>4. ASSUME NEW id \in Booked, NEW s \in Slots, rows[id].status \in Lifecycle!Live,
             rows' = [rows EXCEPT ![id].slot = s]
      PROVE  Lifecycle!Reschedule(id)
  <2>1. id \in Ids /\ rows[id] \in Row
    BY RowType DEF IInv
  <2>2. [i \in Ids |-> rows'[i].status] = [i \in Ids |-> rows[i].status]
    BY <1>1, <1>4, <2>1 DEF Row
  <2>3. [i \in Ids |-> rows'[i].slot] = [[i \in Ids |-> rows[i].slot] EXCEPT ![id] = s]
    BY <1>1, <1>4, <2>1 DEF Row
  <2>4. QED
    BY <1>4, <2>1, <2>2, <2>3 DEF Lifecycle!Reschedule
<1>5. ASSUME NEW id \in Booked, NEW to \in Status,
             Lifecycle!CanTransition(rows[id].status, to),
             rows' = [rows EXCEPT ![id].status = to]
      PROVE  Lifecycle!Move(id)
  <2>1. id \in Ids /\ rows[id] \in Row /\ rows[id].status \in Status
    BY RowType DEF IInv, Row
  <2>2. [i \in Ids |-> rows'[i].slot] = [i \in Ids |-> rows[i].slot]
    BY <1>1, <1>5, <2>1 DEF Row
  <2>3. [i \in Ids |-> rows'[i].status] = [[i \in Ids |-> rows[i].status] EXCEPT ![id] = to]
    BY <1>1, <1>5, <2>1 DEF Row
  <2>4. QED
    BY <1>5, <2>1, <2>2, <2>3 DEF Lifecycle!Move, Lifecycle!CanTransition, Status
<1>6. \A id \in Booked : id \in Ids
    BY DEF Booked
<1>7. QED
    BY <1>2, <1>3, <1>4, <1>5, <1>6 DEF LegalWrite, Lifecycle!Next

\* What a chat turn does before its write.
LEMMA ChatTurnKeepsSerial ==
    ASSUME SerialInv, IInv', NEW p \in Actors,
           \/ \E conv \in Convs : TurnLoad(p, conv)
           \/ TurnEndsWithoutEffect(p)
           \/ TurnCancels(p)
           \/ TurnReschedules(p)
           \/ TurnBooks(p)
    PROVE  SerialInv' /\ UNCHANGED rows
<1>1. UNCHANGED rows
    BY DEF TurnLoad, TurnEndsWithoutEffect, TurnCancels, TurnReschedules, TurnBooks
<1>2. AsLoaded(task[p])
    BY DEF SerialInv
<1>3. CASE \E conv \in Convs : TurnLoad(p, conv)
  <2>1. PICK conv \in Convs : TurnLoad(p, conv)
    BY <1>3
  <2>2. PICK c \in ExistingOf(conv) :
            Become(p, [pc |-> "turn", conv |-> conv, existing |-> c, now |-> clock])
    BY <2>1 DEF TurnLoad
  <2> DEFINE t == [pc |-> "turn", conv |-> conv, existing |-> c, now |-> clock]
  <2>3. \/ c \in Copy /\ c.row = rows[c.id]
        \/ c = NoCopy /\ HasNoActive(conv)
    <3>1. c = NoCopy \/ c \in Copy
      BY ExistingType DEF SerialInv, IInv
    <3>2. c \in Copy => c.row = rows[c.id]
      BY NoCopyIsNoCopy DEF ExistingOf, CopyOf
    <3>3. c = NoCopy => HasNoActive(conv)
      <4> SUFFICES ASSUME c = NoCopy PROVE HasNoActive(conv)
        OBVIOUS
      <4>1. \A i \in Booked : CopyOf(i) # NoCopy
        BY CopyType, NoCopyIsNoCopy DEF SerialInv, IInv
      <4>2. {i \in Booked : rows[i].conv = conv /\ rows[i].status \in HoldsSlot} = {}
        BY <4>1 DEF ExistingOf
      <4>3. QED
        BY <4>2 DEF HasNoActive
    <3>4. QED
      BY <3>1, <3>2, <3>3
  <2>4. AsLoaded(t)
    BY <2>3, NoCopyIsNoCopy DEF AsLoaded, Current, Decided, FoundNone, CopiesOf
  <2>5. Become(p, t)
    BY <2>2
  <2> HIDE DEF t
  <2>6. QED
    BY <1>1, <2>4, <2>5, LookingKeepsAsLoaded
<1>4. CASE TurnEndsWithoutEffect(p)
    BY <1>1, <1>4, IdleIsAsLoaded, LookingKeepsAsLoaded DEF TurnEndsWithoutEffect
<1>5. CASE TurnCancels(p)
  <2> DEFINE c == task[p].existing
             t == [pc |-> "status", copy |-> c, to |-> "cancelled", by |-> "visitor"]
  <2>1. /\ Become(p, t) /\ task[p].pc = "turn" /\ c # NoCopy
        /\ Lifecycle!CanTransition(c.row.status, "cancelled")
    BY <1>5 DEF TurnCancels
  <2>2. c \in Copy /\ c.row = rows[c.id]
    BY <1>2, <2>1, TaskShape DEF AsLoaded, Current, CopiesOf, SerialInv
  <2>3. AsLoaded(t)
    BY <2>1, <2>2 DEF AsLoaded, Current, Decided, FoundNone, CopiesOf
  <2> HIDE DEF t
  <2>4. QED
    BY <1>1, <2>1, <2>3, LookingKeepsAsLoaded
<1>6. CASE TurnReschedules(p)
  <2> DEFINE c == task[p].existing
  <2>1. task[p].pc = "turn" /\ c # NoCopy /\ c.row.status \in Lifecycle!Live
    BY <1>6 DEF TurnReschedules
  <2>2. PICK s \in Slots : Become(p, [pc |-> "times", copy |-> c, slot |-> s])
    BY <1>6 DEF TurnReschedules, OpenSlots
  <2> DEFINE t == [pc |-> "times", copy |-> c, slot |-> s]
  <2>3. c \in Copy /\ c.row = rows[c.id]
    BY <1>2, <2>1, TaskShape DEF AsLoaded, Current, CopiesOf, SerialInv
  <2>4. AsLoaded(t)
    BY <2>1, <2>3 DEF AsLoaded, Current, Decided, FoundNone, CopiesOf
  <2>5. Become(p, t)
    BY <2>2
  <2> HIDE DEF t
  <2>6. QED
    BY <1>1, <2>4, <2>5, LookingKeepsAsLoaded
<1>7. CASE TurnBooks(p)
  <2>1. task[p].pc = "turn" /\ task[p].existing = NoCopy
    BY <1>7 DEF TurnBooks
  <2>2. PICK s \in Slots : Become(p, [pc |-> "insert", conv |-> task[p].conv, slot |-> s])
    BY <1>7 DEF TurnBooks, OpenSlots
  <2> DEFINE t == [pc |-> "insert", conv |-> task[p].conv, slot |-> s]
  <2>3. HasNoActive(task[p].conv)
    BY <1>2, <2>1 DEF AsLoaded, FoundNone
  <2>4. AsLoaded(t)
    BY <2>3 DEF AsLoaded, Current, Decided, FoundNone, CopiesOf
  <2>5. Become(p, t)
    BY <2>2
  <2> HIDE DEF t
  <2>6. QED
    BY <1>1, <2>4, <2>5, LookingKeepsAsLoaded
<1>8. QED
    BY <1>1, <1>3, <1>4, <1>5, <1>6, <1>7

\* What a manage-link or staff request does before its write.
LEMMA LinkAndStaffKeepSerial ==
    ASSUME SerialInv, IInv', NEW p \in Actors,
           \/ \E id \in Ids : \/ LinkStatus(p, id)
                            \/ LinkRescheduleLoad(p, id)
                            \/ StaffStatus(p, id)
           \/ LinkReschedulePick(p)
    PROVE  SerialInv' /\ UNCHANGED rows
<1>1. UNCHANGED rows
    BY DEF LinkStatus, LinkRescheduleLoad, StaffStatus, LinkReschedulePick
<1>2. ASSUME NEW id \in Ids, LinkStatus(p, id) \/ StaffStatus(p, id)
      PROVE  SerialInv'
  <2>1. PICK to \in Status, by \in {"visitor", "staff"} :
            /\ Lifecycle!CanTransition(rows[id].status, to)
            /\ Become(p, [pc |-> "status", copy |-> CopyOf(id), to |-> to, by |-> by])
    BY <1>2 DEF LinkStatus, StaffStatus, Status, Lifecycle!Status
  <2> DEFINE t == [pc |-> "status", copy |-> CopyOf(id), to |-> to, by |-> by]
  <2>2. AsLoaded(t)
    BY <2>1 DEF AsLoaded, Current, Decided, FoundNone, CopiesOf, CopyOf
  <2>3. Become(p, t)
    BY <2>1
  <2> HIDE DEF t
  <2>4. QED
    BY <1>1, <2>2, <2>3, LookingKeepsAsLoaded
<1>3. ASSUME NEW id \in Ids, LinkRescheduleLoad(p, id)
      PROVE  SerialInv'
  <2> DEFINE t == [pc |-> "move_link", copy |-> CopyOf(id)]
  <2>1. Become(p, t)
    BY <1>3 DEF LinkRescheduleLoad
  <2>2. AsLoaded(t)
    BY DEF AsLoaded, Current, Decided, FoundNone, CopiesOf, CopyOf
  <2> HIDE DEF t
  <2>3. QED
    BY <1>1, <2>1, <2>2, LookingKeepsAsLoaded
<1>4. CASE LinkReschedulePick(p)
  <2> DEFINE c == task[p].copy
  <2>1. task[p].pc = "move_link"
    BY <1>4 DEF LinkReschedulePick
  <2>2. c \in Copy /\ c.row = rows[c.id]
    <3>1. AsLoaded(task[p])
      BY DEF SerialInv
    <3>2. QED
      BY <2>1, <3>1, TaskShape DEF AsLoaded, Current, CopiesOf, SerialInv
  <2>3. CASE Become(p, Idle)
    BY <1>1, <2>3, IdleIsAsLoaded, LookingKeepsAsLoaded
  <2>4. ASSUME NEW s \in Slots, c.row.status \in Lifecycle!Live,
               Become(p, [pc |-> "times", copy |-> c, slot |-> s])
        PROVE  SerialInv'
    <3> DEFINE t == [pc |-> "times", copy |-> c, slot |-> s]
    <3>1. AsLoaded(t)
      BY <2>2, <2>4 DEF AsLoaded, Current, Decided, FoundNone, CopiesOf
    <3>2. Become(p, t)
      BY <2>4
    <3> HIDE DEF t
    <3>3. QED
      BY <1>1, <3>1, <3>2, LookingKeepsAsLoaded
  <2>5. QED
    BY <1>4, <2>3, <2>4 DEF LinkReschedulePick, OpenSlots
<1>5. QED
    BY <1>1, <1>2, <1>3, <1>4

\* A status write on a row that is as it was loaded.
LEMMA StatusWriteIsLegal ==
    ASSUME IInv, NEW id \in Booked, NEW to \in Status,
           Lifecycle!CanTransition(rows[id].status, to), rows' = StatusWritten(id, to)
    PROVE  LegalWrite
BY DEF LegalWrite, StatusWritten

\* The INSERT and the UPDATEs of the requests.
LEMMA WritesAreLegal ==
    ASSUME SerialInv, NEW p \in Actors, Insert(p) \/ UpdateTimes(p) \/ UpdateStatus(p)
    PROVE  LegalWrite /\ Become(p, Idle)
<1>1. Become(p, Idle) /\ IInv /\ AsLoaded(task[p])
    BY DEF Insert, UpdateTimes, UpdateStatus, SerialInv
<1>2. CASE Insert(p)
  <2>1. /\ HasNoActive(task[p].conv)
        /\ task[p].conv \in Convs /\ task[p].slot \in Slots
    BY <1>1, <1>2, TaskShape DEF Insert, AsLoaded, FoundNone
  <2>2. CASE UNCHANGED rows
    BY <1>1, <2>2 DEF LegalWrite
  <2>3. CASE rows' # rows
    <3>1. PICK id \in Ids \ Booked :
              rows' = [rows EXCEPT ![id] = [status |-> "confirmed", slot |-> task[p].slot,
                                            conv |-> task[p].conv]]
      BY <1>2, <2>3 DEF Insert
    <3>2. QED
      BY <1>1, <2>1, <3>1 DEF LegalWrite
  <2>4. QED
    BY <2>2, <2>3
<1>3. ASSUME task[p].pc \in {"times", "status"}
      PROVE  /\ task[p].copy.id \in Booked
             /\ task[p].copy.row = rows[task[p].copy.id]
    BY <1>1, <1>3, TaskShape DEF AsLoaded, Current, CopiesOf
<1>4. CASE UpdateTimes(p)
  <2>1. /\ task[p].copy.id \in Booked /\ task[p].slot \in Slots
        /\ rows[task[p].copy.id].status \in Lifecycle!Live
    BY <1>1, <1>3, <1>4, TaskShape DEF UpdateTimes, AsLoaded, Decided
  <2>2. QED
    BY <1>1, <1>4, <2>1 DEF UpdateTimes, LegalWrite
<1>5. CASE UpdateStatus(p)
  <2>1. /\ task[p].copy.id \in Booked /\ task[p].to \in Status
        /\ Lifecycle!CanTransition(rows[task[p].copy.id].status, task[p].to)
    BY <1>1, <1>3, <1>5, TaskShape DEF UpdateStatus, AsLoaded, Decided
  <2>2. QED
    BY <1>1, <1>5, <2>1, StatusWriteIsLegal DEF UpdateStatus
<1>6. QED
    BY <1>1, <1>2, <1>4, <1>5

\* The sweep loads a batch, and writes its rows one by one.
LEMMA SweepKeepsSerial ==
    ASSUME OneHandler, SerialInv, IInv', NEW p \in Actors, SweepScan(p) \/ SweepWrite(p)
    PROVE  SerialInv' /\ LegalWrite
<1>1. CASE SweepScan(p)
  <2>1. PICK B \in Batches(clock) :
            Become(p, [pc |-> "sweep",
                       batch |-> {CopyOf(i) : i \in {j \in B : NoShowOverdue(rows[j], clock)}}])
    BY <1>1 DEF SweepScan
  <2> DEFINE due == {j \in B : NoShowOverdue(rows[j], clock)}
             t == [pc |-> "sweep", batch |-> {CopyOf(i) : i \in due}]
  <2>2. AsLoaded(t)
    BY DEF AsLoaded, Current, Decided, FoundNone, CopiesOf, CopyOf
  <2>3. Become(p, t) /\ UNCHANGED rows
    BY <1>1, <2>1 DEF SweepScan
  <2> HIDE DEF t
  <2>4. SerialInv'
    BY <2>2, <2>3, LookingKeepsAsLoaded
  <2>5. QED
    BY <2>3, <2>4 DEF LegalWrite
<1>2. CASE SweepWrite(p)
  <2>1. task[p].pc = "sweep" /\ IInv /\ AsLoaded(task[p])
    BY <1>2 DEF SweepWrite, SerialInv
  <2>2. PICK c \in task[p].batch :
            /\ Lifecycle!CanTransition(c.row.status, "no_show")
            /\ rows' = StatusWritten(c.id, "no_show")
            /\ Become(p, IF task[p].batch \ {c} = {} THEN Idle
                         ELSE [pc |-> "sweep", batch |-> task[p].batch \ {c}])
    BY <1>2 DEF SweepWrite
  <2> DEFINE rest == task[p].batch \ {c}
             t == IF rest = {} THEN Idle ELSE [pc |-> "sweep", batch |-> rest]
  <2>3. task[p].batch \in SUBSET Copy /\ \A d \in task[p].batch : d.id \in Booked
    BY <2>1, TaskShape
  <2>4. \A d \in task[p].batch : d.row = rows[d.id]
    BY <2>1, <2>3 DEF AsLoaded, Current, CopiesOf
  <2>5. LegalWrite
    <3>1. c.id \in Booked /\ "no_show" \in Status
      BY <2>3 DEF Status, Lifecycle!Status
    <3>2. QED
      BY <2>1, <2>2, <2>4, <3>1, StatusWriteIsLegal
  <2>6. \A d \in rest : d.row = rows'[d.id]
    <3>1. \A d \in rest : d.id # c.id
      BY <2>3, <2>4 DEF Copy
    <3>2. \A j \in Ids : j # c.id => rows'[j] = rows[j]
      BY <2>1, <2>2 DEF StatusWritten, IInv, TypeOK
    <3>3. QED
      BY <2>3, <2>4, <3>1, <3>2 DEF Copy
  <2>7. t.pc \in {"idle", "sweep"} /\ \A d \in CopiesOf(t) : d \in rest
    BY IdleIsTask, IdleIsAsLoaded DEF CopiesOf
  <2>8. Become(p, t)
    BY <2>2
  <2> HIDE DEF t, rest
  <2>9. \A q \in Actors : AsLoaded(task[q])'
    BY <2>6, <2>7, <2>8, WritingKeepsAsLoaded
  <2>10. OneActivePerConversation'
    BY <2>1, <2>5, LegalWriteKeepsOneActive DEF SerialInv
  <2>11. QED
    BY <2>5, <2>9, <2>10 DEF SerialInv
<1>3. QED
    BY <1>1, <1>2

\* Every step keeps the invariant, and what it writes is legal.
LEMMA StepKeepsSerial ==
    ASSUME OneHandler, SerialInv, [Next]_vars
    PROVE  SerialInv' /\ LegalWrite
<1>1. IInv'
    BY StepKeepsIInv DEF SerialInv
<1>2. ASSUME NEW p \in Clerks, ClerkStep(p)
      PROVE  SerialInv' /\ LegalWrite
  <2>1. p \in Actors
    BY DEF Actors
  <2>2. CASE Insert(p) \/ UpdateTimes(p) \/ UpdateStatus(p)
    <3>1. LegalWrite /\ Become(p, Idle)
      BY <2>1, <2>2, WritesAreLegal
    <3>2. OneActivePerConversation'
      BY <3>1, LegalWriteKeepsOneActive DEF SerialInv
    <3>3. \A q \in Actors : AsLoaded(task[q])'
      BY <2>1, <3>1, IdleIsTask, IdleIsAsLoaded, WritingKeepsAsLoaded
    <3>4. QED
      BY <1>1, <3>1, <3>2, <3>3 DEF SerialInv
  <2>3. QED
    BY <1>1, <1>2, <2>1, <2>2, ChatTurnKeepsSerial, LinkAndStaffKeepSerial
       DEF ClerkStep, LegalWrite
<1>3. ASSUME NEW p \in Sweepers, SweepScan(p) \/ SweepWrite(p)
      PROVE  SerialInv' /\ LegalWrite
    BY <1>1, <1>3, SweepKeepsSerial DEF Actors
<1>4. ASSUME NEW p \in Actors, Crash(p)
      PROVE  SerialInv' /\ LegalWrite
    BY <1>1, <1>4, IdleIsAsLoaded, LookingKeepsAsLoaded DEF Crash, LegalWrite
<1>5. CASE UNCHANGED <<rows, task>>
  <2>1. \A p \in Actors : AsLoaded(task[p])'
    BY <1>5 DEF SerialInv, AsLoaded, Current, Decided, FoundNone, HasNoActive, Booked
  <2>2. OneActivePerConversation'
    BY <1>5 DEF SerialInv, OneActivePerConversation, Booked
  <2>3. QED
    BY <1>1, <1>5, <2>1, <2>2 DEF SerialInv, LegalWrite
<1>6. QED
    BY <1>2, <1>3, <1>4, <1>5 DEF Next, Tick, vars

\* The empty table.
LEMMA InitSerial == Init => SerialInv
<1> SUFFICES ASSUME Init PROVE SerialInv
    OBVIOUS
<1>1. \A p \in Actors : AsLoaded(task[p])
    BY IdleIsAsLoaded DEF Init
<1>2. OneActivePerConversation
    BY DEF Init, OneActivePerConversation, Booked
<1>3. QED
    BY <1>1, <1>2, InitIInv DEF SerialInv

\* One operation at a time, a conversation has one active appointment at most.
THEOREM OneActiveAtATime ==
    ASSUME OneHandler
    PROVE  Spec => []OneActivePerConversation
<1>1. SerialInv => OneActivePerConversation
    BY DEF SerialInv
<1>2. SerialInv /\ [Next]_vars => SerialInv'
    BY StepKeepsSerial
<1>3. QED
    BY <1>1, <1>2, InitSerial, PTL DEF Spec

\* One operation at a time, the table implements the state machine.
THEOREM ImplementsLifecycleAtATime ==
    ASSUME OneHandler
    PROVE  Spec => ImplementsLifecycle
<1>1. Init => Lifecycle!Init
    BY DEF Init, NoRow, Lifecycle!Init
<1>2. SerialInv /\ [Next]_vars => SerialInv' /\ [Lifecycle!Next]_(Lifecycle!lifecycleVars)
  <2> SUFFICES ASSUME SerialInv, [Next]_vars
               PROVE  SerialInv' /\ [Lifecycle!Next]_(Lifecycle!lifecycleVars)
    OBVIOUS
  <2>1. SerialInv' /\ LegalWrite
    BY StepKeepsSerial
  <2>2. QED
    BY <2>1, LegalWriteIsLegal DEF SerialInv
<1>3. QED
    BY <1>1, <1>2, InitSerial, PTL DEF Spec, ImplementsLifecycle, Lifecycle!Spec
===============================================================================

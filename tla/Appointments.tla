----------------------------- MODULE Appointments -----------------------------
(***************************************************************************)
(* The appointments table and everyone who writes it: the chat turn         *)
(* (BookingOrchestrator and BookingService), the visitor's manage link      *)
(* (AppointmentManageService), the staff dashboard                          *)
(* (updateAppointmentLifecycle) and the cron job (NoShowSweepService).      *)
(*                                                                         *)
(* No writer holds a lock.  Each one loads a row, checks the COPY it loaded *)
(* (assertTransition, isLive, isNoShowOverdue), and later issues an UPDATE   *)
(* that names only the row's id.  So an operation is two or three steps     *)
(* here - load, decide, write - and between them any other writer may run.   *)
(* What the database itself enforces on the write is the exclusion          *)
(* constraint of migration 0010, and nothing else.                          *)
(***************************************************************************)
EXTENDS Integers, FiniteSets

CONSTANTS
    Clerks,     \* request handlers: chat turns, manage-link and staff requests
    Sweepers,   \* cron invocations of the no-show sweep
    Convs,      \* conversations
    Staff,      \* staff members
    Tenants,    \* businesses
    TenantOf,   \* [Convs \cup Staff -> Tenants]
    Slots,      \* the slots availability may offer: [staff, start, end]
    NoSlot, NoConv,
    OptedIn,    \* businesses with autoNoShowEnabled
    Grace,      \* [Tenants -> Nat], noShowGraceMinutes
    MinNotice,  \* minNoticeMinutes
    BatchSize,  \* rows one sweep loads
    CanCrash,   \* whether a request may be killed between its steps
    MaxRows,    \* bound: rows ever inserted
    MaxTime     \* bound: last clock value

Actors == Clerks \cup Sweepers

ASSUME SlotsAssumption ==
    /\ Slots \subseteq [staff : Staff, start : Nat, end : Nat]
    /\ \A s \in Slots : s.start < s.end
    /\ NoSlot \notin Slots

ASSUME ParametersAssumption ==
    /\ TenantOf \in [Convs \cup Staff -> Tenants]
    /\ OptedIn \subseteq Tenants
    /\ Grace \in [Tenants -> Nat]
    /\ {MinNotice, MaxRows, MaxTime} \subseteq Nat
    /\ BatchSize \in Nat \ {0}
    /\ CanCrash \in BOOLEAN

VARIABLES
    rows,   \* the table: [Ids -> Row \cup {NoRow}], ids given in creation order
    task,   \* what each actor is in the middle of
    clock   \* wall clock

vars == <<rows, task, clock>>

Ids == 1 .. MaxRows

\* The promise of the state machine, with the table read as its variables.
Lifecycle == INSTANCE AppointmentLifecycle
    WITH Appts <- Ids,
         status <- [id \in Ids |-> rows[id].status],
         slot <- [id \in Ids |-> rows[id].slot]

Status == Lifecycle!Status

Row == [status : Status, slot : Slots, conv : Convs]

\* An id not used yet.
NoRow == [status |-> "none", slot |-> NoSlot, conv |-> NoConv]

Booked == {id \in Ids : rows[id] # NoRow}

-------------------------------------------------------------------------------
(* Tasks: the state an operation keeps in memory between its awaits.        *)

Idle == [pc |-> "idle"]

\* A row as some handler loaded it.
Copy == [id : Ids, row : Row]

NoCopy == [id |-> 0]

Tasks ==
    {Idle}
    \cup [pc : {"turn"}, conv : Convs, existing : Copy \cup {NoCopy}, now : Nat]
    \cup [pc : {"move_link"}, copy : Copy]
    \cup [pc : {"insert"}, conv : Convs, slot : Slots]
    \cup [pc : {"times"}, copy : Copy, slot : Slots]
    \cup [pc : {"status"}, copy : Copy, to : Status, by : {"visitor", "staff"}]
    \cup [pc : {"sweep"}, batch : SUBSET Copy]

TypeOK ==
    /\ rows \in [Ids -> Row \cup {NoRow}]
    /\ task \in [Actors -> Tasks]
    /\ clock \in Nat

\* The copies an operation holds in memory.
CopiesOf(t) ==
    {c \in Copy :
        \/ t.pc = "turn" /\ t.existing = c
        \/ t.pc \in {"move_link", "times", "status"} /\ t.copy = c
        \/ t.pc = "sweep" /\ c \in t.batch}

\* Every copy is of a row that is (still) in the table: rows are never deleted,
\* so an UPDATE by id always finds its row.
CopiesAreOfRows == \A p \in Actors : \A c \in CopiesOf(task[p]) : c.id \in Booked

IInv == TypeOK /\ CopiesAreOfRows

Init ==
    /\ rows = [id \in Ids |-> NoRow]
    /\ task = [p \in Actors |-> Idle]
    /\ clock = 0

-------------------------------------------------------------------------------
(* The table and its constraint.                                            *)

Overlap(s, t) == s.staff = t.staff /\ s.start < t.end /\ t.start < s.end

\* Statuses the partial exclusion constraint covers.
HoldsSlot == Lifecycle!Active

\* Mutant: the constraint as it stood before migration 0010.
ExcludedOld(id, st, s) ==
    /\ st \in {"pending", "confirmed"}
    /\ \E j \in Booked :
          /\ j # id
          /\ rows[j].status \in {"pending", "confirmed"}
          /\ Overlap(rows[j].slot, s)

\* The exclusion constraint, for row id about to hold slot s with status st.
Excluded(id, st, s) ==
    /\ st \in HoldsSlot
    /\ \E j \in Booked :
          /\ j # id
          /\ rows[j].status \in HoldsSlot
          /\ Overlap(rows[j].slot, s)

\* listInternalBusy: somebody holds time that slot s needs.
Busy(s) == \E j \in Booked : rows[j].status \in HoldsSlot /\ Overlap(rows[j].slot, s)

\* getAvailability for one business, at time now.
OpenSlots(tenant, now) ==
    {s \in Slots : TenantOf[s.staff] = tenant /\ s.start >= now + MinNotice /\ ~ Busy(s)}

CopyOf(id) == [id |-> id, row |-> rows[id]]

\* Mutant: the lookup misses the visitors who have arrived.
ExistingLiveOnly(conv) ==
    LET mine == {i \in Booked : rows[i].conv = conv /\ rows[i].status \in Lifecycle!Live}
    IN  IF mine = {} THEN {NoCopy}
        ELSE {CopyOf(i) : i \in {k \in mine : \A j \in mine : j <= k}}

\* findLiveAppointmentByConversation: the newest active row, if there is one.
ExistingOf(conv) ==
    LET mine == {i \in Booked : rows[i].conv = conv /\ rows[i].status \in HoldsSlot}
    IN  IF mine = {} THEN {NoCopy}
        ELSE {CopyOf(i) : i \in {k \in mine : \A j \in mine : j <= k}}

Become(p, t) == task' = [task EXCEPT ![p] = t]

-------------------------------------------------------------------------------
(* A chat turn: BookingOrchestrator.prepareTurn.                            *)

\* The turn loads the conversation's appointment and takes its "now".
TurnLoad(p, conv) ==
    /\ task[p] = Idle
    /\ \E c \in ExistingOf(conv) :
          Become(p, [pc |-> "turn", conv |-> conv, existing |-> c, now |-> clock])
    /\ UNCHANGED <<rows, clock>>

\* It ends with nothing to do, or with a refusal: guidance, nothing_to_cancel,
\* unchanged, or a reschedule of a row that is active but no longer live.
TurnEndsWithoutEffect(p) ==
    /\ task[p].pc = "turn"
    /\ Become(p, Idle)
    /\ UNCHANGED <<rows, clock>>

\* booking.cancel on the copy of the existing row.
TurnCancels(p) ==
    /\ task[p].pc = "turn"
    /\ task[p].existing # NoCopy
    /\ LET c == task[p].existing IN
       /\ Lifecycle!CanTransition(c.row.status, "cancelled")
       /\ Become(p, [pc |-> "status", copy |-> c, to |-> "cancelled", by |-> "visitor"])
    /\ UNCHANGED <<rows, clock>>

\* Mutant: any existing appointment may be moved.
TurnMovesAny(p) ==
    /\ task[p].pc = "turn"
    /\ task[p].existing # NoCopy
    /\ \E s \in OpenSlots(TenantOf[task[p].conv], task[p].now) :
          Become(p, [pc |-> "times", copy |-> task[p].existing, slot |-> s])
    /\ UNCHANGED <<rows, clock>>

\* booking.reschedule: the agreed slot is one that is open now.
TurnReschedules(p) ==
    /\ task[p].pc = "turn"
    /\ task[p].existing # NoCopy
    /\ LET c == task[p].existing IN
       /\ c.row.status \in Lifecycle!Live
       /\ \E s \in OpenSlots(TenantOf[task[p].conv], task[p].now) :
             Become(p, [pc |-> "times", copy |-> c, slot |-> s])
    /\ UNCHANGED <<rows, clock>>

\* booking.book: no appointment was found, and the draft is complete.
TurnBooks(p) ==
    /\ task[p].pc = "turn"
    /\ task[p].existing = NoCopy
    /\ Booked # Ids
    /\ \E s \in OpenSlots(TenantOf[task[p].conv], task[p].now) :
          Become(p, [pc |-> "insert", conv |-> task[p].conv, slot |-> s])
    /\ UNCHANGED <<rows, clock>>

-------------------------------------------------------------------------------
(* The visitor's manage link and the staff dashboard.                       *)

\* cancel, check_in and running_late: load by token, assertTransition.
LinkStatus(p, id) ==
    /\ task[p] = Idle
    /\ id \in Booked
    /\ \E to \in {"cancelled", "checked_in", "running_late"} :
          /\ Lifecycle!CanTransition(rows[id].status, to)
          /\ Become(p, [pc |-> "status", copy |-> CopyOf(id), to |-> to, by |-> "visitor"])
    /\ UNCHANGED <<rows, clock>>

\* reschedule: load by token, then re-derive the slot from availability.
LinkRescheduleLoad(p, id) ==
    /\ task[p] = Idle
    /\ id \in Booked
    /\ Become(p, [pc |-> "move_link", copy |-> CopyOf(id)])
    /\ UNCHANGED <<rows, clock>>

LinkReschedulePick(p) ==
    /\ task[p].pc = "move_link"
    /\ LET c == task[p].copy IN
       \/ /\ c.row.status \in Lifecycle!Live
          /\ \E s \in OpenSlots(TenantOf[c.row.slot.staff], clock) :
                Become(p, [pc |-> "times", copy |-> c, slot |-> s])
       \/ Become(p, Idle)
    /\ UNCHANGED <<rows, clock>>

\* updateAppointmentLifecycle: any status of its schema, if legal for the copy.
StaffStatus(p, id) ==
    /\ task[p] = Idle
    /\ id \in Booked
    /\ \E to \in Status \ {"pending", "confirmed"} :
          /\ Lifecycle!CanTransition(rows[id].status, to)
          /\ Become(p, [pc |-> "status", copy |-> CopyOf(id), to |-> to, by |-> "staff"])
    /\ UNCHANGED <<rows, clock>>

-------------------------------------------------------------------------------
(* The writes.                                                              *)

\* insertAppointment; SlotTakenError ends the turn with alternatives.  (At the
\* bound on rows an insert fails as any other database error would make it.)
Insert(p) ==
    /\ task[p].pc = "insert"
    /\ \/ /\ Excluded(0, "confirmed", task[p].slot) \/ Booked = Ids
          /\ UNCHANGED rows
       \/ /\ ~ Excluded(0, "confirmed", task[p].slot)
          /\ \E id \in Ids \ Booked :
                /\ \A j \in Ids \ Booked : id <= j
                /\ rows' = [rows EXCEPT ![id] = [status |-> "confirmed",
                                                 slot |-> task[p].slot,
                                                 conv |-> task[p].conv]]
    /\ Become(p, Idle)
    /\ UNCHANGED clock

\* updateAppointmentTimes: the UPDATE has no predicate on the status.
UpdateTimes(p) ==
    /\ task[p].pc = "times"
    /\ LET id == task[p].copy.id IN
       rows' = IF Excluded(id, rows[id].status, task[p].slot) THEN rows
               ELSE [rows EXCEPT ![id].slot = task[p].slot]
    /\ Become(p, Idle)
    /\ UNCHANGED clock

\* Mutant: a no-show is written as a status the table does not have.
StatusWrittenMissed(id, to) ==
    IF Excluded(id, to, rows[id].slot) THEN rows
    ELSE [rows EXCEPT ![id].status = IF to = "no_show" THEN "missed" ELSE to]

\* The UPDATE of updateAppointmentStatus: no predicate on the old status, and
\* the constraint applies when the new status holds a slot again.
StatusWritten(id, to) ==
    IF Excluded(id, to, rows[id].slot) THEN rows ELSE [rows EXCEPT ![id].status = to]

UpdateStatus(p) ==
    /\ task[p].pc = "status"
    /\ rows' = StatusWritten(task[p].copy.id, task[p].to)
    /\ Become(p, Idle)
    /\ UNCHANGED clock

\* The request is killed before its write.
Crash(p) ==
    /\ CanCrash
    /\ task[p] # Idle
    /\ Become(p, Idle)
    /\ UNCHANGED <<rows, clock>>

-------------------------------------------------------------------------------
(* The no-show sweep.                                                       *)

\* isNoShowOverdue: opted in, nobody arrived, and the grace after the end is over.
NoShowOverdue(row, now) ==
    LET tenant == TenantOf[row.slot.staff] IN
    /\ row.status \in Lifecycle!Sweepable
    /\ tenant \in OptedIn
    /\ now >= row.slot.end + Grace[tenant]

\* Mutant: a visitor running late is never looked at again.
CandidatesOnTime(now) ==
    {i \in Booked : rows[i].status \in {"pending", "confirmed"} /\ rows[i].slot.end < now}

\* listOverdueLiveAppointments: every tenant's rows, the earliest ends first.
Candidates(now) ==
    {i \in Booked : rows[i].status \in Lifecycle!Sweepable /\ rows[i].slot.end < now}

Batches(now) ==
    LET cands == Candidates(now) IN
    {B \in SUBSET cands :
        /\ Cardinality(B) = IF Cardinality(cands) < BatchSize THEN Cardinality(cands) ELSE BatchSize
        /\ \A i \in B, j \in cands \ B : rows[i].slot.end <= rows[j].slot.end}

\* The rows one sweep will close, as it loaded them.
SweepScan(p) ==
    /\ task[p] = Idle
    /\ \E B \in Batches(clock) :
          LET due == {i \in B : NoShowOverdue(rows[i], clock)} IN
          /\ due # {}
          /\ Become(p, [pc |-> "sweep", batch |-> {CopyOf(i) : i \in due}])
    /\ UNCHANGED <<rows, clock>>

\* lifecycle.transition(copy, "no_show") on the next row, oldest end first.
\* The assertion is on the copy, so it cannot fail for a row of the batch.
SweepWrite(p) ==
    /\ task[p].pc = "sweep"
    /\ \E c \in task[p].batch :
          /\ \A d \in task[p].batch : c.row.slot.end <= d.row.slot.end
          /\ Lifecycle!CanTransition(c.row.status, "no_show")
          /\ rows' = StatusWritten(c.id, "no_show")
          /\ LET rest == task[p].batch \ {c} IN
             Become(p, IF rest = {} THEN Idle ELSE [pc |-> "sweep", batch |-> rest])
    /\ UNCHANGED clock

Tick ==
    /\ clock < MaxTime
    /\ clock' = clock + 1
    /\ UNCHANGED <<rows, task>>

-------------------------------------------------------------------------------
ClerkStep(p) ==
    \/ \E conv \in Convs : TurnLoad(p, conv)
    \/ TurnEndsWithoutEffect(p)
    \/ TurnCancels(p)
    \/ TurnReschedules(p)
    \/ TurnBooks(p)
    \/ \E id \in Ids : LinkStatus(p, id) \/ LinkRescheduleLoad(p, id) \/ StaffStatus(p, id)
    \/ LinkReschedulePick(p)
    \/ Insert(p)
    \/ UpdateTimes(p)
    \/ UpdateStatus(p)

Next ==
    \/ \E p \in Clerks : ClerkStep(p)
    \/ \E p \in Sweepers : SweepScan(p) \/ SweepWrite(p)
    \/ \E p \in Actors : Crash(p)
    \/ Tick

Spec == Init /\ [][Next]_vars

\* Time passes, and the cron keeps calling the sweep.  An invocation may be
\* killed (Crash), but not every one of them, hence strong fairness.
Fairness ==
    /\ WF_vars(Tick)
    /\ \A p \in Sweepers : SF_vars(SweepScan(p)) /\ SF_vars(SweepWrite(p))

FairSpec == Spec /\ Fairness

-------------------------------------------------------------------------------
(* Properties.                                                              *)

\* Two active appointments of one staff member never overlap, whatever the
\* interleaving of bookings, moves and stale status writes: the guarantee the
\* exclusion constraint gives BookingService.
NoDoubleBooking ==
    \A i, j \in Booked :
        i # j /\ rows[i].status \in HoldsSlot /\ rows[j].status \in HoldsSlot
            => ~ Overlap(rows[i].slot, rows[j].slot)

\* Every history of the table is one the state machine allows: the checks made
\* on loaded copies amount to checks on the rows.  It holds when operations do
\* not overlap in time.
ImplementsLifecycle == Lifecycle!Spec

\* A conversation that already has an active appointment moves it and never
\* books a second one (prepareTurn's branch on "existing").
OneActivePerConversation ==
    \A i, j \in Booked :
        rows[i].status \in HoldsSlot /\ rows[j].status \in HoldsSlot
            /\ rows[i].conv = rows[j].conv => i = j

\* Rows that are over, past their grace, and not closed by anybody.
Overdue(now) == {i \in Booked : NoShowOverdue(rows[i], now) /\ rows[i].slot.end < now}

\* Rows that the sweep loads and never closes: their business has not opted in.
NeverSwept(now) == {i \in Candidates(now) : TenantOf[rows[i].slot.staff] \notin OptedIn}

\* Again and again no row of a business that opted in is left overdue: the sweep
\* or somebody else has closed them all, unless rows that are never swept fill
\* the whole batch.  There is one batch for all businesses, the oldest rows first
\* (ROADMAP.md item 9); as long as they are fewer than a batch, they starve nobody.
OverdueIsClosed ==
    []<>(Overdue(clock) = {} \/ Cardinality(NeverSwept(clock)) >= BatchSize)
===============================================================================

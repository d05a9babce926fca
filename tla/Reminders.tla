------------------------------ MODULE Reminders ------------------------------
(***************************************************************************)
(* The appointment_reminders queue: the booking requests that fill and      *)
(* clear it (BookingService, AppointmentLifecycleService) and the cron      *)
(* workers that drain it (ReminderService.processDue), over the claim of    *)
(* migration 0008 (claim_due_reminders).                                    *)
(*                                                                         *)
(* A claim marks the row "failed" before anything is sent.  So a worker     *)
(* that dies loses the reminder rather than sending it twice, and a row in  *)
(* "failed" is out of reach of cancelReminders, which only looks at         *)
(* "scheduled" ones.                                                        *)
(***************************************************************************)
EXTENDS Integers, FiniteSets

CONSTANTS
    Appts,        \* appointments
    Requests,     \* booking, rescheduling, cancelling and staff requests
    Workers,      \* invocations of the reminders cron
    Leads,        \* reminder_lead_minutes, in clock units
    MAX_ATTEMPTS,
    Backoff,      \* RETRY_BACKOFF_MINUTES, in clock units
    BatchSize,
    MaxReminders, \* bound: rows ever inserted
    MaxTime,      \* bound: last clock value, and last start of an appointment
    CanCrash      \* whether requests and workers may be killed, and writes fail

ASSUME ReminderAssumption ==
    /\ Leads \subseteq Nat
    /\ {MAX_ATTEMPTS, BatchSize} \subseteq Nat \ {0}
    /\ {Backoff, MaxReminders, MaxTime} \subseteq Nat
    /\ CanCrash \in BOOLEAN

VARIABLES
    appt,      \* [Appts -> what the reminder side sees of the row]
    queue,     \* [Ids -> row of appointment_reminders], "none" before insertion
    request,   \* [Requests -> the steps a request still has to do]
    worker,    \* [Workers -> the batch an invocation still has to do]
    clock,
    delivered, \* history: [Ids -> messages whose sending was confirmed]
    lost,      \* history: [Ids -> messages sent whose confirmation was lost]
    orphaned,  \* history: rows whose outcome was never written: the worker was
               \* killed, or its write failed and was only logged
    torn       \* history: appointments whose reminders some request could not put
               \* right: its clear failed, it was killed before it, or another
               \* request on the appointment ran at the same time

history == <<delivered, lost, orphaned, torn>>

vars == <<appt, queue, request, worker, clock, history>>

Ids == 1 .. MaxReminders
Times == 0 .. MaxTime

\* isLive, arrived (checked_in, in_progress), or a terminal status.
Phase == {"none", "live", "arrived", "closed"}

Reminder == [status : {"none", "scheduled", "sent", "failed", "cancelled"},
             appt : Appts, sendAt : Nat, attempts : Nat,
             lastError : {"none", "delivery", "undeliverable"}]

NoRequest == [pc |-> "idle"]
RequestState == {NoRequest} \cup
    [pc : {"clear", "schedule"}, appt : Appts, start : Times, now : Times, reschedule : BOOLEAN]

NoBatch == [pc |-> "idle"]
WorkerState == {NoBatch} \cup
    [pc : {"load", "send", "mark"}, batch : SUBSET Ids, cur : Ids, now : Times]

TypeOK ==
    /\ appt \in [Appts -> [phase : Phase, start : Times]]
    /\ queue \in [Ids -> Reminder]
    /\ request \in [Requests -> RequestState]
    /\ worker \in [Workers -> WorkerState]
    /\ clock \in Times
    /\ {delivered, lost} \subseteq [Ids -> Nat]
    /\ orphaned \subseteq Ids
    /\ torn \subseteq Appts

Init ==
    /\ appt = [a \in Appts |-> [phase |-> "none", start |-> 0]]
    /\ \E a \in Appts :
          queue = [r \in Ids |-> [status |-> "none", appt |-> a, sendAt |-> 0,
                                  attempts |-> 0, lastError |-> "none"]]
    /\ request = [q \in Requests |-> NoRequest]
    /\ worker = [w \in Workers |-> NoBatch]
    /\ clock = 0
    /\ delivered = [r \in Ids |-> 0]
    /\ lost = [r \in Ids |-> 0]
    /\ orphaned = {}
    /\ torn = {}

-------------------------------------------------------------------------------
(* Requests: the row write, then cancelReminders, then scheduleReminders.   *)

Go(q, pc, a, start, now, reschedule) ==
    request' = [request EXCEPT ![q] = [pc |-> pc, appt |-> a, start |-> start,
                                       now |-> now, reschedule |-> reschedule]]

\* Another request is in the middle of the appointment.
Overlapped(q, a) == \E p \in Requests \ {q} : request[p] # NoRequest /\ request[p].appt = a

\* The appointment is still as the request has written it.
Current(q) ==
    LET a == request[q].appt IN
    /\ appt[a].start = request[q].start
    /\ request[q].reschedule => appt[a].phase # "closed"

\* The request begins on the appointment: nothing keeps two of them apart.
Begins(q, a) ==
    /\ torn' = IF Overlapped(q, a) THEN torn \cup {a} ELSE torn
    /\ UNCHANGED <<queue, worker, clock, delivered, lost, orphaned>>

\* book: the insert, after which the reminders are still to be scheduled.
Book(q, a) ==
    /\ request[q] = NoRequest
    /\ appt[a].phase = "none"
    /\ \E start \in Times :
          /\ start > clock
          /\ appt' = [appt EXCEPT ![a] = [phase |-> "live", start |-> start]]
          /\ Go(q, "schedule", a, start, clock, FALSE)
    /\ Begins(q, a)

\* Mutant: the old reminders are not cleared first.
RescheduleKeepsOld(q, a) ==
    /\ request[q] = NoRequest
    /\ appt[a].phase = "live"
    /\ \E start \in Times :
          /\ start > clock
          /\ start # appt[a].start
          /\ appt' = [appt EXCEPT ![a].start = start]
          /\ Go(q, "schedule", a, start, clock, TRUE)
    /\ Begins(q, a)

\* reschedule: the new time, then clear, then schedule.
Reschedule(q, a) ==
    /\ request[q] = NoRequest
    /\ appt[a].phase = "live"
    /\ \E start \in Times :
          /\ start > clock
          /\ start # appt[a].start
          /\ appt' = [appt EXCEPT ![a].start = start]
          /\ Go(q, "clear", a, start, clock, TRUE)
    /\ Begins(q, a)

\* cancel, or a transition to a terminal status: the write, then clear.
Close(q, a) ==
    /\ request[q] = NoRequest
    /\ appt[a].phase \in {"live", "arrived"}
    /\ appt' = [appt EXCEPT ![a].phase = "closed"]
    /\ Go(q, "clear", a, appt[a].start, clock, FALSE)
    /\ Begins(q, a)

\* A transition to checked_in or in_progress leaves the queue alone.
Arrive(a) ==
    /\ appt[a].phase = "live"
    /\ appt' = [appt EXCEPT ![a].phase = "arrived"]
    /\ UNCHANGED <<queue, request, worker, clock, history>>

\* cancelReminders.  A failed UPDATE is only logged: the request goes on.
ClearReminders(q) ==
    /\ request[q].pc = "clear"
    /\ LET a == request[q].appt IN
       \/ /\ queue' = [r \in Ids |->
                IF queue[r].appt = a /\ queue[r].status = "scheduled"
                THEN [queue[r] EXCEPT !.status = "cancelled"] ELSE queue[r]]
          /\ torn' = IF Current(q) /\ ~ Overlapped(q, a) THEN torn \ {a} ELSE torn
       \/ /\ CanCrash
          /\ torn' = torn \cup {a}
          /\ UNCHANGED queue
    /\ request' = [request EXCEPT ![q] =
          IF request[q].reschedule THEN [request[q] EXCEPT !.pc = "schedule"] ELSE NoRequest]
    /\ UNCHANGED <<appt, worker, clock, delivered, lost, orphaned>>

Unused == {r \in Ids : queue[r].status = "none"}

\* scheduleReminders: one row per lead that is not already past, for the start
\* the request wrote.  A failed insert is logged and dropped, and so is one that
\* meets the bound on rows.
ScheduleReminders(q) ==
    /\ request[q].pc = "schedule"
    /\ LET leads == {l \in Leads : request[q].start - l > request[q].now} IN
       \/ /\ CanCrash \/ Cardinality(leads) > Cardinality(Unused)
          /\ UNCHANGED queue
       \/ \E ids \in SUBSET Unused :
             /\ Cardinality(ids) = Cardinality(leads)
             /\ \A i \in ids, j \in Unused \ ids : i < j
             /\ LET rank(i) == Cardinality({j \in ids : j < i})
                    lead(i) == CHOOSE l \in leads : Cardinality({m \in leads : m < l}) = rank(i)
                IN  queue' = [r \in Ids |->
                       IF r \in ids
                       THEN [status |-> "scheduled", appt |-> request[q].appt,
                             sendAt |-> request[q].start - lead(r),
                             attempts |-> 0, lastError |-> "none"]
                       ELSE queue[r]]
    /\ request' = [request EXCEPT ![q] = NoRequest]
    /\ UNCHANGED <<appt, worker, clock, history>>

-------------------------------------------------------------------------------
(* The cron worker.                                                         *)

\* Mutant: a requeued row is not picked up again.
DueFirstAttempts(now) ==
    {r \in Ids : queue[r].status = "scheduled" /\ queue[r].sendAt <= now /\ queue[r].attempts = 0}

Due(now) == {r \in Ids : queue[r].status = "scheduled" /\ queue[r].sendAt <= now}

\* Mutant: the claim counts the attempt but does not take the row away.
ClaimedOptimistically(row) == [row EXCEPT !.attempts = @ + 1]

Claimed(row) == [row EXCEPT !.status = "failed", !.attempts = @ + 1]

\* claim_due_reminders: the oldest due rows, marked failed, attempts bumped.
Claim(w) ==
    /\ worker[w] = NoBatch
    /\ Due(clock) # {}
    /\ \E B \in SUBSET Due(clock) :
          /\ B # {}
          /\ Cardinality(B) <= BatchSize
          /\ Cardinality(B) < BatchSize => B = Due(clock)
          /\ \A i \in B, j \in Due(clock) \ B : queue[i].sendAt <= queue[j].sendAt
          /\ queue' = [r \in Ids |-> IF r \in B THEN Claimed(queue[r]) ELSE queue[r]]
          /\ \E r \in B :
                worker' = [worker EXCEPT ![w] =
                    [pc |-> "load", batch |-> B \ {r}, cur |-> r, now |-> clock]]
    /\ UNCHANGED <<appt, request, clock, history>>

\* The loop goes on with another claimed row, or the invocation ends.
Advance(w) ==
    \/ /\ worker[w].batch = {}
       /\ worker' = [worker EXCEPT ![w] = NoBatch]
    \/ \E r \in worker[w].batch :
          worker' = [worker EXCEPT ![w] = [worker[w] EXCEPT
                        !.pc = "load", !.batch = @ \ {r}, !.cur = r]]

\* The repository logs a failed UPDATE and goes on, leaving the claim as it is.
WriteLost(r) ==
    /\ CanCrash
    /\ orphaned' = orphaned \cup {r}
    /\ UNCHANGED queue

\* Row r is written, or the write is lost.
Written(r, row) ==
    \/ queue' = [queue EXCEPT ![r] = row] /\ UNCHANGED orphaned
    \/ WriteLost(r)

\* The appointment is loaded: nothing to remind of, no destination, or go on.
LoadAppointment(w) ==
    /\ worker[w].pc = "load"
    /\ LET r == worker[w].cur
           a == appt[queue[r].appt]
       IN  \/ /\ a.phase # "live" \/ a.start <= worker[w].now
              /\ Written(r, [queue[r] EXCEPT !.status = "sent"])
              /\ Advance(w)
           \/ /\ a.phase = "live" /\ a.start > worker[w].now
              /\ Written(r, [queue[r] EXCEPT !.lastError = "undeliverable"])
              /\ Advance(w)
           \/ /\ a.phase = "live" /\ a.start > worker[w].now
              /\ worker' = [worker EXCEPT ![w].pc = "send"]
              /\ UNCHANGED <<queue, orphaned>>
    /\ UNCHANGED <<appt, request, clock, delivered, lost, torn>>

\* messaging.send succeeds; markReminderSent is a later round trip.
Deliver(w) ==
    /\ worker[w].pc = "send"
    /\ delivered' = [delivered EXCEPT ![worker[w].cur] = @ + 1]
    /\ worker' = [worker EXCEPT ![w].pc = "mark"]
    /\ UNCHANGED <<appt, queue, request, clock, lost, orphaned, torn>>

MarkSent(w) ==
    /\ worker[w].pc = "mark"
    /\ Written(worker[w].cur, [queue[worker[w].cur] EXCEPT !.status = "sent"])
    /\ Advance(w)
    /\ UNCHANGED <<appt, request, clock, delivered, lost, torn>>

\* When the next attempt is due; at the bound on time, at the last moment of it.
NextTry(now) == IF now + Backoff < MaxTime THEN now + Backoff ELSE MaxTime

\* Mutant: gives up one attempt early.
RequeuedOnceLess(row, now) ==
    IF row.attempts < MAX_ATTEMPTS - 1
    THEN [row EXCEPT !.status = "scheduled", !.sendAt = NextTry(now), !.lastError = "delivery"]
    ELSE [row EXCEPT !.lastError = "delivery"]

\* What follows a failed delivery: back to the queue while attempts remain.
Requeued(row, now) ==
    IF row.attempts < MAX_ATTEMPTS
    THEN [row EXCEPT !.status = "scheduled", !.sendAt = NextTry(now), !.lastError = "delivery"]
    ELSE [row EXCEPT !.lastError = "delivery"]

\* messaging.send throws.  The message may have gone out all the same: a fetch
\* that breaks after the provider accepted it throws too.
DeliveryFails(w) ==
    /\ worker[w].pc = "send"
    /\ LET r == worker[w].cur IN
       /\ Written(r, Requeued(queue[r], worker[w].now))
       /\ \E sent \in {0, 1} : lost' = [lost EXCEPT ![r] = @ + sent]
    /\ Advance(w)
    /\ UNCHANGED <<appt, request, clock, delivered, torn>>

-------------------------------------------------------------------------------
\* Killed, or a database read threw: the rest of the batch stays as claimed.
CrashWorker(w) ==
    /\ CanCrash
    /\ worker[w] # NoBatch
    /\ orphaned' = orphaned \cup worker[w].batch \cup {worker[w].cur}
    /\ worker' = [worker EXCEPT ![w] = NoBatch]
    /\ UNCHANGED <<appt, queue, request, clock, delivered, lost, torn>>

CrashRequest(q) ==
    /\ CanCrash
    /\ request[q] # NoRequest
    /\ request' = [request EXCEPT ![q] = NoRequest]
    /\ torn' = IF request[q].pc = "clear" THEN torn \cup {request[q].appt} ELSE torn
    /\ UNCHANGED <<appt, queue, worker, clock, delivered, lost, orphaned>>

Tick ==
    /\ clock < MaxTime
    /\ clock' = clock + 1
    /\ UNCHANGED <<appt, queue, request, worker, history>>

WorkerStep(w) ==
    Claim(w) \/ LoadAppointment(w) \/ Deliver(w) \/ MarkSent(w) \/ DeliveryFails(w)

Next ==
    \/ \E q \in Requests :
          \/ \E a \in Appts : Book(q, a) \/ Reschedule(q, a) \/ Close(q, a)
          \/ ClearReminders(q)
          \/ ScheduleReminders(q)
          \/ CrashRequest(q)
    \/ \E a \in Appts : Arrive(a)
    \/ \E w \in Workers : WorkerStep(w) \/ CrashWorker(w)
    \/ Tick

Spec == Init /\ [][Next]_vars

\* The cron keeps invoking the worker; an invocation that is not killed ends.
FairSpec == Spec /\ WF_vars(Tick) /\ \A w \in Workers : WF_vars(WorkerStep(w))

-------------------------------------------------------------------------------
(* Properties.                                                              *)

\* "a crash mid-delivery can never double-send" (reminder-service.ts:19), and
\* neither can overlapping cron runs, lost writes or a reschedule in between: a
\* row whose sending was confirmed is never sent again, and the sendings whose
\* confirmation was lost stay within MAX_ATTEMPTS.
NeverDoubleSent ==
    \A r \in Ids : delivered[r] <= 1 /\ delivered[r] + lost[r] <= MAX_ATTEMPTS

\* Only a killed worker or a failed write loses a reminder: any other row left
\* "failed" with attempts to spare is being worked on or has no destination.
OnlyCrashesLose ==
    \A r \in Ids :
        queue[r].status = "failed" /\ queue[r].attempts < MAX_ATTEMPTS =>
            \/ \E w \in Workers : worker[w] # NoBatch /\ r \in worker[w].batch \cup {worker[w].cur}
            \/ queue[r].lastError = "undeliverable"
            \/ r \in orphaned

\* "Rescheduling cancels and re-enqueues" (docs/SCHEDULING.md:162), cancelling
\* clears, in statements of their own while workers claim in between.  A reminder
\* that waits for its first attempt when no request is in the middle of its
\* appointment is of one that is still on, at a lead before its present start,
\* unless a clear was missed: it failed, the request was killed before it, or two
\* requests on the appointment overlapped.  The next clear that succeeds alone
\* repairs even that, and a claim in between brings no cleared row back.
RemindersFollowStart ==
    \A r \in Ids :
        LET a == queue[r].appt IN
        /\ queue[r].status = "scheduled" /\ queue[r].attempts = 0
        /\ a \notin torn
        /\ \A q \in Requests : request[q] = NoRequest \/ request[q].appt # a
        => /\ appt[a].phase \in {"live", "arrived"}
           /\ \E l \in Leads : queue[r].sendAt = appt[a].start - l

\* Retrying ends, whatever fails and whoever is killed: from some point on no row
\* is waiting to be sent, however the requeueing and the claims follow each other.
QueueDrains == <>[](\A r \in Ids : queue[r].status # "scheduled")
===============================================================================

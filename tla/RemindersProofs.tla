---------------------------- MODULE RemindersProofs ----------------------------
(***************************************************************************)
(* For any number of cron runs, requests and rows, whatever the batch size,  *)
(* the backoff and the number of attempts, and with crashes at any step:     *)
(* the queue is well typed, a confirmed reminder is not sent again, only     *)
(* crashes and failed writes lose one, and the reminders follow the start of *)
(* an appointment except where a clear was missed.                          *)
(***************************************************************************)
EXTENDS Reminders, FiniteSetTheorems, TLAPS

-------------------------------------------------------------------------------
(* The leads and the rows of one insert.                                    *)

\* Of the members of a finite set of naturals, some one has exactly k below it.
LEMMA SomeOneOfRank ==
    ASSUME NEW S \in SUBSET Nat, IsFiniteSet(S), NEW k \in Nat, k < Cardinality(S)
    PROVE  \E l \in S : Cardinality({m \in S : m < l}) = k
<1> DEFINE Below(l) == {m \in S : m < l}
           n == Cardinality(S)
           f == [l \in S |-> Cardinality(Below(l))]
<1>1. n \in Nat
    BY FS_CardinalityType
<1>2. ASSUME NEW l \in S
      PROVE  IsFiniteSet(Below(l)) /\ Cardinality(Below(l)) \in 0 .. n - 1
  <2>1. Below(l) \in SUBSET S /\ l \notin Below(l)
      OBVIOUS
  <2>2. IsFiniteSet(Below(l)) /\ Cardinality(Below(l)) <= n
      BY <2>1, FS_Subset
  <2>3. Cardinality(Below(l)) # n
      BY <2>1, FS_Subset
  <2>4. Cardinality(Below(l)) \in Nat
      BY <2>2, FS_CardinalityType
  <2>5. QED
      BY <1>1, <2>2, <2>3, <2>4
<1>3. ASSUME NEW x \in S, NEW y \in S, x < y
      PROVE  f[x] # f[y]
  <2>1. Below(x) \in SUBSET Below(y)
    <3>1. ASSUME NEW m \in S, m < x
          PROVE  m < y
        BY <1>3, <3>1, x \in Nat, y \in Nat, m \in Nat
    <3>2. QED
        BY <3>1
  <2>4. x \in Below(y) /\ x \notin Below(x)
      BY <1>3, x \in Nat
  <2>2. Cardinality(Below(x)) # Cardinality(Below(y))
      BY <1>2, <2>1, <2>4, FS_Subset
  <2>3. QED
      BY <2>2
<1>4. SUFFICES ASSUME \A l \in S : Cardinality(Below(l)) # k
               PROVE  FALSE
    OBVIOUS
<1> DEFINE T == (0 .. n - 1) \ {k}
<1>5. IsFiniteSet(T) /\ Cardinality(T) < n
  <2>1. k \in 0 .. n - 1 /\ n - 1 \in Int /\ ~(0 > n - 1) /\ (n - 1) - 0 + 1 = n
      BY <1>1
  <2> HIDE DEF n
  <2>2. IsFiniteSet(0 .. n - 1) /\ Cardinality(0 .. n - 1) = n
      BY <2>1, FS_Interval
  <2>3. IsFiniteSet(T) /\ Cardinality(T) = n - 1
    <3> DEFINE I == 0 .. n - 1
    <3> HIDE DEF I
    <3>1. IsFiniteSet(I) /\ Cardinality(I) = n /\ k \in I
        BY <2>1, <2>2 DEF I
    <3>2. IsFiniteSet(I \ {k}) /\ Cardinality(I \ {k}) = Cardinality(I) - 1
        BY <3>1, FS_RemoveElement
    <3>3. QED
        BY <3>1, <3>2 DEF I
  <2>4. QED
      BY <1>1, <2>3
<1>6. f \in [S -> T]
    BY <1>2, <1>4
<1>7. PICK x \in S, y \in S : x # y /\ f[x] = f[y]
  <2> HIDE DEF f, T, n
  <2>1. Cardinality(T) < Cardinality(S)
      BY <1>5 DEF n
  <2>2. QED
      BY <1>5, <1>6, <2>1, FS_PigeonHole
<1>8. x < y \/ y < x
    BY <1>7
<1>9. QED
    BY <1>3, <1>7, <1>8

\* The leads that a request schedules.
LeadsOf(q) == {l \in Leads : request[q].start - l > request[q].now}

\* They are finitely many, whatever lead times are configured.
LEMMA LeadsOfType ==
    ASSUME TypeOK, NEW q \in Requests, request[q].pc = "schedule"
    PROVE  LeadsOf(q) \in SUBSET Nat /\ IsFiniteSet(LeadsOf(q))
<1>1. request[q].start \in Nat /\ request[q].now \in Nat
    BY ReminderAssumption DEF TypeOK, RequestState, NoRequest, Times
<1>2. ASSUME NEW l \in LeadsOf(q)
      PROVE  l \in Nat /\ l <= request[q].start
  <2>1. l \in Nat /\ request[q].start - l > request[q].now
      BY ReminderAssumption DEF LeadsOf
  <2>2. QED
      BY <1>1, <2>1
<1>3. LeadsOf(q) \in SUBSET Nat
    BY <1>2
<1>4. IsFiniteSet(LeadsOf(q))
    BY <1>1, <1>2, <1>3, FS_BoundedSetOfNaturals
<1>5. QED
    BY <1>3, <1>4

Rank(i, ids) == Cardinality({j \in ids : j < i})

\* scheduleReminders finds a lead for every row it inserts.
LEMMA EveryRowHasLead ==
    ASSUME TypeOK, NEW q \in Requests, request[q].pc = "schedule",
           NEW ids \in SUBSET Unused, Cardinality(ids) = Cardinality(LeadsOf(q)), NEW i \in ids
    PROVE  \E l \in LeadsOf(q) : Cardinality({m \in LeadsOf(q) : m < l}) = Rank(i, ids)
<1>1. IsFiniteSet(Ids) /\ Ids \subseteq Nat
  <2>1. MaxReminders \in Int /\ 1 \in Int
      BY ReminderAssumption
  <2>2. IsFiniteSet(1 .. MaxReminders)
      BY <2>1, FS_Interval, Zenon
  <2>3. QED
      BY <2>2 DEF Ids
<1>2. ids \in SUBSET Ids
    BY DEF Unused
<1>3. IsFiniteSet(ids)
    BY <1>1, <1>2, FS_Subset
<1>4. {j \in ids : j < i} \in SUBSET ids /\ i \notin {j \in ids : j < i}
    BY <1>1, <1>2
<1>5. Rank(i, ids) <= Cardinality(ids) /\ Rank(i, ids) # Cardinality(ids)
    BY <1>3, <1>4, FS_Subset DEF Rank
<1>6. Rank(i, ids) \in Nat /\ Cardinality(ids) \in Nat
    BY <1>3, <1>4, FS_Subset, FS_CardinalityType DEF Rank
<1>7. Rank(i, ids) < Cardinality(LeadsOf(q))
    BY <1>5, <1>6
<1>8. QED
    BY <1>6, <1>7, LeadsOfType, SomeOneOfRank

-------------------------------------------------------------------------------
(* The invariant.                                                           *)

\* The rows an invocation has claimed and not yet answered for.
HeldBy(w) == IF worker[w] = NoBatch THEN {} ELSE worker[w].batch \cup {worker[w].cur}

\* A row that is claimed, and the message of this attempt not confirmed.
Attempting(r) ==
    \E w \in Workers : r \in HeldBy(w) /\ ~(worker[w].pc = "mark" /\ worker[w].cur = r)

\* A row is claimed by one invocation at a time, and once in its batch.
ClaimsApart ==
    /\ \A w \in Workers : worker[w] # NoBatch => worker[w].cur \notin worker[w].batch
    /\ \A w1, w2 \in Workers : w1 # w2 => HeldBy(w1) \cap HeldBy(w2) = {}

\* What is claimed is marked failed, and its attempt is counted.
ClaimsAreCounted ==
    \A w \in Workers : \A r \in HeldBy(w) : queue[r].status = "failed" /\ queue[r].attempts >= 1

\* An attempt is counted before it is made, and no attempt follows a confirmed one.
RowSound(r) ==
    /\ queue[r].attempts <= MAX_ATTEMPTS
    /\ queue[r].status = "scheduled" => queue[r].attempts < MAX_ATTEMPTS
    /\ delivered[r] <= 1
    /\ delivered[r] + lost[r] <= queue[r].attempts
    /\ Attempting(r) => delivered[r] + lost[r] < queue[r].attempts
    /\ delivered[r] = 1 => queue[r].status \notin {"none", "scheduled"} /\ ~Attempting(r)
    /\ queue[r].status = "none" => queue[r].attempts = 0

\* A row left failed with attempts to spare has an explanation.
RowAccounted(r) ==
    queue[r].status = "failed" /\ queue[r].attempts < MAX_ATTEMPTS =>
        \/ \E w \in Workers : r \in HeldBy(w)
        \/ queue[r].lastError = "undeliverable"
        \/ r \in orphaned

IInv ==
    /\ TypeOK
    /\ ClaimsApart
    /\ ClaimsAreCounted
    /\ \A r \in Ids : RowSound(r) /\ RowAccounted(r)

LEMMA Initial == Init => IInv
<1> SUFFICES ASSUME Init
             PROVE  IInv
    OBVIOUS
<1>1. MaxTime \in Nat /\ MAX_ATTEMPTS \in Nat \ {0}
    BY ReminderAssumption
<1>2. PICK a \in Appts :
        queue = [r \in Ids |-> [status |-> "none", appt |-> a, sendAt |-> 0,
                                attempts |-> 0, lastError |-> "none"]]
    BY DEF Init
<1>3. TypeOK
  <2>1. queue \in [Ids -> Reminder]
      BY <1>2 DEF Reminder
  <2>2. 0 \in Times
      BY <1>1 DEF Times
  <2>3. appt \in [Appts -> [phase : Phase, start : Times]]
      BY <2>2 DEF Init, Phase
  <2>4. request \in [Requests -> RequestState] /\ worker \in [Workers -> WorkerState]
      BY DEF Init, RequestState, WorkerState
  <2>5. delivered \in [Ids -> Nat] /\ lost \in [Ids -> Nat]
      BY DEF Init
  <2>6. QED
      BY <2>1, <2>2, <2>3, <2>4, <2>5 DEF Init, TypeOK
<1>4. \A w \in Workers : HeldBy(w) = {}
    BY DEF Init, HeldBy
<1>5. ClaimsApart /\ ClaimsAreCounted
    BY <1>4 DEF Init, ClaimsApart, ClaimsAreCounted
<1>6. ASSUME NEW r \in Ids
      PROVE  RowSound(r) /\ RowAccounted(r)
  <2>1. queue[r].status = "none" /\ queue[r].attempts = 0
      BY <1>2
  <2>2. delivered[r] = 0 /\ lost[r] = 0
      BY DEF Init
  <2>3. ~Attempting(r)
      BY <1>4 DEF Attempting
  <2>4. QED
      BY <1>1, <2>1, <2>2, <2>3 DEF RowSound, RowAccounted
<1>7. QED
    BY <1>3, <1>5, <1>6 DEF IInv

-------------------------------------------------------------------------------
(* The workers.                                                             *)

\* An invocation that has claimed rows is in one of three steps.
LEMMA WorkerType ==
    ASSUME TypeOK, NEW w \in Workers, worker[w] # NoBatch
    PROVE  /\ worker[w] \in [pc : {"load", "send", "mark"}, batch : SUBSET Ids,
                             cur : Ids, now : Times]
           /\ HeldBy(w) = worker[w].batch \cup {worker[w].cur}
           /\ HeldBy(w) \subseteq Ids
BY DEF TypeOK, WorkerState, HeldBy

\* An invocation at a step has claimed rows.
LEMMA AtStep ==
    ASSUME NEW w, worker[w].pc \in {"load", "send", "mark"}
    PROVE  worker[w] # NoBatch
BY DEF NoBatch

\* Going on with the batch: the row just answered for is let go, the rest stay claimed,
\* and the next is at its beginning.
LEMMA AdvanceLetsGo ==
    ASSUME TypeOK, NEW w \in Workers, worker[w] # NoBatch, Advance(w), ClaimsApart
    PROVE  /\ worker' \in [Workers -> WorkerState]
           /\ \A v \in Workers \ {w} : worker'[v] = worker[v]
           /\ HeldBy(w)' = worker[w].batch
           /\ worker'[w] # NoBatch => worker'[w].pc = "load" /\ worker'[w].cur \notin worker'[w].batch
<1> DEFINE b == worker[w]
<1>1. b \in [pc : {"load", "send", "mark"}, batch : SUBSET Ids, cur : Ids, now : Times]
    BY WorkerType
<1>2. CASE b.batch = {} /\ worker' = [worker EXCEPT ![w] = NoBatch]
    BY <1>2 DEF HeldBy, TypeOK, WorkerState
<1>3. CASE \E r \in b.batch :
             worker' = [worker EXCEPT ![w] = [b EXCEPT !.pc = "load", !.batch = @ \ {r}, !.cur = r]]
  <2>1. PICK r \in b.batch :
             worker' = [worker EXCEPT ![w] = [b EXCEPT !.pc = "load", !.batch = @ \ {r}, !.cur = r]]
      BY <1>3
  <2> DEFINE next == [b EXCEPT !.pc = "load", !.batch = @ \ {r}, !.cur = r]
  <2>2. /\ next \in [pc : {"load", "send", "mark"}, batch : SUBSET Ids, cur : Ids, now : Times]
        /\ next.pc = "load" /\ next.batch = b.batch \ {r} /\ next.cur = r
      BY <1>1
  <2>3. worker'[w] = next /\ next # NoBatch
      BY <2>1, <2>2 DEF TypeOK, NoBatch
  <2>4. worker' \in [Workers -> WorkerState]
      BY <2>1, <2>2 DEF TypeOK, WorkerState
  <2>5. HeldBy(w)' = b.batch
      BY <2>2, <2>3 DEF HeldBy
  <2>6. QED
      BY <2>1, <2>2, <2>3, <2>4, <2>5
<1>4. QED
    BY <1>2, <1>3 DEF Advance

-------------------------------------------------------------------------------
(* Steps of the requests, of the clock and of the staff: no row is claimed,  *)
(* and none is let go.                                                      *)

\* A row that a step does not change stays sound and accounted for, as long as it is
\* claimed when it was, and under attempt only if it was.
LEMMA RowUntouched ==
    ASSUME IInv, NEW r \in Ids,
           queue'[r] = queue[r], delivered'[r] = delivered[r], lost'[r] = lost[r],
           orphaned \subseteq orphaned',
           Attempting(r)' => Attempting(r),
           (\E w \in Workers : r \in HeldBy(w)) => (\E w \in Workers : r \in HeldBy(w))'
    PROVE  RowSound(r)' /\ RowAccounted(r)'
BY DEF IInv, RowSound, RowAccounted

\* While no worker moves, the claims are what they were.
LEMMA ClaimsStay ==
    ASSUME worker' = worker
    PROVE  /\ \A w \in Workers : HeldBy(w)' = HeldBy(w)
           /\ \A r : Attempting(r)' <=> Attempting(r)
BY DEF HeldBy, Attempting

\* A step that leaves queue, workers and history alone keeps the invariant if it keeps
\* the types.
LEMMA QueueUntouched ==
    ASSUME IInv, TypeOK', UNCHANGED <<queue, worker, delivered, lost, orphaned>>
    PROVE  IInv'
<1>1. ClaimsApart' /\ ClaimsAreCounted'
    BY ClaimsStay DEF IInv, ClaimsApart, ClaimsAreCounted
<1>2. \A r \in Ids : RowSound(r)' /\ RowAccounted(r)'
    BY ClaimsStay, RowUntouched
<1>3. QED
    BY <1>1, <1>2 DEF IInv

\* A request between steps.
LEMMA RequestType ==
    ASSUME TypeOK, NEW q \in Requests, request[q].pc \in {"clear", "schedule"}
    PROVE  request[q] \in [pc : {"clear", "schedule"}, appt : Appts, start : Times,
                           now : Times, reschedule : BOOLEAN]
BY DEF TypeOK, RequestState, NoRequest

\* A request goes on to a step it is well typed for.
LEMMA GoType ==
    ASSUME TypeOK, NEW q \in Requests, NEW pc \in {"clear", "schedule"}, NEW a \in Appts,
           NEW start \in Times, NEW now \in Times, NEW reschedule \in BOOLEAN,
           Go(q, pc, a, start, now, reschedule)
    PROVE  request' \in [Requests -> RequestState]
BY DEF TypeOK, Go, RequestState

\* The first writes of a request touch the appointment only.
LEMMA RequestBegins ==
    ASSUME IInv, NEW q \in Requests, NEW a \in Appts,
           Book(q, a) \/ Reschedule(q, a) \/ Close(q, a)
    PROVE  IInv'
<1>1. TypeOK
    BY DEF IInv
<1>2. CASE Book(q, a)
  <2>1. PICK start \in Times :
            /\ appt' = [appt EXCEPT ![a] = [phase |-> "live", start |-> start]]
            /\ Go(q, "schedule", a, start, clock, FALSE)
      BY <1>2 DEF Book
  <2>2. request' \in [Requests -> RequestState]
      BY <1>1, <2>1, GoType DEF TypeOK
  <2>3. TypeOK'
      BY <1>1, <1>2, <2>1, <2>2 DEF Book, Begins, TypeOK, Phase
  <2>4. QED
      BY <1>2, <2>3, QueueUntouched DEF Book, Begins
<1>3. CASE Reschedule(q, a)
  <2>1. PICK start \in Times :
            /\ appt' = [appt EXCEPT ![a].start = start]
            /\ Go(q, "clear", a, start, clock, TRUE)
      BY <1>3 DEF Reschedule
  <2>2. request' \in [Requests -> RequestState]
      BY <1>1, <2>1, GoType DEF TypeOK
  <2>3. TypeOK'
      BY <1>1, <1>3, <2>1, <2>2 DEF Reschedule, Begins, TypeOK
  <2>4. QED
      BY <1>3, <2>3, QueueUntouched DEF Reschedule, Begins
<1>4. CASE Close(q, a)
  <2>1. request' \in [Requests -> RequestState]
      BY <1>1, <1>4, GoType DEF TypeOK, Close
  <2>2. TypeOK'
      BY <1>1, <1>4, <2>1 DEF Close, Begins, TypeOK, Phase
  <2>3. QED
      BY <1>4, <2>2, QueueUntouched DEF Close, Begins
<1>5. QED
    BY <1>2, <1>3, <1>4

\* Neither an arrival, the clock, nor a request that dies touches the queue.
LEMMA OthersKeepIInv ==
    ASSUME IInv, (\E a \in Appts : Arrive(a)) \/ Tick \/ (\E q \in Requests : CrashRequest(q))
    PROVE  IInv'
<1>1. TypeOK
    BY DEF IInv
<1>2. CASE \E a \in Appts : Arrive(a)
  <2>1. PICK a \in Appts : Arrive(a)
      BY <1>2
  <2>2. TypeOK'
      BY <1>1, <2>1 DEF Arrive, TypeOK, Phase, history
  <2>3. QED
      BY <2>1, <2>2, QueueUntouched DEF Arrive, history
<1>3. CASE Tick
  <2>1. TypeOK'
      BY <1>1, <1>3, ReminderAssumption DEF Tick, TypeOK, Times, history
  <2>2. QED
      BY <1>3, <2>1, QueueUntouched DEF Tick, history
<1>4. CASE \E q \in Requests : CrashRequest(q)
  <2>1. PICK q \in Requests : CrashRequest(q)
      BY <1>4
  <2>2. request[q].appt \in Appts
      BY <1>1, <2>1 DEF CrashRequest, TypeOK, RequestState
  <2>3. request' \in [Requests -> RequestState]
      BY <1>1, <2>1 DEF CrashRequest, TypeOK, RequestState
  <2>4. TypeOK'
      BY <1>1, <2>1, <2>2, <2>3 DEF CrashRequest, TypeOK
  <2>5. QED
      BY <2>1, <2>4, QueueUntouched DEF CrashRequest
<1>5. QED
    BY <1>2, <1>3, <1>4

\* cancelReminders reaches scheduled rows only, so it takes none from a worker.
LEMMA ClearKeepsIInv ==
    ASSUME IInv, NEW q \in Requests, ClearReminders(q)
    PROVE  IInv'
<1>1. TypeOK /\ ClaimsApart /\ ClaimsAreCounted
    BY DEF IInv
<1>2. UNCHANGED <<appt, worker, clock, delivered, lost, orphaned>> /\ torn' \subseteq Appts
  <2>1. request[q].appt \in Appts
      BY <1>1, RequestType DEF ClearReminders
  <2>2. QED
      BY <1>1, <2>1 DEF ClearReminders, TypeOK
<1>3. \A r \in Ids : queue'[r] = queue[r] \/ (queue[r].status = "scheduled" /\
                                              queue'[r] = [queue[r] EXCEPT !.status = "cancelled"])
    BY DEF ClearReminders
<1>4. queue' \in [Ids -> Reminder]
  <2>1. \A r \in Ids : [queue[r] EXCEPT !.status = "cancelled"] \in Reminder
      BY <1>1 DEF TypeOK, Reminder
  <2>2. QED
      BY <1>1, <2>1 DEF ClearReminders, TypeOK
<1>5. request' \in [Requests -> RequestState]
  <2>1. [request[q] EXCEPT !.pc = "schedule"] \in RequestState
      BY <1>1, RequestType DEF ClearReminders, RequestState
  <2>2. NoRequest \in RequestState
      BY DEF RequestState
  <2>3. QED
      BY <1>1, <2>1, <2>2 DEF ClearReminders, TypeOK
<1>6. TypeOK'
    BY <1>1, <1>2, <1>4, <1>5 DEF TypeOK
<1>7. \A w \in Workers : HeldBy(w) \subseteq Ids
    BY <1>1, WorkerType DEF HeldBy
<1>8. ClaimsApart' /\ ClaimsAreCounted'
    BY <1>1, <1>2, <1>3, <1>7, ClaimsStay DEF ClaimsApart, ClaimsAreCounted
<1>9. ASSUME NEW r \in Ids
      PROVE  RowSound(r)' /\ RowAccounted(r)'
  <2>1. CASE queue'[r] = queue[r]
      BY <1>2, <2>1, ClaimsStay, RowUntouched
  <2>2. CASE queue[r].status = "scheduled" /\ queue'[r] = [queue[r] EXCEPT !.status = "cancelled"]
    <3>1. queue'[r].status = "cancelled" /\ queue'[r].attempts = queue[r].attempts
        BY <1>1, <2>2 DEF TypeOK, Reminder
    <3>2. delivered[r] # 1 /\ RowSound(r)
        BY <2>2 DEF IInv, RowSound
    <3>3. QED
        BY <1>2, <3>1, <3>2, ClaimsStay DEF RowSound, RowAccounted
  <2>3. QED
      BY <1>3, <2>1, <2>2
<1>10. QED
    BY <1>6, <1>8, <1>9 DEF IInv

\* A row as scheduleReminders inserts it.
LEMMA NewRowType ==
    ASSUME NEW a \in Appts, NEW at \in Nat
    PROVE  [status |-> "scheduled", appt |-> a, sendAt |-> at,
            attempts |-> 0, lastError |-> "none"] \in Reminder
BY DEF Reminder

\* What scheduleReminders writes: nothing, or a row per lead under ids not used before.
LEMMA Scheduled ==
    ASSUME TypeOK, NEW q \in Requests, ScheduleReminders(q)
    PROVE  \A r \in Ids :
              \/ queue'[r] = queue[r]
              \/ /\ queue[r].status = "none"
                 /\ queue'[r] \in Reminder
                 /\ queue'[r].status = "scheduled"
                 /\ queue'[r].appt = request[q].appt
                 /\ queue'[r].attempts = 0
                 /\ \E l \in Leads : queue'[r].sendAt = request[q].start - l
<1> DEFINE leads == LeadsOf(q)
<1>1. /\ request[q].pc = "schedule" /\ request[q].appt \in Appts
      /\ request[q].start \in Nat /\ request[q].now \in Nat
  <2>1. request[q].pc = "schedule"
      BY DEF ScheduleReminders
  <2>2. request[q].appt \in Appts /\ request[q].start \in Times /\ request[q].now \in Times
      BY <2>1, RequestType
  <2>3. Times \subseteq Nat
      BY ReminderAssumption DEF Times
  <2>4. QED
      BY <2>1, <2>2, <2>3
<1>2. CASE UNCHANGED queue
    BY <1>2
<1>3. ASSUME NEW ids \in SUBSET Unused, Cardinality(ids) = Cardinality(leads),
             queue' = [r \in Ids |->
                IF r \in ids
                THEN [status |-> "scheduled", appt |-> request[q].appt,
                      sendAt |-> request[q].start -
                          (CHOOSE l \in leads :
                              Cardinality({m \in leads : m < l}) = Cardinality({j \in ids : j < r})),
                      attempts |-> 0, lastError |-> "none"]
                ELSE queue[r]],
             NEW r \in Ids
      PROVE  \/ queue'[r] = queue[r]
             \/ /\ queue[r].status = "none"
                /\ queue'[r] \in Reminder
                /\ queue'[r].status = "scheduled"
                /\ queue'[r].appt = request[q].appt
                /\ queue'[r].attempts = 0
                /\ \E l \in Leads : queue'[r].sendAt = request[q].start - l
  <2>1. CASE r \in ids
    <3>1. \E l \in leads : Cardinality({m \in leads : m < l}) = Rank(r, ids)
        BY <1>1, <1>3, <2>1, EveryRowHasLead
    <3>2. PICK lead \in leads :
              lead = CHOOSE l \in leads : Cardinality({m \in leads : m < l}) = Rank(r, ids)
        BY <3>1
    <3>3. lead \in Leads /\ request[q].start - lead > request[q].now
        BY DEF LeadsOf
    <3>4. queue'[r] = [status |-> "scheduled", appt |-> request[q].appt,
                       sendAt |-> request[q].start - lead, attempts |-> 0, lastError |-> "none"]
        BY <1>3, <2>1, <3>2 DEF Rank
    <3>5. PICK at \in Nat : at = request[q].start - lead
        BY <1>1, <3>3, ReminderAssumption
    <3>6. queue'[r] = [status |-> "scheduled", appt |-> request[q].appt,
                       sendAt |-> at, attempts |-> 0, lastError |-> "none"]
        BY <3>4, <3>5
    <3>7. queue[r].status = "none"
        BY <1>3, <2>1 DEF Unused
    <3>8. request[q].appt \in Appts
        BY <1>1
    <3>9. queue'[r] \in Reminder
        BY <3>6, <3>8, NewRowType
    <3>10. /\ queue'[r].status = "scheduled"
           /\ queue'[r].appt = request[q].appt
           /\ queue'[r].attempts = 0
           /\ queue'[r].sendAt = at
        BY <3>6
    <3>11. QED
        BY <3>3, <3>5, <3>7, <3>9, <3>10
  <2>2. CASE r \notin ids
      BY <1>3, <2>2
  <2>3. QED
      BY <2>1, <2>2
<1>4. \/ UNCHANGED queue
      \/ \E ids \in SUBSET Unused :
            /\ Cardinality(ids) = Cardinality(leads)
            /\ queue' = [r \in Ids |->
                  IF r \in ids
                  THEN [status |-> "scheduled", appt |-> request[q].appt,
                        sendAt |-> request[q].start -
                            (CHOOSE l \in leads :
                                Cardinality({m \in leads : m < l}) = Cardinality({j \in ids : j < r})),
                        attempts |-> 0, lastError |-> "none"]
                  ELSE queue[r]]
    BY Zenon DEF ScheduleReminders, LeadsOf
<1>5. QED
    BY <1>2, <1>3, <1>4

\* scheduleReminders inserts rows that no attempt was ever made on.
LEMMA ScheduleKeepsIInv ==
    ASSUME IInv, NEW q \in Requests, ScheduleReminders(q)
    PROVE  IInv'
<1>1. TypeOK /\ ClaimsApart /\ ClaimsAreCounted
    BY DEF IInv
<1>2. UNCHANGED <<appt, worker, clock, delivered, lost, orphaned, torn>>
    BY DEF ScheduleReminders, history
<1>3. queue' \in [Ids -> Reminder]
  <2>1. DOMAIN queue' = Ids /\ queue' = [r \in Ids |-> queue'[r]]
      BY <1>1, Zenon DEF ScheduleReminders, TypeOK
  <2>2. \A r \in Ids : queue'[r] \in Reminder
      BY <1>1, Scheduled DEF TypeOK
  <2>3. QED
      BY <2>1, <2>2
<1>4. request' \in [Requests -> RequestState]
    BY <1>1 DEF ScheduleReminders, TypeOK, RequestState
<1>5. TypeOK'
    BY <1>1, <1>2, <1>3, <1>4 DEF TypeOK
<1>6. \A w \in Workers : \A r \in HeldBy(w) : r \in Ids /\ queue'[r] = queue[r]
  <2>1. \A w \in Workers : HeldBy(w) \subseteq Ids
      BY <1>1, WorkerType DEF HeldBy
  <2>2. QED
      BY <1>1, <2>1, Scheduled DEF ClaimsAreCounted
<1>7. ClaimsApart' /\ ClaimsAreCounted'
    BY <1>1, <1>2, <1>6, ClaimsStay DEF ClaimsApart, ClaimsAreCounted
<1>8. ASSUME NEW r \in Ids
      PROVE  RowSound(r)' /\ RowAccounted(r)'
  <2>1. CASE queue'[r] = queue[r]
      BY <1>2, <2>1, ClaimsStay, RowUntouched
  <2>2. CASE queue[r].status = "none" /\ queue'[r].status = "scheduled" /\ queue'[r].attempts = 0
    <3>1. RowSound(r) /\ delivered[r] \in Nat /\ lost[r] \in Nat
        BY <1>1 DEF IInv, TypeOK
    <3>2. delivered[r] = 0 /\ lost[r] = 0
        BY <2>2, <3>1 DEF RowSound
    <3>3. ~Attempting(r)
        BY <1>1, <2>2 DEF ClaimsAreCounted, Attempting
    <3>4. QED
        BY <1>2, <2>2, <3>2, <3>3, ClaimsStay, ReminderAssumption DEF RowSound, RowAccounted
  <2>3. QED
      BY <1>1, <2>1, <2>2, Scheduled
<1>9. QED
    BY <1>5, <1>7, <1>8 DEF IInv

-------------------------------------------------------------------------------
(* Steps of the workers.                                                    *)

\* An invocation that does not move holds what it held.
LEMMA OthersHold ==
    ASSUME NEW v, worker'[v] = worker[v]
    PROVE  HeldBy(v)' = HeldBy(v)
BY DEF HeldBy

\* What the claim makes of a row.
LEMMA ClaimedType ==
    ASSUME NEW row \in Reminder
    PROVE  /\ Claimed(row) \in Reminder
           /\ Claimed(row).status = "failed"
           /\ Claimed(row).attempts = row.attempts + 1
<1>1. PICK n \in Nat : n = row.attempts + 1
    BY DEF Reminder
<1>2. Claimed(row) = [row EXCEPT !.status = "failed", !.attempts = n]
    BY <1>1 DEF Claimed, Reminder
<1>3. QED
    BY <1>1, <1>2 DEF Reminder

\* What a failed delivery makes of a claimed row.
LEMMA RequeuedType ==
    ASSUME NEW row \in Reminder, NEW now \in Nat
    PROVE  /\ Requeued(row, now) \in Reminder
           /\ Requeued(row, now).attempts = row.attempts
           /\ Requeued(row, now).status = IF row.attempts < MAX_ATTEMPTS THEN "scheduled"
                                          ELSE row.status
<1>1. NextTry(now) \in Nat
    BY ReminderAssumption DEF NextTry
<1>2. CASE row.attempts < MAX_ATTEMPTS
    BY <1>1, <1>2 DEF Requeued, Reminder
<1>3. CASE ~(row.attempts < MAX_ATTEMPTS)
    BY <1>3 DEF Requeued, Reminder
<1>4. QED
    BY <1>2, <1>3

\* The claim takes scheduled rows, which no other invocation holds.
LEMMA ClaimKeepsIInv ==
    ASSUME IInv, NEW w \in Workers, Claim(w)
    PROVE  IInv'
<1>1. TypeOK /\ ClaimsApart /\ ClaimsAreCounted
    BY DEF IInv
<1>0. PICK B \in SUBSET Due(clock) :
          /\ queue' = [i \in Ids |-> IF i \in B THEN Claimed(queue[i]) ELSE queue[i]]
          /\ \E r \in B : worker' = [worker EXCEPT ![w] =
                [pc |-> "load", batch |-> B \ {r}, cur |-> r, now |-> clock]]
    BY DEF Claim
<1>2. PICK r \in B :
          /\ queue' = [i \in Ids |-> IF i \in B THEN Claimed(queue[i]) ELSE queue[i]]
          /\ worker' = [worker EXCEPT ![w] =
                [pc |-> "load", batch |-> B \ {r}, cur |-> r, now |-> clock]]
    BY <1>0
<1>3. worker[w] = NoBatch /\ UNCHANGED <<appt, request, clock, delivered, lost, orphaned, torn>>
    BY DEF Claim, history
<1>4. B \subseteq Ids /\ \A i \in B : queue[i].status = "scheduled"
    BY DEF Due
<1>5. \A i \in Ids : queue[i] \in Reminder
    BY <1>1 DEF TypeOK
<1>6. \A i \in B : /\ Claimed(queue[i]) \in Reminder
                   /\ queue'[i].status = "failed"
                   /\ queue'[i].attempts = queue[i].attempts + 1
    BY <1>2, <1>4, <1>5, ClaimedType
<1>7. TypeOK'
  <2>1. queue' \in [Ids -> Reminder]
      BY <1>2, <1>5, <1>6
  <2>2. worker' \in [Workers -> WorkerState]
      BY <1>1, <1>2, <1>4 DEF TypeOK, WorkerState
  <2>3. QED
      BY <1>1, <1>3, <2>1, <2>2 DEF TypeOK
<1>8. HeldBy(w) = {} /\ HeldBy(w)' = B /\ \A v \in Workers \ {w} : HeldBy(v)' = HeldBy(v)
  <2> DEFINE b == [pc |-> "load", batch |-> B \ {r}, cur |-> r, now |-> clock]
  <2>1. worker'[w] = b /\ b # NoBatch /\ b.batch = B \ {r} /\ b.cur = r
      BY <1>1, <1>2 DEF TypeOK, NoBatch
  <2>2. HeldBy(w)' = B
      BY <2>1 DEF HeldBy
  <2>3. \A v \in Workers \ {w} : worker'[v] = worker[v]
      BY <1>1, <1>2 DEF TypeOK
  <2>4. QED
      BY <1>3, <2>2, <2>3, OthersHold DEF HeldBy
<1>9. \A v \in Workers : HeldBy(v) \subseteq Ids /\ HeldBy(v) \cap B = {}
    BY <1>1, <1>4, WorkerType DEF HeldBy, ClaimsAreCounted
<1>10. ClaimsApart'
  <2>1. \A v \in Workers : worker'[v] # NoBatch => worker'[v].cur \notin worker'[v].batch
      BY <1>1, <1>2 DEF ClaimsApart, TypeOK
  <2>2. \A v1, v2 \in Workers : v1 # v2 => HeldBy(v1)' \cap HeldBy(v2)' = {}
      BY <1>1, <1>8, <1>9 DEF ClaimsApart
  <2>3. QED
      BY <2>1, <2>2 DEF ClaimsApart
<1>11. ClaimsAreCounted'
  <2>1. ASSUME NEW v \in Workers, NEW i \in HeldBy(v)'
        PROVE  queue'[i].status = "failed" /\ queue'[i].attempts >= 1
    <3>1. CASE v = w
      <4>1. i \in B /\ queue[i].attempts \in Nat
          BY <1>4, <1>5, <1>8, <2>1, <3>1 DEF Reminder
      <4>2. QED
          BY <1>6, <4>1
    <3>2. CASE v # w
        BY <1>1, <1>2, <1>8, <1>9, <2>1, <3>2 DEF ClaimsAreCounted
    <3>3. QED
        BY <3>1, <3>2
  <2>2. QED
      BY <2>1 DEF ClaimsAreCounted
<1>12. ASSUME NEW i \in Ids
       PROVE  RowSound(i)' /\ RowAccounted(i)'
  <2>1. CASE i \in B
    <3>1. /\ RowSound(i) /\ queue[i].attempts \in Nat
          /\ delivered[i] \in Nat /\ lost[i] \in Nat /\ MAX_ATTEMPTS \in Nat
        BY <1>1, <1>5, ReminderAssumption DEF IInv, Reminder, TypeOK
    <3>2. delivered[i] = 0 /\ lost[i] < queue[i].attempts + 1 /\ queue[i].attempts < MAX_ATTEMPTS
        BY <1>4, <2>1, <3>1 DEF RowSound
    <3>3. RowSound(i)'
        BY <1>3, <1>6, <2>1, <3>1, <3>2 DEF RowSound
    <3>4. RowAccounted(i)'
        BY <1>8, <2>1 DEF RowAccounted
    <3>5. QED
        BY <3>3, <3>4
  <2>2. CASE i \notin B
    <3>1. Attempting(i)' => Attempting(i)
      <4>1. \A v \in Workers \ {w} : worker'[v] = worker[v]
          BY <1>1, <1>2 DEF TypeOK
      <4>2. QED
          BY <1>8, <2>2, <4>1 DEF Attempting
    <3>2. (\E v \in Workers : i \in HeldBy(v)) => (\E v \in Workers : i \in HeldBy(v))'
        BY <1>8
    <3>3. queue'[i] = queue[i]
        BY <1>2, <2>2
    <3>4. QED
        BY <1>3, <3>1, <3>2, <3>3, RowUntouched
  <2>3. QED
      BY <2>1, <2>2
<1>13. QED
    BY <1>7, <1>10, <1>11, <1>12 DEF IInv

\* Letting go of a row, whatever was written about it, leaves the other rows and the
\* other invocations as they were, and the row free.
LEMMA LetGo ==
    ASSUME IInv, NEW w \in Workers, worker[w] # NoBatch, Advance(w),
           NEW r, r = worker[w].cur,
           \A j \in Ids \ {r} : /\ queue'[j] = queue[j]
                                /\ delivered'[j] = delivered[j] /\ lost'[j] = lost[j],
           orphaned \subseteq orphaned'
    PROVE  /\ worker' \in [Workers -> WorkerState]
           /\ ClaimsApart' /\ ClaimsAreCounted'
           /\ \A j \in Ids \ {r} : RowSound(j)' /\ RowAccounted(j)'
           /\ ~(\E v \in Workers : r \in HeldBy(v)')
<1>1. TypeOK /\ ClaimsApart /\ ClaimsAreCounted
    BY DEF IInv
<1>2. /\ worker' \in [Workers -> WorkerState]
      /\ \A v \in Workers \ {w} : worker'[v] = worker[v]
      /\ HeldBy(w)' = worker[w].batch
      /\ worker'[w] # NoBatch => worker'[w].pc = "load" /\ worker'[w].cur \notin worker'[w].batch
    BY <1>1, AdvanceLetsGo
<1>3. \A v \in Workers \ {w} : HeldBy(v)' = HeldBy(v)
    BY <1>2, OthersHold
<1>4. HeldBy(w) = worker[w].batch \cup {r} /\ r \notin worker[w].batch
    BY <1>1, WorkerType DEF ClaimsApart
<1>5. \A v \in Workers : HeldBy(v) \subseteq Ids
    BY <1>1, WorkerType DEF HeldBy
<1>6. \A v \in Workers : HeldBy(v)' \subseteq HeldBy(v) \ {r}
    BY <1>1, <1>2, <1>3, <1>4 DEF ClaimsApart
<1>7. ClaimsApart'
  <2>1. \A v \in Workers : worker'[v] # NoBatch => worker'[v].cur \notin worker'[v].batch
      BY <1>1, <1>2 DEF ClaimsApart
  <2>2. \A v1, v2 \in Workers : v1 # v2 => HeldBy(v1)' \cap HeldBy(v2)' = {}
      BY <1>1, <1>6 DEF ClaimsApart
  <2>3. QED
      BY <2>1, <2>2 DEF ClaimsApart
<1>8. ClaimsAreCounted'
  <2>1. \A v \in Workers : \A i \in HeldBy(v)' : queue'[i] = queue[i] /\ i \in HeldBy(v)
      BY <1>5, <1>6
  <2>2. QED
      BY <1>1, <2>1 DEF ClaimsAreCounted
<1>9. ASSUME NEW j \in Ids \ {r}
      PROVE  RowSound(j)' /\ RowAccounted(j)'
  <2>1. \A v \in Workers : j \in HeldBy(v)' <=> j \in HeldBy(v)
      BY <1>2, <1>3, <1>4
  <2>2. Attempting(j)' => Attempting(j)
    <3>1. ASSUME NEW v \in Workers, j \in HeldBy(v)',
                 ~(worker'[v].pc = "mark" /\ worker'[v].cur = j)
          PROVE  Attempting(j)
      <4>1. CASE v = w
          BY <2>1, <3>1, <4>1 DEF Attempting
      <4>2. CASE v # w
          BY <1>2, <2>1, <3>1, <4>2 DEF Attempting
      <4>3. QED
          BY <4>1, <4>2
    <3>2. QED
        BY <3>1 DEF Attempting
  <2>3. QED
      BY <2>1, <2>2, RowUntouched
<1>10. QED
    BY <1>2, <1>6, <1>7, <1>8, <1>9

\* What is known of the row an invocation works on, before its message is confirmed.
LEMMA CurrentRow ==
    ASSUME IInv, NEW w \in Workers, worker[w].pc \in {"load", "send", "mark"},
           NEW r, r = worker[w].cur
    PROVE  /\ r \in Ids /\ r \in HeldBy(w) /\ queue[r] \in Reminder
           /\ queue[r].status = "failed" /\ queue[r].attempts >= 1
           /\ queue[r].attempts <= MAX_ATTEMPTS
           /\ delivered[r] \in Nat /\ lost[r] \in Nat
           /\ RowSound(r)
           /\ worker[w].pc # "mark" =>
                 delivered[r] = 0 /\ delivered[r] + lost[r] < queue[r].attempts
           /\ worker[w].now \in Nat
<1>1. TypeOK /\ ClaimsAreCounted
    BY DEF IInv
<1>2. worker[w] # NoBatch
    BY AtStep
<1>3. /\ worker[w] \in [pc : {"load", "send", "mark"}, batch : SUBSET Ids,
                        cur : Ids, now : Times]
      /\ HeldBy(w) = worker[w].batch \cup {worker[w].cur}
    BY <1>1, <1>2, WorkerType
<1>4. r \in Ids /\ r \in HeldBy(w)
    BY <1>3
<1>5. queue[r] \in Reminder /\ delivered[r] \in Nat /\ lost[r] \in Nat
    BY <1>1, <1>4 DEF TypeOK
<1>6. queue[r].status = "failed" /\ queue[r].attempts >= 1
    BY <1>1, <1>4 DEF ClaimsAreCounted
<1>7. RowSound(r)
    BY <1>4 DEF IInv
<1>8. worker[w].pc # "mark" => Attempting(r)
    BY <1>4 DEF Attempting
<1>9. worker[w].now \in Nat
    BY <1>3, ReminderAssumption DEF Times
<1>10. worker[w].pc # "mark" => delivered[r] = 0 /\ delivered[r] + lost[r] < queue[r].attempts
    BY <1>5, <1>7, <1>8 DEF RowSound
<1>11. QED
    BY <1>4, <1>5, <1>6, <1>7, <1>9, <1>10 DEF RowSound

\* A write changes its row only, as asked or, when it is lost, not at all.
LEMMA WrittenRow ==
    ASSUME TypeOK, NEW r \in Ids, NEW row \in Reminder, Written(r, row)
    PROVE  /\ queue' \in [Ids -> Reminder]
           /\ \A j \in Ids \ {r} : queue'[j] = queue[j]
           /\ orphaned \subseteq orphaned' /\ orphaned' \subseteq Ids
           /\ queue'[r] = row \/ (queue'[r] = queue[r] /\ r \in orphaned')
BY DEF TypeOK, Written, WriteLost

\* The loaded row is answered for at once, or its message is going to be sent.
LEMMA LoadKeepsIInv ==
    ASSUME IInv, NEW w \in Workers, LoadAppointment(w)
    PROVE  IInv'
<1>0. PICK r : r = worker[w].cur
    OBVIOUS
<1>1. TypeOK /\ ClaimsApart /\ ClaimsAreCounted /\ worker[w].pc = "load" /\ worker[w] # NoBatch
    BY AtStep DEF IInv, LoadAppointment
<1>2. UNCHANGED <<appt, request, clock, delivered, lost, torn>>
    BY DEF LoadAppointment
<1>3. /\ r \in Ids /\ r \in HeldBy(w) /\ queue[r] \in Reminder /\ RowSound(r)
      /\ delivered[r] \in Nat /\ lost[r] \in Nat
      /\ delivered[r] = 0 /\ delivered[r] + lost[r] < queue[r].attempts
    BY <1>0, <1>1, CurrentRow
<1> DEFINE sent == [queue[r] EXCEPT !.status = "sent"]
           nowhere == [queue[r] EXCEPT !.lastError = "undeliverable"]
<1>4. CASE Advance(w) /\ (Written(r, sent) \/ Written(r, nowhere))
  <2>0. queue[r].status = "failed"
      BY <1>1, <1>3 DEF ClaimsAreCounted
  <2>1. /\ queue' \in [Ids -> Reminder]
        /\ \A j \in Ids \ {r} : queue'[j] = queue[j]
        /\ queue'[r].attempts = queue[r].attempts
        /\ \/ queue'[r].status = "sent"
           \/ queue'[r].status = "failed" /\ queue'[r].lastError = "undeliverable"
           \/ queue'[r].status = "failed" /\ r \in orphaned'
        /\ orphaned \subseteq orphaned' /\ orphaned' \subseteq Ids
    <3>1. CASE Written(r, sent)
      <4>1. sent \in Reminder /\ sent.status = "sent" /\ sent.attempts = queue[r].attempts
          BY <1>3 DEF Reminder
      <4>2. QED
          BY <1>1, <1>3, <2>0, <3>1, <4>1, WrittenRow
    <3>2. CASE Written(r, nowhere)
      <4>1. /\ nowhere \in Reminder /\ nowhere.status = queue[r].status
            /\ nowhere.attempts = queue[r].attempts /\ nowhere.lastError = "undeliverable"
          BY <1>3 DEF Reminder
      <4>2. QED
          BY <1>1, <1>3, <2>0, <3>2, <4>1, WrittenRow
    <3>3. QED
        BY <1>4, <3>1, <3>2
  <2>2. /\ worker' \in [Workers -> WorkerState]
        /\ ClaimsApart' /\ ClaimsAreCounted'
        /\ \A j \in Ids \ {r} : RowSound(j)' /\ RowAccounted(j)'
        /\ ~(\E v \in Workers : r \in HeldBy(v)')
      BY <1>0, <1>1, <1>2, <1>4, <2>1, LetGo
  <2>3. TypeOK'
      BY <1>1, <1>2, <2>1, <2>2 DEF TypeOK
  <2>4. ~Attempting(r)'
      BY <2>2 DEF Attempting
  <2>6. RowSound(r)' /\ RowAccounted(r)'
      BY <1>2, <1>3, <2>0, <2>1, <2>4 DEF RowSound, RowAccounted
  <2>7. QED
      BY <2>2, <2>3, <2>6 DEF IInv
<1>5. CASE worker' = [worker EXCEPT ![w].pc = "send"] /\ UNCHANGED <<queue, orphaned>>
  <2> DEFINE b == [worker[w] EXCEPT !.pc = "send"]
  <2>1. /\ worker[w] \in [pc : {"load", "send", "mark"}, batch : SUBSET Ids,
                          cur : Ids, now : Times]
        /\ HeldBy(w) = worker[w].batch \cup {r}
      BY <1>0, <1>1, WorkerType
  <2>2. /\ b \in [pc : {"load", "send", "mark"}, batch : SUBSET Ids, cur : Ids, now : Times]
        /\ b.pc = "send" /\ b.batch = worker[w].batch /\ b.cur = r
      BY <1>0, <2>1
  <2>3. /\ worker' = [worker EXCEPT ![w] = b] /\ worker'[w] = b
        /\ \A v \in Workers \ {w} : worker'[v] = worker[v]
      BY <1>1, <1>5 DEF TypeOK
  <2>4. b # NoBatch
      BY <2>2 DEF NoBatch
  <2>5. \A v \in Workers : HeldBy(v)' = HeldBy(v)
      BY <2>1, <2>2, <2>3, <2>4, OthersHold DEF HeldBy
  <2>6. TypeOK'
      BY <1>1, <1>2, <1>5, <2>2, <2>3 DEF TypeOK, WorkerState
  <2>7. \A v \in Workers : worker'[v] # NoBatch => worker'[v].cur \notin worker'[v].batch
      BY <1>1, <2>2, <2>3 DEF ClaimsApart
  <2>8. ClaimsApart' /\ ClaimsAreCounted'
      BY <1>1, <1>5, <2>5, <2>7 DEF ClaimsApart, ClaimsAreCounted
  <2>9. \A j \in Ids : Attempting(j)' => Attempting(j)
      BY <1>1, <2>3, <2>5 DEF Attempting
  <2>10. \A j \in Ids : RowSound(j)' /\ RowAccounted(j)'
      BY <1>2, <1>5, <2>5, <2>9, RowUntouched
  <2>11. QED
      BY <2>6, <2>8, <2>10 DEF IInv
<1>6. QED
    BY <1>0, <1>4, <1>5 DEF LoadAppointment

\* A confirmed sending is the first of its row: the row was under attempt, and it is not
\* any more.
LEMMA DeliverKeepsIInv ==
    ASSUME IInv, NEW w \in Workers, Deliver(w)
    PROVE  IInv'
<1>0. PICK r : r = worker[w].cur
    OBVIOUS
<1>1. TypeOK /\ ClaimsApart /\ ClaimsAreCounted /\ worker[w].pc = "send" /\ worker[w] # NoBatch
    BY AtStep DEF IInv, Deliver
<1>2. /\ UNCHANGED <<appt, queue, request, clock, lost, orphaned, torn>>
      /\ delivered' = [delivered EXCEPT ![r] = @ + 1]
      /\ worker' = [worker EXCEPT ![w].pc = "mark"]
    BY <1>0 DEF Deliver
<1>3. /\ r \in Ids /\ r \in HeldBy(w) /\ RowSound(r)
      /\ queue[r].status = "failed" /\ queue[r] \in Reminder
      /\ delivered[r] \in Nat /\ lost[r] \in Nat
      /\ delivered[r] = 0 /\ delivered[r] + lost[r] < queue[r].attempts
    BY <1>0, <1>1, CurrentRow
<1> DEFINE b == [worker[w] EXCEPT !.pc = "mark"]
<1>4. /\ worker[w] \in [pc : {"load", "send", "mark"}, batch : SUBSET Ids,
                        cur : Ids, now : Times]
      /\ HeldBy(w) = worker[w].batch \cup {r}
    BY <1>0, <1>1, WorkerType
<1>5. /\ b \in [pc : {"load", "send", "mark"}, batch : SUBSET Ids, cur : Ids, now : Times]
      /\ b.pc = "mark" /\ b.batch = worker[w].batch /\ b.cur = r
    BY <1>0, <1>4
<1>6. /\ worker' = [worker EXCEPT ![w] = b] /\ worker'[w] = b
      /\ \A v \in Workers \ {w} : worker'[v] = worker[v]
    BY <1>1, <1>2 DEF TypeOK
<1>7. b # NoBatch
    BY <1>5 DEF NoBatch
<1>8. \A v \in Workers : HeldBy(v)' = HeldBy(v)
    BY <1>4, <1>5, <1>6, <1>7, OthersHold, ZenonT(60) DEF HeldBy
<1>9. TypeOK'
  <2>1. delivered' \in [Ids -> Nat]
      BY <1>1, <1>2, <1>3 DEF TypeOK
  <2>2. worker' \in [Workers -> WorkerState]
      BY <1>1, <1>5, <1>6 DEF TypeOK, WorkerState
  <2>3. QED
      BY <1>1, <1>2, <2>1, <2>2 DEF TypeOK
<1>10. \A v \in Workers : worker'[v] # NoBatch => worker'[v].cur \notin worker'[v].batch
    BY <1>0, <1>1, <1>5, <1>6 DEF ClaimsApart
<1>11. ClaimsApart' /\ ClaimsAreCounted'
    BY <1>1, <1>2, <1>8, <1>10 DEF ClaimsApart, ClaimsAreCounted
<1>12. \A j \in Ids : Attempting(j)' => Attempting(j)
    BY <1>1, <1>6, <1>8 DEF Attempting
<1>13. \A j \in Ids \ {r} : RowSound(j)' /\ RowAccounted(j)'
  <2>1. \A j \in Ids \ {r} : delivered'[j] = delivered[j]
      BY <1>1, <1>2 DEF TypeOK
  <2>2. QED
      BY <1>2, <1>8, <1>12, <2>1, RowUntouched
<1>14. ~Attempting(r)'
  <2>1. \A v \in Workers \ {w} : r \notin HeldBy(v)
      BY <1>1, <1>3 DEF ClaimsApart
  <2>2. QED
      BY <1>5, <1>6, <1>8, <2>1 DEF Attempting
<1>15. RowSound(r)' /\ RowAccounted(r)'
  <2>1. delivered'[r] = 1 /\ queue' = queue /\ lost' = lost
      BY <1>1, <1>2, <1>3 DEF TypeOK
  <2>2. RowSound(r)'
      BY <1>3, <1>14, <2>1 DEF RowSound, Reminder
  <2>3. RowAccounted(r)'
      BY <1>3, <1>8 DEF RowAccounted
  <2>4. QED
      BY <2>2, <2>3
<1>16. QED
    BY <1>9, <1>11, <1>13, <1>15 DEF IInv

\* The row of a confirmed message is marked sent, or left as claimed for good.
LEMMA MarkSentKeepsIInv ==
    ASSUME IInv, NEW w \in Workers, MarkSent(w)
    PROVE  IInv'
<1>0. PICK r : r = worker[w].cur
    OBVIOUS
<1>1. TypeOK /\ worker[w].pc = "mark" /\ worker[w] # NoBatch /\ Advance(w)
    BY AtStep DEF IInv, MarkSent
<1>2. UNCHANGED <<appt, request, clock, delivered, lost, torn>>
    BY DEF MarkSent
<1>3. /\ r \in Ids /\ r \in HeldBy(w) /\ queue[r] \in Reminder /\ RowSound(r)
      /\ queue[r].status = "failed" /\ queue[r].attempts <= MAX_ATTEMPTS
    BY <1>0, <1>1, CurrentRow
<1>4. /\ queue' \in [Ids -> Reminder]
      /\ \A j \in Ids \ {r} : queue'[j] = queue[j]
      /\ queue'[r].attempts = queue[r].attempts
      /\ \/ queue'[r].status = "sent"
         \/ queue'[r].status = "failed" /\ r \in orphaned'
      /\ orphaned \subseteq orphaned' /\ orphaned' \subseteq Ids
  <2> DEFINE sent == [queue[r] EXCEPT !.status = "sent"]
  <2>1. Written(r, sent)
      BY <1>0 DEF MarkSent
  <2>2. sent \in Reminder /\ sent.status = "sent" /\ sent.attempts = queue[r].attempts
      BY <1>3 DEF Reminder
  <2>3. QED
      BY <1>1, <1>3, <2>1, <2>2, WrittenRow
<1>5. /\ worker' \in [Workers -> WorkerState]
      /\ ClaimsApart' /\ ClaimsAreCounted'
      /\ \A j \in Ids \ {r} : RowSound(j)' /\ RowAccounted(j)'
      /\ ~(\E v \in Workers : r \in HeldBy(v)')
    BY <1>0, <1>1, <1>2, <1>4, LetGo
<1>6. TypeOK'
    BY <1>1, <1>2, <1>4, <1>5 DEF TypeOK
<1>7. ~Attempting(r)'
    BY <1>5 DEF Attempting
<1>8. RowSound(r)' /\ RowAccounted(r)'
    BY <1>2, <1>3, <1>4, <1>7 DEF RowSound, RowAccounted
<1>9. QED
    BY <1>5, <1>6, <1>8 DEF IInv

\* A failed delivery may have reached the customer; it counts against the attempts.
LEMMA DeliveryFailsKeepsIInv ==
    ASSUME IInv, NEW w \in Workers, DeliveryFails(w)
    PROVE  IInv'
<1>0. PICK r : r = worker[w].cur
    OBVIOUS
<1>1. TypeOK /\ worker[w].pc = "send" /\ worker[w] # NoBatch /\ Advance(w)
    BY AtStep DEF IInv, DeliveryFails
<1>2. UNCHANGED <<appt, request, clock, delivered, torn>>
    BY DEF DeliveryFails
<1>3. /\ r \in Ids /\ r \in HeldBy(w) /\ queue[r] \in Reminder /\ RowSound(r)
      /\ queue[r].status = "failed" /\ queue[r].attempts <= MAX_ATTEMPTS
      /\ queue[r].attempts >= 1
      /\ delivered[r] \in Nat /\ lost[r] \in Nat
      /\ delivered[r] = 0 /\ delivered[r] + lost[r] < queue[r].attempts
      /\ worker[w].now \in Nat
    BY <1>0, <1>1, CurrentRow
<1>4. /\ queue' \in [Ids -> Reminder]
      /\ \A j \in Ids \ {r} : queue'[j] = queue[j]
      /\ queue'[r].attempts = queue[r].attempts
      /\ \/ queue'[r].status = "scheduled" /\ queue[r].attempts < MAX_ATTEMPTS
         \/ queue'[r].status = "failed" /\ ~(queue[r].attempts < MAX_ATTEMPTS)
         \/ queue'[r].status = "failed" /\ r \in orphaned'
      /\ orphaned \subseteq orphaned' /\ orphaned' \subseteq Ids
  <2> DEFINE row == Requeued(queue[r], worker[w].now)
  <2>1. Written(r, row)
      BY <1>0 DEF DeliveryFails
  <2>2. /\ row \in Reminder /\ row.attempts = queue[r].attempts
        /\ row.status = IF queue[r].attempts < MAX_ATTEMPTS THEN "scheduled" ELSE queue[r].status
      BY <1>3, RequeuedType
  <2> HIDE DEF row
  <2>3. QED
      BY <1>1, <1>3, <2>1, <2>2, WrittenRow
<1>5. PICK sent \in {0, 1} : lost' = [lost EXCEPT ![r] = @ + sent]
    BY <1>0 DEF DeliveryFails
<1>6. /\ lost' \in [Ids -> Nat]
      /\ \A j \in Ids \ {r} : lost'[j] = lost[j]
      /\ lost'[r] \in Nat /\ lost'[r] <= lost[r] + 1
    BY <1>1, <1>3, <1>5 DEF TypeOK
<1>7. /\ worker' \in [Workers -> WorkerState]
      /\ ClaimsApart' /\ ClaimsAreCounted'
      /\ \A j \in Ids \ {r} : RowSound(j)' /\ RowAccounted(j)'
      /\ ~(\E v \in Workers : r \in HeldBy(v)')
    BY <1>0, <1>1, <1>2, <1>4, <1>6, LetGo
<1>8. TypeOK'
    BY <1>1, <1>2, <1>4, <1>6, <1>7 DEF TypeOK
<1>9. ~Attempting(r)'
    BY <1>7 DEF Attempting
<1>10. delivered'[r] + lost'[r] <= queue'[r].attempts /\ delivered'[r] = 0
  <2>1. queue[r].attempts \in Nat
      BY <1>3 DEF Reminder
  <2>2. QED
      BY <1>2, <1>3, <1>4, <1>6, <2>1
<1>11. RowSound(r)' /\ RowAccounted(r)'
    BY <1>3, <1>4, <1>9, <1>10 DEF RowSound, RowAccounted
<1>12. QED
    BY <1>7, <1>8, <1>11 DEF IInv

\* What a killed worker had claimed is on record as orphaned.
LEMMA CrashKeepsIInv ==
    ASSUME IInv, NEW w \in Workers, CrashWorker(w)
    PROVE  IInv'
<1>1. TypeOK /\ ClaimsApart /\ ClaimsAreCounted /\ worker[w] # NoBatch
    BY DEF IInv, CrashWorker
<1>2. /\ UNCHANGED <<appt, queue, request, clock, delivered, lost, torn>>
      /\ orphaned' = orphaned \cup worker[w].batch \cup {worker[w].cur}
      /\ worker' = [worker EXCEPT ![w] = NoBatch]
    BY DEF CrashWorker
<1>3. HeldBy(w) = worker[w].batch \cup {worker[w].cur} /\ HeldBy(w) \subseteq Ids
    BY <1>1, WorkerType
<1>4. worker'[w] = NoBatch /\ \A v \in Workers \ {w} : worker'[v] = worker[v]
    BY <1>1, <1>2 DEF TypeOK
<1>5. HeldBy(w)' = {} /\ \A v \in Workers \ {w} : HeldBy(v)' = HeldBy(v)
    BY <1>4, OthersHold DEF HeldBy
<1>6. TypeOK'
    BY <1>1, <1>2, <1>3 DEF TypeOK, WorkerState
<1>7. ClaimsApart' /\ ClaimsAreCounted'
    BY <1>1, <1>2, <1>4, <1>5 DEF ClaimsApart, ClaimsAreCounted
<1>8. ASSUME NEW j \in Ids
      PROVE  RowSound(j)' /\ RowAccounted(j)'
  <2>1. RowSound(j) /\ RowAccounted(j)
      BY DEF IInv
  <2>2. Attempting(j)' => Attempting(j)
      BY <1>4, <1>5 DEF Attempting
  <2>3. RowSound(j)'
      BY <1>2, <2>1, <2>2 DEF RowSound
  <2>4. RowAccounted(j)'
      BY <1>2, <1>3, <1>5, <2>1 DEF RowAccounted
  <2>5. QED
      BY <2>3, <2>4
<1>9. QED
    BY <1>6, <1>7, <1>8 DEF IInv

-------------------------------------------------------------------------------
(* The theorems.                                                            *)

\* IInv is inductive.
LEMMA StepKeepsIInv == IInv /\ [Next]_vars => IInv'
<1> SUFFICES ASSUME IInv, [Next]_vars
             PROVE  IInv'
    OBVIOUS
<1>1. CASE UNCHANGED vars
  <2>1. TypeOK'
      BY <1>1 DEF vars, history, IInv, TypeOK
  <2>2. QED
      BY <1>1, <2>1, QueueUntouched DEF vars, history
<1>2. CASE Next
    BY <1>2, RequestBegins, OthersKeepIInv, ClearKeepsIInv, ScheduleKeepsIInv, ClaimKeepsIInv,
       LoadKeepsIInv, DeliverKeepsIInv, MarkSentKeepsIInv, DeliveryFailsKeepsIInv, CrashKeepsIInv
    DEF Next, WorkerStep
<1>3. QED
    BY <1>1, <1>2

\* Rows, requests and workers are always well typed; in particular no reminder is due
\* before the beginning of time.
THEOREM TypeCorrect == Spec => []TypeOK
<1>1. IInv => TypeOK
    BY DEF IInv
<1>2. QED
    BY <1>1, Initial, StepKeepsIInv, PTL DEF Spec

\* Cron runs may overlap, die between any two steps and lose their writes: a reminder
\* whose sending was confirmed is not sent again, and those whose confirmation was lost
\* are at most MAX_ATTEMPTS (claim_due_reminders counts the attempt and takes the row
\* before anything is sent).
THEOREM SentOnce == Spec => []NeverDoubleSent
<1>1. IInv => NeverDoubleSent
  <2> SUFFICES ASSUME IInv, NEW r \in Ids
               PROVE  delivered[r] <= 1 /\ delivered[r] + lost[r] <= MAX_ATTEMPTS
      BY DEF NeverDoubleSent
  <2>1. RowSound(r) /\ delivered[r] \in Nat /\ lost[r] \in Nat /\ queue[r].attempts \in Nat
      BY DEF IInv, TypeOK, Reminder
  <2>2. MAX_ATTEMPTS \in Nat
      BY ReminderAssumption
  <2>3. QED
      BY <2>1, <2>2 DEF RowSound
<1>2. QED
    BY <1>1, Initial, StepKeepsIInv, PTL DEF Spec

\* A row left failed with attempts to spare is being worked on, has no destination, or
\* was lost to a killed worker or a failed write: the loop itself drops none.
THEOREM NoneIsDropped == Spec => []OnlyCrashesLose
<1>1. IInv => OnlyCrashesLose
  <2> SUFFICES ASSUME IInv, NEW r \in Ids,
                      queue[r].status = "failed", queue[r].attempts < MAX_ATTEMPTS
               PROVE  \/ \E w \in Workers : worker[w] # NoBatch
                                            /\ r \in worker[w].batch \cup {worker[w].cur}
                      \/ queue[r].lastError = "undeliverable"
                      \/ r \in orphaned
      BY DEF OnlyCrashesLose
  <2>1. RowAccounted(r)
      BY DEF IInv
  <2>2. QED
      BY <2>1 DEF RowAccounted, HeldBy
<1>2. QED
    BY <1>1, Initial, StepKeepsIInv, PTL DEF Spec

-------------------------------------------------------------------------------
(* The reminders of an appointment and its start.                           *)

\* Only one request is in the middle of an appointment that is not torn.
Alone ==
    \A q1, q2 \in Requests :
        /\ request[q1] # NoRequest
        /\ request[q2] # NoRequest
        /\ request[q1].appt = request[q2].appt
        /\ request[q1].appt \notin torn
        => q1 = q2

\* A request is about to clear the queue of an appointment.
Clearing(a) ==
    \E q \in Requests :
        request[q] # NoRequest /\ request[q].pc = "clear" /\ request[q].appt = a

\* A first attempt is planned at a lead before the present start of an appointment that
\* is still on, or it is about to be cleared, or a clear was missed.
PlannedFor(r, a) ==
    queue[r].status = "scheduled" /\ queue[r].attempts = 0 /\ queue[r].appt = a =>
        \/ appt[a].phase \in {"live", "arrived"} /\ \E l \in Leads : queue[r].sendAt = appt[a].start - l
        \/ Clearing(a)
        \/ a \in torn

\* A request is about an appointment there is; one that still has to schedule has the
\* start of an appointment that is on, unless it was overtaken.
StillAsAsked(q) ==
    request[q] # NoRequest =>
        LET a == request[q].appt IN
        /\ appt[a].phase # "none"
        /\ a \notin torn /\ (request[q].pc = "schedule" \/ request[q].reschedule) =>
              /\ appt[a].phase \in {"live", "arrived"}
              /\ request[q].start = appt[a].start

FollowInv ==
    /\ Alone
    /\ \A r \in Ids, a \in Appts : PlannedFor(r, a)
    /\ \A q \in Requests : StillAsAsked(q)

\* What is not scheduled, or is a retry, is not about the start of an appointment.
LEMMA WorkersPlanNothing ==
    ASSUME IInv, NEW w \in Workers, WorkerStep(w) \/ CrashWorker(w), NEW r \in Ids
    PROVE  /\ UNCHANGED <<appt, request, torn>>
           /\ \/ queue'[r] = queue[r]
              \/ queue'[r].status # "scheduled"
              \/ queue'[r].attempts # 0
<1>1. TypeOK /\ queue[r] \in Reminder
    BY DEF IInv, TypeOK
<1>2. CASE Claim(w)
  <2>1. PICK B \in SUBSET Due(clock) :
            queue' = [i \in Ids |-> IF i \in B THEN Claimed(queue[i]) ELSE queue[i]]
      BY <1>2 DEF Claim
  <2>2. UNCHANGED <<appt, request, torn>>
      BY <1>2 DEF Claim, history
  <2>3. QED
      BY <1>1, <2>1, <2>2, ClaimedType
<1>3. CASE LoadAppointment(w)
  <2>1. worker[w].pc = "load" /\ UNCHANGED <<appt, request, torn>>
      BY <1>3 DEF LoadAppointment
  <2>2. queue[worker[w].cur].status = "failed"
      BY <2>1, CurrentRow
  <2>3. \/ queue' = [queue EXCEPT ![worker[w].cur] = [queue[worker[w].cur] EXCEPT !.status = "sent"]]
        \/ queue' = [queue EXCEPT ![worker[w].cur] =
                        [queue[worker[w].cur] EXCEPT !.lastError = "undeliverable"]]
        \/ queue' = queue
      BY <1>3 DEF LoadAppointment, Written, WriteLost
  <2>4. CASE r = worker[w].cur
      BY <1>1, <2>1, <2>2, <2>3, <2>4 DEF TypeOK, Reminder
  <2>5. CASE r # worker[w].cur
      BY <1>1, <2>1, <2>3, <2>5 DEF TypeOK
  <2>6. QED
      BY <2>4, <2>5
<1>4. CASE Deliver(w) \/ CrashWorker(w)
    BY <1>4 DEF Deliver, CrashWorker
<1>5. CASE MarkSent(w)
  <2>1. \/ queue' = [queue EXCEPT ![worker[w].cur] = [queue[worker[w].cur] EXCEPT !.status = "sent"]]
        \/ queue' = queue
      BY <1>5 DEF MarkSent, Written, WriteLost
  <2>2. CASE r = worker[w].cur
      BY <1>1, <1>5, <2>1, <2>2 DEF MarkSent, TypeOK, Reminder
  <2>3. CASE r # worker[w].cur
      BY <1>1, <1>5, <2>1, <2>3 DEF MarkSent, TypeOK
  <2>4. QED
      BY <2>2, <2>3
<1>6. CASE DeliveryFails(w)
  <2>1. worker[w].pc = "send" /\ UNCHANGED <<appt, request, torn>>
      BY <1>6 DEF DeliveryFails
  <2>2. queue[worker[w].cur].attempts >= 1 /\ worker[w].now \in Nat
      BY <2>1, CurrentRow
  <2>3. \/ queue' = [queue EXCEPT ![worker[w].cur] = Requeued(queue[worker[w].cur], worker[w].now)]
        \/ queue' = queue
      BY <1>6 DEF DeliveryFails, Written, WriteLost
  <2>4. CASE r = worker[w].cur
    <3>1. Requeued(queue[r], worker[w].now).attempts = queue[r].attempts
        BY <1>1, <2>2, RequeuedType
    <3>2. queue'[r].attempts = queue[r].attempts
        BY <1>1, <2>3, <2>4, <3>1 DEF TypeOK
    <3>3. QED
        BY <1>1, <2>1, <2>2, <2>4, <3>2 DEF Reminder
  <2>5. CASE r # worker[w].cur
      BY <1>1, <2>1, <2>3, <2>5 DEF TypeOK
  <2>6. QED
      BY <2>4, <2>5
<1>7. QED
    BY <1>2, <1>3, <1>4, <1>5, <1>6 DEF WorkerStep

\* The write that begins a request: what was planned for the old start is about to be
\* cleared.  If another request is in the middle of the appointment, it is torn.
LEMMA BeginningKeepsFollowInv ==
    ASSUME IInv, FollowInv, NEW q \in Requests, NEW a \in Appts,
           Book(q, a) \/ Reschedule(q, a) \/ Close(q, a)
    PROVE  FollowInv'
<1>1. /\ TypeOK /\ request[q] = NoRequest /\ queue' = queue
      /\ torn' = IF Overlapped(q, a) THEN torn \cup {a} ELSE torn
    BY DEF IInv, Book, Reschedule, Close, Begins
<1>2. PICK pc \in {"clear", "schedule"}, start \in Times, re \in BOOLEAN :
          /\ Go(q, pc, a, start, clock, re)
          /\ appt'[a].start = start
          /\ appt'[a].phase # "none"
          /\ pc = "schedule" => appt[a].phase = "none"
          /\ pc = "schedule" \/ re => appt'[a].phase = "live"
          /\ \A c \in Appts \ {a} : appt'[c] = appt[c]
  <2>1. CASE Book(q, a)
    <3>1. PICK start \in Times :
              /\ appt' = [appt EXCEPT ![a] = [phase |-> "live", start |-> start]]
              /\ Go(q, "schedule", a, start, clock, FALSE)
        BY <2>1 DEF Book
    <3>2. appt[a].phase = "none"
        BY <2>1 DEF Book
    <3>3. QED
        BY <1>1, <3>1, <3>2 DEF TypeOK
  <2>2. CASE Reschedule(q, a)
    <3>1. PICK start \in Times :
              /\ appt' = [appt EXCEPT ![a].start = start]
              /\ Go(q, "clear", a, start, clock, TRUE)
        BY <2>2 DEF Reschedule
    <3>2. appt[a].phase = "live"
        BY <2>2 DEF Reschedule
    <3>3. QED
        BY <1>1, <3>1, <3>2 DEF TypeOK
  <2>3. CASE Close(q, a)
    <3>1. appt' = [appt EXCEPT ![a].phase = "closed"] /\ Go(q, "clear", a, appt[a].start, clock, FALSE)
        BY <2>3 DEF Close
    <3>2. QED
        BY <1>1, <3>1 DEF TypeOK
  <2>4. QED
      BY <2>1, <2>2, <2>3
<1>3. /\ request'[q] = [pc |-> pc, appt |-> a, start |-> start, now |-> clock, reschedule |-> re]
      /\ request'[q] # NoRequest
      /\ \A p \in Requests \ {q} : request'[p] = request[p]
    BY <1>1, <1>2 DEF Go, TypeOK, NoRequest
<1>4. /\ torn \subseteq torn'
      /\ a \notin torn' => \A p \in Requests \ {q} : request'[p] # NoRequest => request'[p].appt # a
    BY <1>1, <1>3 DEF Overlapped
<1>5. \A c \in Appts : Clearing(c) => Clearing(c)'
    BY <1>1, <1>3 DEF Clearing
<1>6. ASSUME NEW r \in Ids, NEW c \in Appts
      PROVE  PlannedFor(r, c)'
  <2>1. PlannedFor(r, c)
      BY DEF FollowInv
  <2>2. CASE c # a
      BY <1>1, <1>2, <1>4, <1>5, <2>1, <2>2 DEF PlannedFor
  <2>3. CASE c = a /\ pc = "clear"
      BY <1>3, <2>3 DEF PlannedFor, Clearing
  <2>4. CASE c = a /\ pc = "schedule"
      BY <1>1, <1>2, <1>4, <1>5, <2>1, <2>4 DEF PlannedFor
  <2>5. QED
      BY <2>2, <2>3, <2>4
<1>7. ASSUME NEW p \in Requests
      PROVE  StillAsAsked(p)'
  <2>1. CASE p = q
      BY <1>2, <1>3, <2>1 DEF StillAsAsked
  <2>2. CASE p # q
    <3>1. SUFFICES ASSUME request'[p] # NoRequest
                   PROVE  StillAsAsked(p)'
        BY DEF StillAsAsked
    <3>2. request'[p] = request[p] /\ request[p].appt \in Appts
        BY <1>1, <1>3, <2>2, <3>1 DEF TypeOK, RequestState
    <3>3. StillAsAsked(p)
        BY DEF FollowInv
    <3>4. CASE request[p].appt = a
        BY <1>2, <1>4, <2>2, <3>1, <3>2, <3>4 DEF StillAsAsked
    <3>5. CASE request[p].appt # a
        BY <1>2, <1>4, <3>2, <3>3, <3>5 DEF StillAsAsked
    <3>6. QED
        BY <3>4, <3>5
  <2>3. QED
      BY <2>1, <2>2
<1>8. Alone'
  <2> SUFFICES ASSUME NEW q1 \in Requests, NEW q2 \in Requests,
                      request'[q1] # NoRequest, request'[q2] # NoRequest,
                      request'[q1].appt = request'[q2].appt, request'[q1].appt \notin torn',
                      q1 # q2
               PROVE  FALSE
      BY DEF Alone
  <2>1. CASE q1 = q \/ q2 = q
      BY <1>3, <1>4, <2>1
  <2>2. CASE q1 # q /\ q2 # q
      BY <1>3, <1>4, <2>2 DEF FollowInv, Alone
  <2>3. QED
      BY <2>1, <2>2
<1>9. QED
    BY <1>6, <1>7, <1>8 DEF FollowInv

\* An arrival changes neither the start nor whether the appointment is on.
LEMMA ArrivalKeepsFollowInv ==
    ASSUME IInv, FollowInv, NEW a \in Appts, Arrive(a)
    PROVE  FollowInv'
<1>1. /\ UNCHANGED <<queue, request, torn>>
      /\ \A c \in Appts : /\ appt'[c].start = appt[c].start
                          /\ appt[c].phase # "none" => appt'[c].phase # "none"
                          /\ appt[c].phase \in {"live", "arrived"} =>
                                appt'[c].phase \in {"live", "arrived"}
    BY DEF Arrive, history, IInv, TypeOK
<1>2. \A c : Clearing(c)' <=> Clearing(c)
    BY <1>1 DEF Clearing
<1>3. \A r \in Ids, c \in Appts : PlannedFor(r, c)'
    BY <1>1, <1>2 DEF FollowInv, PlannedFor
<1>4. \A q \in Requests : request[q] # NoRequest => request[q].appt \in Appts
    BY DEF IInv, TypeOK, RequestState
<1>5. \A q \in Requests : StillAsAsked(q)'
    BY <1>1, <1>4 DEF FollowInv, StillAsAsked
<1>6. Alone'
    BY <1>1 DEF FollowInv, Alone
<1>7. QED
    BY <1>3, <1>5, <1>6 DEF FollowInv

\* After cancelReminders no reminder of the appointment is scheduled, unless it failed.
LEMMA ClearKeepsFollowInv ==
    ASSUME IInv, FollowInv, NEW q \in Requests, ClearReminders(q)
    PROVE  FollowInv'
<1> DEFINE a == request[q].appt
<1>1. TypeOK /\ request[q].pc = "clear" /\ UNCHANGED appt
    BY DEF IInv, ClearReminders
<1>2. request[q] \in [pc : {"clear", "schedule"}, appt : Appts, start : Times,
                      now : Times, reschedule : BOOLEAN]
    BY <1>1, RequestType
<1>3. /\ \A p \in Requests \ {q} : request'[p] = request[p]
      /\ \/ request'[q] = NoRequest
         \/ /\ request[q].reschedule
            /\ request'[q] = [request[q] EXCEPT !.pc = "schedule"]
    BY <1>1 DEF ClearReminders, TypeOK
<1>4. \A c \in Appts \ {a} : Clearing(c) => Clearing(c)'
    BY <1>3 DEF Clearing
<1>5. /\ request[q] # NoRequest /\ a \in Appts
      /\ request'[q] # NoRequest => request'[q].appt = a /\ request'[q].start = request[q].start
    BY <1>2, <1>3 DEF NoRequest
<1>6. \/ /\ \A r \in Ids : queue'[r] = queue[r] \/ queue'[r].status = "cancelled"
         /\ \A r \in Ids : queue[r].status = "scheduled" /\ queue[r].appt = a =>
                               queue'[r].status = "cancelled"
         /\ \/ torn' = torn
            \/ Current(q) /\ ~ Overlapped(q, a) /\ torn' = torn \ {a}
      \/ queue' = queue /\ torn' = torn \cup {a}
  <2>1. \A r \in Ids : [queue[r] EXCEPT !.status = "cancelled"].status = "cancelled"
      BY <1>1 DEF TypeOK, Reminder
  <2>2. QED
      BY <2>1 DEF ClearReminders
<1>7. \A c : c # a => (c \in torn' <=> c \in torn)
    BY <1>6
<1> HIDE DEF a
<1>8. ASSUME NEW r \in Ids, NEW c \in Appts
      PROVE  PlannedFor(r, c)'
  <2>1. PlannedFor(r, c)
      BY DEF FollowInv
  <2>2. CASE c # a
      BY <1>1, <1>4, <1>6, <1>7, <2>1, <2>2 DEF PlannedFor
  <2>3. CASE c = a
      BY <1>6, <2>3 DEF PlannedFor
  <2>4. QED
      BY <2>2, <2>3
<1>9. ASSUME NEW p \in Requests
      PROVE  StillAsAsked(p)'
  <2>0. StillAsAsked(p) /\ StillAsAsked(q)
      BY DEF FollowInv
  <2>1. SUFFICES ASSUME request'[p] # NoRequest
                 PROVE  StillAsAsked(p)'
      BY DEF StillAsAsked
  <2>2. CASE p # q
    <3>1. request'[p] = request[p]
        BY <1>3, <2>2
    <3>2. CASE request[p].appt \in torn' \/ request[p].appt \notin torn
        BY <1>1, <2>0, <2>1, <3>1, <3>2 DEF StillAsAsked
    <3>3. CASE request[p].appt \notin torn' /\ request[p].appt \in torn
      <4>1. request[p].appt = a /\ ~ Overlapped(q, a)
          BY <1>6, <1>7, <3>3
      <4>2. QED
          BY <2>1, <2>2, <3>1, <4>1 DEF Overlapped
    <3>4. QED
        BY <3>2, <3>3
  <2>3. CASE p = q
    <3>1. appt[a].phase # "none"
        BY <1>5, <2>0 DEF StillAsAsked, a
    <3>2. request[q].reschedule
        BY <1>3, <2>1, <2>3
    <3>3. CASE a \in torn'
        BY <1>1, <1>5, <2>1, <2>3, <3>1, <3>3 DEF StillAsAsked
    <3>4. CASE a \notin torn' /\ a \notin torn
        BY <1>1, <1>5, <2>0, <2>1, <2>3, <3>2, <3>4 DEF StillAsAsked, a
    <3>5. CASE a \notin torn' /\ a \in torn
      <4>1. Current(q)
          BY <1>6, <3>5
      <4>2. appt[a].start = request[q].start /\ appt[a].phase \in {"live", "arrived"}
          BY <1>1, <1>5, <3>1, <3>2, <4>1 DEF Current, a, TypeOK, Phase
      <4>3. QED
          BY <1>1, <1>5, <2>1, <2>3, <4>2 DEF StillAsAsked
    <3>6. QED
        BY <3>3, <3>4, <3>5
  <2>4. QED
      BY <2>2, <2>3
<1>10. Alone'
  <2> SUFFICES ASSUME NEW q1 \in Requests, NEW q2 \in Requests,
                      request'[q1] # NoRequest, request'[q2] # NoRequest,
                      request'[q1].appt = request'[q2].appt, request'[q1].appt \notin torn',
                      q1 # q2
               PROVE  FALSE
      BY DEF Alone
  <2>1. \A p \in Requests : request'[p] # NoRequest =>
            request[p] # NoRequest /\ request'[p].appt = request[p].appt
      BY <1>3, <1>5 DEF a
  <2>2. request[q1].appt \in torn
      BY <2>1 DEF FollowInv, Alone
  <2>3. request[q1].appt = a /\ ~ Overlapped(q, a)
      BY <1>6, <1>7, <2>1, <2>2
  <2>4. QED
      BY <2>1, <2>3 DEF Overlapped
<1>11. QED
    BY <1>8, <1>9, <1>10 DEF FollowInv

\* What is inserted is for the start that the request wrote, which is still the start
\* unless the request was overtaken.
LEMMA ScheduleKeepsFollowInv ==
    ASSUME IInv, FollowInv, NEW q \in Requests, ScheduleReminders(q)
    PROVE  FollowInv'
<1>1. TypeOK /\ request[q].pc = "schedule" /\ UNCHANGED <<appt, torn>>
    BY DEF IInv, ScheduleReminders, history
<1>2. request'[q] = NoRequest /\ \A p \in Requests \ {q} : request'[p] = request[p]
    BY <1>1 DEF ScheduleReminders, TypeOK
<1>3. \A c \in Appts : Clearing(c) => Clearing(c)'
    BY <1>1, <1>2 DEF Clearing
<1>4. request[q] # NoRequest
    BY <1>1 DEF NoRequest
<1>5. request[q].appt \notin torn =>
          /\ appt[request[q].appt].phase \in {"live", "arrived"}
          /\ request[q].start = appt[request[q].appt].start
    BY <1>1, <1>4 DEF FollowInv, StillAsAsked
<1>6. ASSUME NEW r \in Ids, NEW c \in Appts
      PROVE  PlannedFor(r, c)'
  <2>1. PlannedFor(r, c)
      BY DEF FollowInv
  <2>2. CASE queue'[r] = queue[r]
      BY <1>1, <1>3, <2>1, <2>2 DEF PlannedFor
  <2>3. CASE /\ queue'[r].appt = request[q].appt
             /\ \E l \in Leads : queue'[r].sendAt = request[q].start - l
      BY <1>1, <1>5, <2>3 DEF PlannedFor
  <2>4. QED
      BY <1>1, <2>2, <2>3, Scheduled
<1>7. \A p \in Requests : StillAsAsked(p)'
    BY <1>1, <1>2 DEF FollowInv, StillAsAsked
<1>8. Alone'
    BY <1>1, <1>2 DEF FollowInv, Alone
<1>9. QED
    BY <1>6, <1>7, <1>8 DEF FollowInv

\* A request that dies before its clear leaves its appointment torn.
LEMMA CrashRequestKeepsFollowInv ==
    ASSUME IInv, FollowInv, NEW q \in Requests, CrashRequest(q)
    PROVE  FollowInv'
<1>1. /\ UNCHANGED <<appt, queue>> /\ torn \subseteq torn'
      /\ request[q].pc = "clear" => request[q].appt \in torn'
      /\ request'[q] = NoRequest /\ \A p \in Requests \ {q} : request'[p] = request[p]
    BY DEF IInv, TypeOK, CrashRequest
<1>2. \A c \in Appts : Clearing(c) => Clearing(c)' \/ c \in torn'
    BY <1>1 DEF Clearing
<1>3. \A r \in Ids, c \in Appts : PlannedFor(r, c)'
    BY <1>1, <1>2 DEF FollowInv, PlannedFor
<1>4. \A p \in Requests : StillAsAsked(p)'
    BY <1>1 DEF FollowInv, StillAsAsked
<1>5. Alone'
    BY <1>1 DEF FollowInv, Alone
<1>6. QED
    BY <1>3, <1>4, <1>5 DEF FollowInv

\* A worker, or the clock, changes no appointment and plans no first attempt.
LEMMA OthersKeepFollowInv ==
    ASSUME IInv, FollowInv,
           \/ \E w \in Workers : WorkerStep(w) \/ CrashWorker(w)
           \/ Tick
           \/ UNCHANGED vars
    PROVE  FollowInv'
<1>1. /\ UNCHANGED <<appt, request, torn>>
      /\ \A r \in Ids : \/ queue'[r] = queue[r]
                        \/ queue'[r].status # "scheduled"
                        \/ queue'[r].attempts # 0
  <2>1. CASE \E w \in Workers : WorkerStep(w) \/ CrashWorker(w)
    <3>1. PICK w \in Workers : WorkerStep(w) \/ CrashWorker(w)
        BY <2>1
    <3>2. \A r \in Ids : /\ UNCHANGED <<appt, request, torn>>
                         /\ \/ queue'[r] = queue[r]
                            \/ queue'[r].status # "scheduled"
                            \/ queue'[r].attempts # 0
        BY <3>1, WorkersPlanNothing, SMTT(30)
    <3>3. UNCHANGED <<appt, request, torn>>
        BY <3>1 DEF WorkerStep, Claim, LoadAppointment, Deliver, MarkSent, DeliveryFails,
                    CrashWorker, history
    <3>4. QED
        BY <3>2, <3>3
  <2>2. CASE Tick \/ UNCHANGED vars
      BY <2>2 DEF Tick, vars, history
  <2>3. QED
      BY <2>1, <2>2
<1>2. \A c : Clearing(c)' <=> Clearing(c)
    BY <1>1 DEF Clearing
<1>3. \A r \in Ids, c \in Appts : PlannedFor(r, c)'
    BY <1>1, <1>2 DEF FollowInv, PlannedFor
<1>4. \A q \in Requests : StillAsAsked(q)'
    BY <1>1 DEF FollowInv, StillAsAsked
<1>5. Alone'
    BY <1>1 DEF FollowInv, Alone
<1>6. QED
    BY <1>3, <1>4, <1>5 DEF FollowInv

LEMMA StepKeepsFollowInv == IInv /\ FollowInv /\ [Next]_vars => FollowInv'
<1> SUFFICES ASSUME IInv, FollowInv, [Next]_vars
             PROVE  FollowInv'
    OBVIOUS
<1>1. QED
    BY BeginningKeepsFollowInv, ArrivalKeepsFollowInv, ClearKeepsFollowInv,
       ScheduleKeepsFollowInv, CrashRequestKeepsFollowInv, OthersKeepFollowInv DEF Next

\* "Rescheduling cancels and re-enqueues", and cancelling clears, whatever the workers
\* claim, send and requeue in between and however the requests on one appointment
\* overlap: a reminder that waits for its first attempt when no request is at work on
\* its appointment is at a lead before the present start of an appointment that is on,
\* unless a clear failed, was never made, or was crossed by another request, and no
\* clear has put it right since.
THEOREM RemindersKeepUp == Spec => []RemindersFollowStart
<1>1. Init => FollowInv
  <2>1. Init => \A r \in Ids : queue[r].status = "none"
      BY DEF Init
  <2>2. QED
      BY <2>1 DEF Init, FollowInv, PlannedFor, StillAsAsked, Alone
<1>2. IInv /\ FollowInv => RemindersFollowStart
  <2> SUFFICES ASSUME IInv, FollowInv, NEW r \in Ids, NEW a \in Appts, a = queue[r].appt,
                      queue[r].status = "scheduled", queue[r].attempts = 0, a \notin torn,
                      \A q \in Requests : request[q] = NoRequest \/ request[q].appt # a
               PROVE  /\ appt[a].phase \in {"live", "arrived"}
                      /\ \E l \in Leads : queue[r].sendAt = appt[a].start - l
      BY DEF RemindersFollowStart, IInv, TypeOK, Reminder
  <2>1. PlannedFor(r, a)
      BY DEF FollowInv
  <2>2. QED
      BY <2>1 DEF PlannedFor, Clearing
<1>3. QED
    BY <1>1, <1>2, Initial, StepKeepsIInv, StepKeepsFollowInv, PTL DEF Spec
===============================================================================

\* Reminders: two overlapping cron runs, a booking that is moved and closed, and crashes.
\* The sweep: the cron against one request, batches of two rows, three rows of two
\* businesses, of which one opted in.
SPECIFICATION MCSpec
CONSTANTS
    Appts = {a1}
    Requests = {q1}
    Workers = {w1, w2}
    Leads = {1, 2}
    MAX_ATTEMPTS = 2
    Backoff = 1
    BatchSize = 2
    MaxReminders = 2
    MaxTime = 3
    CanCrash = TRUE
    v1 = v1
    v2 = v2
    s1 = s1
    s2 = s2
    b1 = b1
    b2 = b2
    NoSlot = NoSlot
    NoConv = NoConv
    Clerks = {c1}
    Sweepers = {cron}
    SweepBatch = 2
    MaxRows = 3
    SweepMaxTime = 3
INVARIANTS
    NeverDoubleSent
    OnlyCrashesLose
    RemindersFollowStart
PROPERTIES
    QueueDrains
    OverdueIsClosed
CHECK_DEADLOCK FALSE

\* Two requests and the cron, interleaved at every await; one handler that does all of
\* it, one operation at a time, with one row and two hours more; and three turns of a chat
\* with two acts of others in and between them.
SPECIFICATION MCSpec
CONSTANTS
    v1 = v1
    v2 = v2
    s1 = s1
    s2 = s2
    b1 = b1
    b2 = b2
    None = None
    Scopes = {"overlapping", "serial", "chat"}
    Clerks = {c1, c2}
    Sweepers = {cron}
    SerialClerks = {c0}
    Convs = {v1, v2}
    Staff = {s1, s2}
    Tenants = {b1, b2}
    TenantOf <- MCTenantOf
    Slots <- Contended
    NoSlot = NoSlot
    NoConv = NoConv
    OptedIn = {b1}
    Grace <- MCGrace
    MinNotice = 0
    BatchSize = 2
    CanCrash = TRUE
    MaxRows = 2
    MaxTime = 2
    SerialSlots <- MCSerialSlots
    SerialGrace <- MCSerialGrace
    SerialRows = 3
    SerialTime = 4
    Times <- ChatTimes
    Messages <- ChatMessages
    Details = {"details"}
    SLOT_LIMIT = 3
    Alternatives = 2
    MaxTurns = 3
    MaxOutsiders = 2
INVARIANTS
    TypeOK
    NoDoubleBooking
    OneActiveSerially
    OutcomeWasTrue
PROPERTIES
    SerialImplementsLifecycle
    BookedHourWasAgreed
SYMMETRY Symmetry
\* A chat ends after its last turn.
CHECK_DEADLOCK FALSE

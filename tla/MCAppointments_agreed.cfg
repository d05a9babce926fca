\* A chat alone: an agreed time is taken, and the next turn books another.
SPECIFICATION MCSpec
CONSTANTS
    v1 = v1
    v2 = v2
    s1 = s1
    s2 = s2
    b1 = b1
    b2 = b2
    None = None
    Scopes = {"chat"}
    Clerks = {c1, c2}
    Sweepers = {cron}
    SerialClerks = {c0}
    Convs = {v1, v2}
    Staff = {s1, s2}
    Tenants = {b1, b2}
    TenantOf <- MCTenantOf
    Slots <- Contended
    NoSlot = NoSlot
    NoConv = NoConv
    OptedIn = {b1}
    Grace <- MCGrace
    MinNotice = 0
    BatchSize = 2
    CanCrash = TRUE
    MaxRows = 2
    MaxTime = 2
    SerialSlots <- MCSerialSlots
    SerialGrace <- MCSerialGrace
    SerialRows = 3
    SerialTime = 4
    Times <- ChatTimes
    Messages <- ChatMessages
    Details = {"details"}
    SLOT_LIMIT = 3
    Alternatives = 2
    MaxTurns = 3
    MaxOutsiders = 2
PROPERTIES
    BookedSlotWasAgreed
CHECK_DEADLOCK FALSE

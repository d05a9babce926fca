\* The qualification call alone.
SPECIFICATION MCSpec
CONSTANTS
    Scopes = {"sales"}
    MaxTurns = 1
    MaxToolRounds = 0
    MaxErrors = 0
    ToolRounds = 0
    MaxSentences = 1
    MaxCalls = 1
    Order <- SalesOrder
    Schema <- SalesSchema
    MaxUnresolved = 2
    Utterances <- SalesUtterances
    Known <- SalesKnown
    VisitSlots = {t1, t2}
    MaxAttempts = 2
    Patience = 3
    Emails = {e1}
    Phones = {p1}
    NoContact = NoContact
    MaxEvents = 0
    ModelCalls = {r1}
    MaxWait = 1
    Timeout = 2
    BillingWait = 9
    RetryAfters = {0}
    MaxDeltas = 1
    MaxClock = 2
    MaxChunks = 3
    MaxFrames = 4
    MaxEnds = 2
    MaxBuffered = 3
    MaxPending = 2
INVARIANTS
    DroppedIsAskedAgain
CHECK_DEADLOCK FALSE

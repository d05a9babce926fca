\* Two utterances, so that one may extend or follow the other; one round of tools and one
\* failing statement.  The streamed reply: two rounds of tools, five calls of the model.
\* The qualification call: two questions, two visits to choose from, a question asked for
\* as often as it allows.  The CRM: four events about an email and a phone.  The providers:
\* two calls of three models, of which two share a provider; a line of three pieces of
\* audio; four frames of speech, three of which are kept.
SPECIFICATION MCSpec
CONSTANTS
    Scopes = {"call", "reply", "sales", "crm", "model", "line", "hearing"}
    MaxTurns = 2
    MaxToolRounds = 1
    MaxErrors = 1
    ToolRounds = 2
    MaxSentences = 2
    MaxCalls = 5
    Order <- SalesOrder
    Schema <- SalesSchema
    MaxUnresolved = 2
    Utterances <- SalesUtterances
    Known <- SalesKnown
    VisitSlots = {t1, t2}
    MaxAttempts = 2
    Patience = 2
    Emails = {e1}
    Phones = {p1}
    NoContact = NoContact
    MaxEvents = 4
    ModelCalls = {r1, r2}
    MaxWait = 1
    Timeout = 2
    BillingWait = 9
    RetryAfters = {0}
    MaxDeltas = 1
    MaxClock = 2
    MaxChunks = 3
    MaxFrames = 4
    MaxEnds = 2
    MaxBuffered = 3
    MaxPending = 2
INVARIANTS
    CancelledPersistsNothing
    ConversationIsOnRecord
    HeardIsTheReply
    CriticalIsReadBack
    VisitIsAsTold
    MergeLosesNothing
    AllIsHeard
PROPERTIES
    UtterancesKeepConfirmed
    FailoverIsOneSource
SYMMETRY Symmetry
\* A closed session is not used again.
CHECK_DEADLOCK FALSE

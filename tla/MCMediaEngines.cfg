\* Sessions: two utterances, one reprompt, one reconnection; a second failed turn ends the
\* call.  The worker: two lines, the second of which may not be interrupted.  The widget: both
\* of its speech providers, two silent listens, one retry, two messages.
SPECIFICATION MCSpec
CONSTANTS
    Utterances = {1, 2}
    MaxReprompts = 1
    MaxFailures = 2
    MaxSttReconnects = 1
    MaxLines = 2
    Chunks = 1
    Uninterruptible = {2}
    Providers = {"halo", "browser"}
    MaxSilent = 2
    MaxRetries = 1
    MaxMessages = 2
INVARIANTS
    WordsAccounted
    NoDeadAir
    MicHasOneUse
    SilencedStaysSilent
PROPERTIES
    DeliveryIsFinal
    EnginesImplementInterface
    SessionsEnd
    EveryLineIsReported
\* An ended session is not used again.
CHECK_DEADLOCK FALSE

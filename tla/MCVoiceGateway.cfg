\* Two gateways, a lost socket, one callback, one failure.
SPECIFICATION FairSpec
\* Gateways that have all shut down admit nothing.
CHECK_DEADLOCK FALSE
CONSTANTS
    Gateways = {g1, g2}
    NoEntry = NoEntry
    EndStates = {"failed"}
    FinalStatus = {"completed"}
    MaxDrops = 1
    MaxCallbacks = 1
    MaxFailures = 1
INVARIANTS
    OneSessionPerCall
PROPERTIES
    ImplementsCallLifecycle
    EverySessionHasOutcome

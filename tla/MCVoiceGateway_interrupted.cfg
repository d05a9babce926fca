\* One gateway: a lost socket, and the carrier's report that the call is over.
SPECIFICATION Spec
CHECK_DEADLOCK FALSE
CONSTANTS
    Gateways = {g1}
    NoEntry = NoEntry
    EndStates = {"failed"}
    FinalStatus = {"completed"}
    MaxDrops = 1
    MaxCallbacks = 1
    MaxFailures = 0
INVARIANTS
    InterruptedProceeds

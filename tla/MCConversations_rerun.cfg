\* One utterance is extended by another after its turn was given up.
SPECIFICATION Spec
CONSTANTS
    MaxTurns = 2
    MaxToolRounds = 1
    MaxErrors = 0
INVARIANTS
    ActionsRunOnce
CHECK_DEADLOCK FALSE

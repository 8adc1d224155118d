\* Two rounds with tools and one without, answers of up to two choices.
SPECIFICATION Spec
CONSTANTS
    Operation <- Requests
    GetRequest <- Gets
    Attempts = 2
    RLAttempts = 3
    MaxToolIterations = 2
    MaxChoices = 2
INVARIANTS TypeOK AtMostOnce BudgetsSeparate EveryCallAnswered
PROPERTIES TurnEnds
\* A turn that ended does nothing more.
CHECK_DEADLOCK FALSE

CONSTANTS
    User = {u1, u2}
    NoUser = NoUser
    Tab = {t1, t2}
    Runtime = {r1, r2}
    Refreshing = {"none", "keeps", "rotates"}
    MaxSessions = 3
    MaxTokens = 3
SPECIFICATION Spec
SYMMETRY Interchangeable
INVARIANTS DeletedStaysDeleted 
PROPERTIES LoginRotatesId
\* Session ids and tokens may be used up.
CHECK_DEADLOCK FALSE

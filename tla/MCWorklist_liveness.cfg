SPECIFICATION Spec
CONSTANTS
    Strays = FALSE
    Overlap = FALSE
    Calls <- Reviewer
    Changes = {"closed"}
    MaxLive = 2
    MaxTime = 2
    MaxEvents = 2
PROPERTIES PendingTurnAnswered  ResearchCatchesUp

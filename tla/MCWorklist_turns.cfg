SPECIFICATION Spec
CONSTANTS
    Strays = FALSE
    Overlap = FALSE
    Calls <- Poster
    Changes = {}
    MaxLive = 2
    MaxTime = 2
    MaxEvents = 2
PROPERTIES NoTurnLost

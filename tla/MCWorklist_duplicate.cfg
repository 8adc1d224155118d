SPECIFICATION SafetySpec
CONSTANTS
    Strays = TRUE
    Overlap = FALSE
    Calls <- Poster
    Changes = {}
    MaxLive = 2
    MaxTime = 2
    MaxEvents = 2
INVARIANTS AnsweredOnce

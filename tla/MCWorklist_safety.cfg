SPECIFICATION SafetySpec
CONSTANTS
    Overlap = FALSE
    Strays = TRUE
    Calls <- Discusser
    Changes = {"dropped"}
    MaxLive = 2
    MaxTime = 2
    MaxEvents = 3
INVARIANTS TypeOK ThreadInOrder AnsweredOnceByLiveJobs
PROPERTIES ThreadKept  HiddenUntilNews 

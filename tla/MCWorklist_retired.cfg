SPECIFICATION SafetySpec
CONSTANTS
    Strays = FALSE
    Overlap = FALSE
    Calls = {"post"}
    Changes = {"closed"}
    MaxLive = 2
    MaxTime = 2
    MaxEvents = 2
PROPERTIES RevivedByIngestOnly

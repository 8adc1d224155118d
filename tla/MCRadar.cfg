SPECIFICATION Spec
CONSTANTS
    Me = me
    Others = {ann}
    Nobody = nobody
    MaxFileBytes = 4
    MaxRune = 3
    NoProposal = NoProposal
    NoResearch = NoResearch
    Facts <- ItemFacts
    Proposals <- ModelProposals
    Researches <- ModelResearches
    Ranks = {100, 400, 500}
    MaxEvents = 3
    MaxDay = 5
    MaxText = 8
    MaxRows = 3
INVARIANTS CourtIsRight PagesCover OneOrder
PROPERTIES RankHolds
\* What was read, or put in order, stays so.
CHECK_DEADLOCK FALSE

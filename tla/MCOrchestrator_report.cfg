\* Violated: a report handled before registerCompletion.
SPECIFICATION SafetySpec
CONSTANTS
    User = {u1}
    Item = {i1}
    NoItem = NoItem
    NoKey = NoKey
    PerItemType = {"converse", "research"}
    Worker = {w1}
    QueueDepth = 1
    Launchers = {"detached"}
    MaxPasses = 1
    MaxItemCalls = 1
    MaxJobs = 3
INVARIANT ReportDecides
CHECK_DEADLOCK FALSE

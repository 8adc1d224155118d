\* One outside request and the stages it chains; liveness, so no symmetry.
SPECIFICATION Spec
CONSTANTS
    User = {u1}
    Item = {i1}
    NoItem = NoItem
    NoKey = NoKey
    PerItemType = {"converse", "research"}
    Worker = {w1}
    QueueDepth = 1
    Launchers = {"blocking", "watched", "detached"}
    MaxPasses = 1
    MaxItemCalls = 1
    MaxJobs = 4
PROPERTIES PromiseKept StopCompletes
CHECK_DEADLOCK FALSE

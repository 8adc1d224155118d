\* Two passes and one per-item call, with the stages they chain, as far as three
\* records reach; a queue of one and two workers.  Converse stands for both per-item types.
SPECIFICATION SafetySpec
CONSTANTS
    User = {u1}
    Item = {i1}
    NoItem = NoItem
    NoKey = NoKey
    PerItemType = {"converse"}
    Worker = {w1, w2}
    QueueDepth = 1
    Launchers = {"blocking", "watched", "detached"}
    MaxPasses = 2
    MaxItemCalls = 1
    MaxJobs = 3
SYMMETRY WorkerSymmetry
INVARIANTS TypeOK OneLivePerKey InflightIsLive Custody Bookkeeping StagesInOrder StoppedIsQuiet
PROPERTIES ContractKept NoSendAfterClose PromiseUnbroken
\* Every caller may have fallen silent.
CHECK_DEADLOCK FALSE

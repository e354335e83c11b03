SPECIFICATION ReplicatedSpec
CONSTANTS
    NodeHostTTL = 1
    ShardIds = {"s1"}
    ReplicaIds = {1}
    Hosts = {"h1"}
    TickIntervalSecond = 1
    LaunchDeadlineTick = 1
    Regions = {"default"}
    MaxTick = 3
    History <- MCHistory
    PlogIncluded = {TRUE}
    Batches <- MCBatches
    KVUpdates <- MCKVUpdates
    Reports <- MCReports
    MaxEntries = 4
    MaxCrashes = 1
INVARIANTS
    ReplicasAgree
PROPERTIES
    CatchesUp
CHECK_DEADLOCK FALSE

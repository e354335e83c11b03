SPECIFICATION Spec
CONSTANTS
    one = one
    two = two
    NodeHostTTL = 1
    ShardIds = {"s1"}
    ReplicaIds = {1, 2}
    Hosts = {"h1", "h2"}
    TickIntervalSecond = 1
    LaunchDeadlineTick = 1
    Regions = {"default"}
    MaxTick = 2
    History <- MCHistory
    PlogIncluded = {TRUE}
    Batches <- MCBatches
    KVUpdates <- MCKVUpdates
INVARIANTS
    TypeOK
    TicksNotInFuture
    ImageFollowsHistory
    NeverPanics
    AtMostOneLeader
    KilledAreRemoved
    FailsOnlyAtLaunch
    ShardsAreCallable
PROPERTIES
    FinalizedIsFinal
    OrdersMoveByReport
    ImageMovesForward
SYMMETRY Symmetry
CHECK_DEADLOCK FALSE

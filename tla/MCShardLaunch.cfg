SPECIFICATION Spec
CONSTANTS
    h1 = h1
    h2 = h2
    d1 = d1
    d2 = d2
    NodeHostTTL = 1
    ShardIds = {"s1"}
    ReplicaIds = {1, 2}
    Hosts = {h1, h2}
    TickIntervalSecond = 1
    LaunchDeadlineTick = 1
    Drummers = {d1, d2}
    UserShards <- MCUserShards
    UserRegions <- MCUserRegions
    Region <- MCRegion
    MinNodeHosts = 2
    SlowHosts = {h1}
    TimelyHosts = {}
    FragileHosts = {h1}
    PlogIncluded = {TRUE}
    MaxTick = 1
    MaxConfigs = 1
    MaxCrashes = 1
    MaxReports = 2
    MaxQueue = 2
    MaxPasses = 3
INVARIANTS
    LaunchedFromOnePlan
    PanicsOnlyUnprepared
    LaunchedAtMostOnce
SYMMETRY Symmetry
CHECK_DEADLOCK FALSE

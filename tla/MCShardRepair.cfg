SPECIFICATION SpecLaunched
CONSTANTS
    d1 = d1
    d2 = d2
    NodeHostTTL = 1
    ShardIds = {"s1"}
    ReplicaIds = {1, 2, 3, 4, 5, 6}
    Hosts = {"h1", "h2", "h3", "h4"}
    TickIntervalSecond = 1
    LaunchDeadlineTick = 1
    Drummers = {d1, d2}
    UserShards <- MCUserShards
    UserRegions <- MCUserRegions
    Region <- MCRegion
    MinNodeHosts = 3
    SlowHosts = {}
    TimelyHosts = {"h1", "h2", "h4"}
    FragileHosts = {}
    PlogIncluded = {TRUE}
    MaxTick = 3
    MaxConfigs = 3
    MaxCrashes = 0
    MaxReports = 1
    MaxQueue = 1
    MaxPasses = 4
INVARIANTS
    MembershipSize
    OneReplicaPerHost
    ImageIsCommitted
    KillsOnlyRemoved
SYMMETRY Symmetry
CHECK_DEADLOCK FALSE

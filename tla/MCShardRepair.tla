---------------------------- MODULE MCShardRepair ----------------------------
(* The repair of one launched shard of three replicas, with a fourth        *)
(* NodeHost to move to, by two Drummers that both act as the leader.  The   *)
(* run starts in the state that a launch ends in when every NodeHost has    *)
(* reported at tick 1.                                                      *)
EXTENDS ShardCluster

CONSTANTS d1, d2

\* Drummers are interchangeable: nothing orders them.
Symmetry == Permutations(Drummers)

MCUserShards  == [s \in ShardIds |-> <<1, 2, 3>>]
MCUserRegions == <<[region |-> "default", count |-> 3]>>
MCRegion      == [h \in Hosts |-> "default"]

Home == 1 :> "h1" @@ 2 :> "h2" @@ 3 :> "h3"
HomeOf(h) == IF \E i \in DOMAIN Home : Home[i] = h
               THEN CHOOSE i \in DOMAIN Home : Home[i] = h ELSE NoReplica

InitLaunched ==
    /\ tick = 1
    /\ launchDeadline = 0
    /\ failed = FALSE
    /\ panicked = FALSE
    /\ shards = MCUserShards
    /\ kvMap = (LaunchedKey     :> KVRecord(FinalKV(LaunchedKey, "true"))
             @@ BootstrappedKey :> KVRecord(FinalKV(BootstrappedKey, "true"))
             @@ RegionsKey      :> KVRecord(FinalKV(RegionsKey, UserRegions)))
    /\ shardImage = [s \in ShardIds |->
          [ccid |-> 1,
           replicas |-> [i \in DOMAIN Home |->
              [addr |-> Home[i], leader |-> FALSE, tick |-> 1, first |-> 1]]]]
    /\ replicasToKill = {}
    /\ nodeHostImage = [h \in Hosts |->
          [region |-> Region[h], tick |-> 1,
           log    |-> IF HomeOf(h) = NoReplica THEN {} ELSE ShardIds \X {HomeOf(h)},
           shards |-> IF HomeOf(h) = NoReplica THEN {} ELSE ShardIds]]
    /\ requests = [h \in Hosts |-> <<>>]
    /\ outgoing = [h \in Hosts |-> <<>>]
    /\ conf = [s \in ShardIds |-> <<Home>>]
    /\ applied = [s \in ShardIds |-> [i \in ReplicaIds |-> IF i \in DOMAIN Home THEN 1 ELSE 0]]
    /\ replica = [h \in Hosts |-> [s \in ShardIds |-> HomeOf(h)]]
    /\ disk = [h \in Hosts |-> IF HomeOf(h) = NoReplica THEN {} ELSE ShardIds \X {HomeOf(h)}]
    /\ up = [h \in Hosts |-> TRUE]
    /\ queue = [h \in Hosts |-> [s \in ShardIds |-> <<>>]]
    /\ changes = {}
    /\ reports = {}
    /\ phase = [h \in Hosts |-> "idle"]
    /\ batch = [d \in Drummers |-> NoBatch]
    /\ crashes = 0
    /\ passes = 0
    /\ hostPanic = FALSE

SpecLaunched == InitLaunched /\ [][Next]_clusterVars
=============================================================================

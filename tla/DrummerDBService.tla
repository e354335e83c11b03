-------------------------- MODULE DrummerDBService --------------------------
(***************************************************************************)
(* The Drummer DB serving the rest of the system: its log holds any        *)
(* interleaving of clock ticks, reports of NodeHosts, orders of            *)
(* schedulers, KV records and requests for new shards.  Reports may be     *)
(* arbitrarily old, repeated or missing.                                   *)
(*                                                                         *)
(* What the raft groups of the shards did is the constant History: for     *)
(* each shard the sequence of its memberships, in the order in which raft  *)
(* committed them; the position in it is the ConfigChangeIndex.  A report  *)
(* shows a membership of that history.  The module ShardCluster has the    *)
(* groups, the NodeHosts and the schedulers as actors instead.             *)
(***************************************************************************)
EXTENDS DrummerDB

CONSTANTS Regions,
          History,      \* shard :> Seq(replica id :> address)
          Batches,      \* the sets of orders that a scheduler may submit
          KVUpdates,    \* the KV updates that servers may submit
          PlogIncluded, \* whether reports carry a list of logs
          MaxTick       \* bound of the model: the clock stops there

Memberships == UNION {[I -> Hosts] : I \in (SUBSET ReplicaIds) \ {{}}}

Members(s, c) == DOMAIN History[s][c]

Configs(s) == DOMAIN History[s]

(* What raft guarantees of the memberships of one group: a replica id keeps *)
(* its address, no two members share one, and an id once removed is never   *)
(* used again (new ids are random 64 bit numbers).                          *)
ASSUME HistoryAssumption ==
    /\ DOMAIN History = ShardIds
    /\ \A s \in ShardIds :
        /\ History[s] \in Seq(Memberships) /\ History[s] # <<>>
        /\ \A c \in Configs(s) :
            \A i, j \in Members(s, c) :
                i # j => History[s][c][i] # History[s][c][j]
        /\ \A c, d \in Configs(s) : \A i \in Members(s, c) \cap Members(s, d) :
              /\ History[s][c][i] = History[s][d][i]
              /\ \A e \in c..d : i \in Members(s, e)

(* The launched flag is the DB's own; a scheduler's pass either launches or *)
(* maintains, and addresses its orders to NodeHosts that reported.          *)
ASSUME ClientAssumption ==
    /\ \A kv \in KVUpdates : kv.key # LaunchedKey
    /\ \A reqs \in Batches : ~MixedRequests(reqs)

-----------------------------------------------------------------------------
(* What a NodeHost may report of a shard: GetNodeHostInfo as the client     *)
(* trims it (client/nodehost.go).                                           *)

\* A replica runs if it is one of the first members, or if the DB, whose
\* image a CREATE order is made from, has seen it in the membership.
Started(s, i) ==
    \/ i \in Members(s, 1)
    \/ /\ s \in DOMAIN shardImage
       /\ \E c \in 1..shardImage[s].ccid : i \in Members(s, c)

PendingInfo(i) ==
    [replica |-> i, ccid |-> 0, replicas |-> EmptyMap, leader |-> FALSE,
     pending |-> TRUE, incomplete |-> FALSE]

CompleteInfo(s, i, c, l) ==
    [replica |-> i, ccid |-> c, replicas |-> History[s][c], leader |-> l,
     pending |-> FALSE, incomplete |-> FALSE]

\* The membership is left out when the DB was seen to know it already.
IncompleteInfo(i, c, l) ==
    [replica |-> i, ccid |-> c, replicas |-> EmptyMap, leader |-> l,
     pending |-> FALSE, incomplete |-> TRUE]

HostedReplicas(h, s) ==
    {i \in ReplicaIds : /\ Started(s, i)
                        /\ \E c \in Configs(s) : /\ i \in Members(s, c)
                                                 /\ History[s][c][i] = h}

KnownConfigs(s) ==
    {c \in Configs(s) : s \in DOMAIN shardImage /\ c <= shardImage[s].ccid}

ShardInfos(h, s) ==
    LET hosted == HostedReplicas(h, s)
    IN  {PendingInfo(i) : i \in hosted}
        \cup {CompleteInfo(s, i, c, l) :
                i \in hosted, c \in Configs(s), l \in BOOLEAN}
        \cup {IncompleteInfo(i, c, l) :
                i \in hosted, c \in KnownConfigs(s), l \in BOOLEAN}

-----------------------------------------------------------------------------
Tick == tick < MaxTick /\ ApplyTickUpdate

\* The log list, when it is sent, has at least the replicas that run.
Report(h) ==
    \E S \in SUBSET ShardIds, region \in Regions, included \in PlogIncluded :
        \E info \in [S -> UNION {ShardInfos(h, s) : s \in S}] :
            /\ \A s \in S : info[s] \in ShardInfos(h, s)
            /\ ApplyNodeHostInfoUpdate(
                  [addr |-> h, region |-> region, info |-> info,
                   plogIncluded |-> included,
                   plog |-> {<<s, info[s].replica>> : s \in S}])

Order == \E reqs \in Batches : ApplyRequestsUpdate(reqs)

Put == \E kv \in KVUpdates : ApplyKVUpdate(kv)

Create == \E s \in ShardIds : TryCreateShard(s, Members(s, 1))

NextDB ==
    \/ Tick
    \/ \E h \in Hosts : Report(h)
    \/ Order
    \/ Put
    \/ Create

Spec == Init_DB /\ [][NextDB]_dbVars

-----------------------------------------------------------------------------
ReplicaRecords == [addr : Hosts, leader : BOOLEAN, tick : Nat, first : Nat]

IsShardRecord(c) ==
    /\ c = [ccid |-> c.ccid, replicas |-> c.replicas]
    /\ c.ccid \in Nat
    /\ DOMAIN c.replicas \subseteq ReplicaIds
    /\ c.replicas \in [DOMAIN c.replicas -> ReplicaRecords]

HostRecords ==
    [region : Regions, tick : Nat, log : SUBSET (ShardIds \X ReplicaIds),
     shards : SUBSET ShardIds]

(* The types of the DB's fields. *)
TypeOK ==
    /\ tick \in Nat
    /\ launchDeadline \in Nat
    /\ failed \in BOOLEAN
    /\ panicked \in BOOLEAN
    /\ DOMAIN shards \subseteq ShardIds
    /\ DOMAIN shardImage \subseteq ShardIds
    /\ \A s \in DOMAIN shardImage : IsShardRecord(shardImage[s])
    /\ replicasToKill \subseteq [shard : ShardIds, replica : ReplicaIds, addr : Hosts]
    /\ DOMAIN nodeHostImage \subseteq Hosts
    /\ \A h \in DOMAIN nodeHostImage : nodeHostImage[h] \in HostRecords
    /\ DOMAIN requests = Hosts
    /\ DOMAIN outgoing = Hosts

(* Every clock reading in the images is one the DB clock has had, so the    *)
(* uint64 subtractions of EntityFailed (shardimage.go:149) and of the live  *)
(* filter (filter.go:51) never wrap around.                                 *)
TicksNotInFuture ==
    /\ \A s \in DOMAIN shardImage : \A i \in DOMAIN shardImage[s].replicas :
          /\ shardImage[s].replicas[i].tick <= tick
          /\ shardImage[s].replicas[i].first <= tick
    /\ \A h \in DOMAIN nodeHostImage : nodeHostImage[h].tick <= tick

(* However old or repeated the reports, the image of a shard is exactly one *)
(* membership its raft group had: that of the index it is filed under.      *)
ImageFollowsHistory ==
    \A s \in DOMAIN shardImage :
        /\ shardImage[s].ccid \in Configs(s)
        /\ Addresses(shardImage[s]) = History[s][shardImage[s].ccid]

(* The consistency checks of syncShard and applyRequestsUpdate, whose       *)
(* panic would take down every Drummer server, hold.                        *)
NeverPanics == ~panicked

(* At most one replica of a shard is marked as its leader, though the marks *)
(* come from different NodeHosts' reports in any order (syncLeaderInfo).    *)
AtMostOneLeader ==
    \A s \in DOMAIN shardImage :
        \A i, j \in DOMAIN shardImage[s].replicas :
            /\ shardImage[s].replicas[i].leader
            /\ shardImage[s].replicas[j].leader
            => i = j

(* A replica is put on the list to be killed only once raft has removed it  *)
(* for good: no membership from the image's on has it.                      *)
KilledAreRemoved ==
    \A k \in replicasToKill :
        /\ k.shard \in DOMAIN shardImage
        /\ \A c \in Configs(k.shard) :
              c >= shardImage[k.shard].ccid => k.replica \notin Members(k.shard, c)

(* Users who are told that a shard is OK can call most of its replicas, and *)
(* the one they are told is the leader: those addresses come from another   *)
(* image than the rest of the answer, and the callers of GetShardStates     *)
(* index into them (server.go:252, lcm/manager.go:366).                     *)
ShardsAreCallable ==
    \A s \in DOMAIN shardImage :
        LET state == ShardState(s)
        IN  /\ DOMAIN state.replicas # {}
            /\ state.leaders \subseteq state.callable
            /\ state.ok => 2 * Cardinality(state.callable)
                              > Cardinality(DOMAIN state.replicas)

(* The DB gives the whole deployment up only while it waits for launched    *)
(* shards to report, later than promised.                                   *)
FailsOnlyAtLaunch ==
    failed => Launched /\ launchDeadline > 0 /\ tick > launchDeadline

(* What finalized records promise: the flags that gate bootstrap and launch *)
(* and the regions never change once written, whoever writes again.         *)
FinalizedIsFinal ==
    [][\A k \in DOMAIN kvMap :
          kvMap[k].finalized => k \in DOMAIN kvMap' /\ kvMap'[k] = kvMap[k]]_dbVars

(* The launch deadline is armed once in the life of a deployment, with the  *)
(* launched flag, and after that it can only be called off: a launch batch  *)
(* that a second leader computed before the first was applied is ignored.   *)
LaunchedOnce ==
    [][launchDeadline' # launchDeadline =>
          \/ ~Launched /\ Launched'
          \/ launchDeadline' = 0]_dbVars

(* The orders a NodeHost is to fetch change only when it reports, and those *)
(* that wait for it are handed over by the very report that empties them.   *)
OrdersMoveByReport ==
    [][\A h \in Hosts :
          /\ outgoing'[h] # outgoing[h] =>
                h \in DOMAIN nodeHostImage' /\ nodeHostImage'[h].tick = tick
          /\ requests'[h] = <<>> => requests[h] \in {<<>>, outgoing'[h]}]_dbVars

(* A shard's image only moves forward and no shard is ever forgotten, even  *)
(* when reports are applied out of order.                                   *)
ImageMovesForward ==
    [][\A s \in DOMAIN shardImage :
          s \in DOMAIN shardImage' /\ shardImage'[s].ccid >= shardImage[s].ccid]_dbVars
=============================================================================

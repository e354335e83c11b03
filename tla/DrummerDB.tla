------------------------------ MODULE DrummerDB ------------------------------
(***************************************************************************)
(* The Drummer DB (db.go), the state machine that the Drummer servers      *)
(* replicate with raft: its state and one action per entry of its log.     *)
(* Replication itself is dragonboat's: the log is applied one entry at a   *)
(* time, which is what an action is here, and a lookup reads one state.    *)
(*                                                                         *)
(* An update that panics takes every Drummer server down with it, for the  *)
(* entry is in the log; the variable "panicked" records that it happened.  *)
(* The DB then handles nothing more.                                       *)
(***************************************************************************)
EXTENDS ShardImage, DrummerKV, Sequences

CONSTANTS ShardIds,             \* the shards users may ask for
          ReplicaIds,           \* a set of positive numbers
          Hosts,                \* the raft addresses of the NodeHosts
          TickIntervalSecond,   \* one step of the DB clock
          LaunchDeadlineTick    \* settings.LaunchDeadlineTick

ASSUME DrummerDBAssumption ==
    /\ TickIntervalSecond \in Nat \ {0}
    /\ LaunchDeadlineTick \in Nat \ {0}
    /\ IsFiniteSet(ReplicaIds)

VARIABLES
    tick,            \* Tick
    launchDeadline,  \* LaunchDeadline, 0 when no launch is being awaited
    failed,          \* Failed
    shards,          \* Shards, shard id :> its initial members
    kvMap,           \* KVMap
    shardImage,      \* ShardImage.Shards
    replicasToKill,  \* ShardImage.ReplicasToKill, a list that is never cut
    nodeHostImage,   \* NodeHostImage.Nodehosts; its domain is NodeHostInfo's
    requests,        \* Requests, an empty queue for an absent key
    outgoing,        \* Outgoing, likewise
    panicked         \* an update made the state machine panic

dbVars == <<tick, launchDeadline, failed, shards, kvMap, shardImage,
            replicasToKill, nodeHostImage, requests, outgoing, panicked>>

LaunchedKey     == "launched"
BootstrappedKey == "bootstrapped"
RegionsKey      == "regions"

EmptyMap == [x \in {} |-> x]

Init_DB ==
    /\ tick = 0
    /\ launchDeadline = 0
    /\ failed = FALSE
    /\ shards = EmptyMap
    /\ kvMap = EmptyMap
    /\ shardImage = EmptyMap
    /\ replicasToKill = {}
    /\ nodeHostImage = EmptyMap
    /\ requests = [h \in Hosts |-> <<>>]
    /\ outgoing = [h \in Hosts |-> <<>>]
    /\ panicked = FALSE

\* assertNotFailed: a failed DB panics on every update and lookup.
Running == ~failed /\ ~panicked

Launched     == LaunchedKey \in DOMAIN kvMap
Bootstrapped == BootstrappedKey \in DOMAIN kvMap

-----------------------------------------------------------------------------
(* TICK *)

\* Faulty variant: no deadline counts as one that has passed.
DeadlineMissedUnarmed(now) == now > launchDeadline

\* checkLaunchDeadline
DeadlineMissed(now) == launchDeadline > 0 /\ now > launchDeadline

ApplyTickUpdate ==
    /\ Running
    /\ tick' = tick + TickIntervalSecond
    /\ failed' = DeadlineMissed(tick')
    /\ UNCHANGED <<launchDeadline, shards, kvMap, shardImage, replicasToKill,
                   nodeHostImage, requests, outgoing, panicked>>

-----------------------------------------------------------------------------
(* NODEHOST_INFO *)

\* getLaunchedShards: every replica of the shard has been heard of.
LaunchedShards(image) ==
    {s \in DOMAIN image :
        \A i \in DOMAIN image[s].replicas : image[s].replicas[i].tick > 0}

\* onUpdatedShardInfo compares the numbers of launched and of wanted shards.
DeadlineAfter(image) ==
    IF Cardinality(LaunchedShards(image)) = Cardinality(DOMAIN shards)
      THEN 0 ELSE launchDeadline

\* Faulty variant: what is handed over goes on waiting as well.
HandOverAndKeep(h) ==
    /\ outgoing' = [outgoing EXCEPT ![h] = requests[h]]
    /\ UNCHANGED requests

\* The orders that wait for a NodeHost are put where it will look them up.
HandOver(h) ==
    /\ outgoing' = [outgoing EXCEPT ![h] = requests[h]]
    /\ requests' = [requests EXCEPT ![h] = <<>>]

ApplyNodeHostInfoUpdate(nhi) ==
    /\ Running
    /\ panicked' = ReportPanics(shardImage, nhi)
    /\ IF panicked'
         THEN UNCHANGED <<shardImage, replicasToKill, nodeHostImage, requests,
                          outgoing, launchDeadline>>
         ELSE LET image == UpdateShardImage(shardImage, nhi, tick)
              IN  /\ shardImage' = image
                  /\ replicasToKill' =
                        replicasToKill \cup Zombies(shardImage, nhi)
                  /\ nodeHostImage' = SyncShardInfo(
                        UpdateNodeHostImage(nodeHostImage, nhi, tick), image)
                  /\ HandOver(nhi.addr)
                  /\ launchDeadline' = DeadlineAfter(image)
    /\ UNCHANGED <<tick, failed, shards, kvMap>>

-----------------------------------------------------------------------------
(* REQUESTS: the orders of a scheduler, a sequence of records whose "to" is *)
(* the NodeHost that has to carry them out.                                *)

IsLaunchRequest(r) == r.type = "CREATE" /\ ~r.join /\ ~r.restore

\* isLaunchRequests; a mixture with other requests would be a panic.
IsLaunchRequests(reqs) == \E k \in DOMAIN reqs : IsLaunchRequest(reqs[k])
MixedRequests(reqs) ==
    /\ IsLaunchRequests(reqs)
    /\ \E k \in DOMAIN reqs : ~IsLaunchRequest(reqs[k])

\* The elements of a sequence at some of its positions, in their order: SelectSeq
\* without an operator for a parameter, which proofs cannot take apart.
Subsequence(seq, positions) ==
    LET n  == Cardinality(positions)
        at == CHOOSE f \in [1..n -> positions] : \A j, k \in 1..n : j < k => f[j] < f[k]
    IN  [k \in 1..n |-> seq[at[k]]]

RequestsTo(reqs, h) == Subsequence(reqs, {k \in DOMAIN reqs : reqs[k].to = h})

\* Faulty variant: every launch is taken for the first.
NotASecondLaunch(reqs) == FALSE

\* A launch batch that comes after the launch is ignored.
SecondLaunch(reqs) == Launched /\ IsLaunchRequests(reqs)

\* Faulty variant: the orders of NodeHosts the batch has none for are dropped.
QueuedDropping(reqs) == [h \in Hosts |-> RequestsTo(reqs, h)]

\* What is still waiting for a NodeHost is replaced, not extended.
Queued(reqs) ==
    [h \in Hosts |-> IF RequestsTo(reqs, h) # <<>> THEN RequestsTo(reqs, h)
                                                   ELSE requests[h]]

ApplyRequestsUpdate(reqs) ==
    LET launch == IsLaunchRequests(reqs)
    IN  /\ Running
        /\ panicked' = MixedRequests(reqs)
        /\ IF panicked' \/ SecondLaunch(reqs)
             THEN UNCHANGED <<requests, kvMap, launchDeadline>>
             ELSE /\ requests' = Queued(reqs)
                  /\ kvMap' = IF launch THEN UpdateKV(kvMap, FinalKV(LaunchedKey, "true"))
                                        ELSE kvMap
                  /\ launchDeadline' =
                        IF launch THEN tick + LaunchDeadlineTick * TickIntervalSecond
                                  ELSE launchDeadline
        /\ UNCHANGED <<tick, failed, shards, shardImage, replicasToKill,
                       nodeHostImage, outgoing>>

-----------------------------------------------------------------------------
(* KV and SHARD *)

ApplyKVUpdate(kv) ==
    /\ Running
    /\ kvMap' = UpdateKV(kvMap, kv)
    /\ UNCHANGED <<tick, launchDeadline, failed, shards, shardImage,
                   replicasToKill, nodeHostImage, requests, outgoing, panicked>>

\* tryCreateShard refuses once bootstrapped, and never replaces a shard.
TryCreateShard(s, members) ==
    /\ Running
    /\ ~Bootstrapped
    /\ s \notin DOMAIN shards
    /\ shards' = [t \in DOMAIN shards \cup {s} |->
                     IF t = s THEN members ELSE shards[t]]
    /\ UNCHANGED <<tick, launchDeadline, failed, kvMap, shardImage,
                   replicasToKill, nodeHostImage, requests, outgoing, panicked>>

-----------------------------------------------------------------------------
(* Lookups that derive something                                           *)

\* toShardState: what users are told of a shard.  A replica can be called if
\* its NodeHost, and so its RPC address, is known.
ShardState(s) ==
    LET c == shardImage[s]
    IN  [replicas |-> Addresses(c),
         callable |-> {i \in DOMAIN c.replicas :
                          c.replicas[i].addr \in DOMAIN nodeHostImage},
         leaders  |-> {i \in DOMAIN c.replicas : c.replicas[i].leader},
         ok       |-> Available(c, tick)]

\* Faulty variant: the context has them only until the launch.
RegionsBeforeLaunch ==
    IF RegionsKey \in DOMAIN kvMap /\ ~Launched THEN kvMap[RegionsKey].value ELSE <<>>

\* The regions that the scheduler's context is given.
RegionsLookup ==
    IF RegionsKey \in DOMAIN kvMap THEN kvMap[RegionsKey].value ELSE <<>>

RequestsLookup(h) == outgoing[h]
=============================================================================

---------------------------- MODULE ShardCluster ----------------------------
(***************************************************************************)
(* The whole of Drummer at work: the replicated DB, Drummer servers that   *)
(* believe to be the leader and schedule, NodeHosts that report and carry  *)
(* out orders, and the raft groups of the shards.                          *)
(*                                                                         *)
(* The raft groups and the NodeHost library are dragonboat's and external: *)
(* a group is the sequence of the memberships it committed, changed only   *)
(* while a quorum of the members runs and, as OrderedConfigChange demands, *)
(* only by a change that names the current ConfigChangeIndex.  Data and    *)
(* leaders of the groups are left out.                                     *)
(*                                                                         *)
(* Several Drummers may act as leader at once: an order batch is computed  *)
(* from one state of the DB and applied in another, or lost.  A report is  *)
(* captured, applied and answered in three steps, any of which may be late *)
(* or lost.  A NodeHost may crash, which stops its replicas and loses its  *)
(* orders but not its disk.                                                *)
(***************************************************************************)
EXTENDS DrummerDB, Scheduler

CONSTANTS Drummers,       \* servers that act as the leader, at times together
          UserShards,     \* what users ask for, shard :> sequence of members
          UserRegions,    \* the regions setting, a sequence of [region, count]
          Region,         \* address :> region of the NodeHost
          MinNodeHosts,   \* hosts a Drummer waits for (3 in the code)
          SlowHosts,      \* bound: only their reports take more than one step
          TimelyHosts,    \* bound: they report between any two ticks
          FragileHosts,   \* bound: only they crash
          PlogIncluded,   \* whether a report carries the log list
          MaxTick, MaxConfigs, MaxCrashes, MaxReports, MaxQueue, MaxPasses
                          \* bounds of the model

NoReplica == 0
NoBatch   == <<>>

(* What users ask for: that a shard has members is checked (db.go:357).     *)
(* That members are distinct, and so are the regions, of which there is     *)
(* one, is not.                                                             *)
ASSUME UsersAssumption ==
    /\ IsFiniteSet(ShardIds)
    /\ ReplicaIds \subseteq Nat \ {NoReplica}
    /\ DOMAIN UserShards \subseteq ShardIds
    /\ \A s \in DOMAIN UserShards :
          /\ UserShards[s] \in Seq(ReplicaIds) \ {<<>>}
          /\ IsInjective(UserShards[s])
    /\ UserRegions # <<>>
    /\ UserRegions \in Seq([region : {UserRegions[k].region : k \in DOMAIN UserRegions},
                            count  : Nat])
    /\ \A j, k \in DOMAIN UserRegions :
          UserRegions[j].region = UserRegions[k].region => j = k

VARIABLES
    conf,      \* shard :> sequence of memberships its raft group committed
    applied,   \* shard :> replica :> index of the last membership it applied
    replica,   \* address :> shard :> the replica that runs there
    disk,      \* address :> the <<shard, replica>> with node info on disk
    up,        \* address :> is the NodeHost process running?
    queue,     \* address :> shard :> orders fetched and not yet carried out
    changes,   \* membership changes proposed to a group and not decided
    reports,   \* reports sent and not yet applied or lost
    phase,     \* address :> where the report the client waits for is
    batch,     \* Drummer :> the orders it computed and has not submitted
    crashes,   \* crashes so far
    passes,    \* batches computed so far
    hostPanic  \* a NodeHost was told to launch a replica it already has

nodeVars == <<conf, applied, replica, disk, up, queue, changes, crashes, hostPanic>>
wireVars == <<reports, phase>>
drummerVars == <<batch, passes>>
clusterVars == <<dbVars, nodeVars, wireVars, drummerVars>>

LaunchedGroup(s) == conf[s] # <<>>
LastIndex(s) == Len(conf[s])
Current(s)   == conf[s][LastIndex(s)]

RunningReplicas(s) == {replica[h][s] : h \in Hosts} \ {NoReplica}

HasQuorum(s) ==
    /\ LaunchedGroup(s)
    /\ Cardinality(RunningReplicas(s) \cap DOMAIN Current(s))
          > Cardinality(DOMAIN Current(s)) \div 2

Init_Nodes ==
    /\ conf = [s \in ShardIds |-> <<>>]
    /\ applied = [s \in ShardIds |-> [i \in ReplicaIds |-> 0]]
    /\ replica = [h \in Hosts |-> [s \in ShardIds |-> NoReplica]]
    /\ disk = [h \in Hosts |-> {}]
    /\ up = [h \in Hosts |-> TRUE]
    /\ queue = [h \in Hosts |-> [s \in ShardIds |-> <<>>]]
    /\ changes = {}
    /\ reports = {}
    /\ phase = [h \in Hosts |-> "idle"]
    /\ batch = [d \in Drummers |-> NoBatch]
    /\ crashes = 0
    /\ passes = 0
    /\ hostPanic = FALSE

Init == Init_DB /\ Init_Nodes

-----------------------------------------------------------------------------
(* Users.  Nothing asks them for an order: the bootstrap may be ended       *)
(* before the regions are set or every shard is created.                    *)

SubmitChange ==
    /\ \E s \in DOMAIN UserShards : TryCreateShard(s, UserShards[s])
    /\ UNCHANGED <<nodeVars, wireVars, drummerVars>>

SetRegions ==
    /\ ApplyKVUpdate(FinalKV(RegionsKey, UserRegions))
    /\ UNCHANGED <<nodeVars, wireVars, drummerVars>>

SetBootstrapped ==
    /\ ApplyKVUpdate(FinalKV(BootstrappedKey, "true"))
    /\ UNCHANGED <<nodeVars, wireVars, drummerVars>>

-----------------------------------------------------------------------------
(* Drummers                                                                *)

DrummerTick ==
    /\ tick < MaxTick
    /\ \A h \in TimelyHosts :
          up[h] => h \in DOMAIN nodeHostImage /\ nodeHostImage[h].tick = tick
    /\ ApplyTickUpdate
    /\ UNCHANGED <<nodeVars, wireVars, drummerVars>>

\* getToKillReplicas empties only the copy that the scheduler was given.
ToKillReplicas == replicasToKill

Context ==
    [tick    |-> tick,
     shards  |-> shards,
     regions |-> RegionsLookup,
     image   |-> shardImage,
     hosts   |-> nodeHostImage,
     toKill  |-> ToKillReplicas]

HasEnoughNodeHostConnected == Cardinality(DOMAIN nodeHostImage) >= MinNodeHosts

\* New ids are random: here, the first that no membership has had, if the bound
\* ReplicaIds leaves one.  Two orders may share it, but only one of them can be
\* committed.
NewReplicaIds ==
    LET fresh == {i \in ReplicaIds : \A s \in ShardIds :
                    \A c \in DOMAIN conf[s] : i \notin DOMAIN conf[s][c]}
    IN  {i \in fresh : \A j \in fresh : i <= j}

\* A flag that is read as FALSE when the lookup fails: of the errors, schedule
\* heeds only a cancellation.
GetLaunched == {Launched, FALSE}

\* schedule: the launched flag is read first, then the context.  A pass that
\* fails or panics submits nothing; after a panic, another Drummer leads.
Schedule(d) ==
    /\ Running
    /\ batch[d] = NoBatch
    /\ passes < MaxPasses
    /\ passes' = passes + 1
    /\ Bootstrapped
    /\ HasEnoughNodeHostConnected
    /\ \E launchedSeen \in GetLaunched :
        IF ~launchedSeen /\ DOMAIN shardImage = {}
          THEN /\ ~LaunchFails(Context) /\ ~LaunchPanics(Context)
               /\ \E reqs \in LaunchChoices(Context) : batch' = [batch EXCEPT ![d] = reqs]
          ELSE /\ ~MaintainPanics(Context)
               /\ \E newId \in NewReplicaIds :
                  \E reqs \in MaintainChoices(Context, newId) :
                     batch' = [batch EXCEPT ![d] = reqs]
    /\ batch' # batch
    /\ UNCHANGED <<dbVars, nodeVars, wireVars>>

UpdateRequests(d) ==
    /\ batch[d] # NoBatch
    /\ ApplyRequestsUpdate(batch[d])
    /\ batch' = [batch EXCEPT ![d] = NoBatch]
    /\ UNCHANGED <<nodeVars, wireVars, passes>>

\* The proposal fails, or the Drummer does.
LoseBatch(d) ==
    /\ batch[d] # NoBatch
    /\ batch' = [batch EXCEPT ![d] = NoBatch]
    /\ UNCHANGED <<dbVars, nodeVars, wireVars, passes>>

-----------------------------------------------------------------------------
(* Reports: SendNodeHostInfo and, on the server, ReportAvailableNodeHost.   *)

\* The membership is left out when the DB's image is not behind.  The code asks
\* for the image's indexes after it took the info: leaving out a membership the
\* image has caught up with in between changes nothing, for the image would not
\* have taken it over anyway.
InfoOf(h, s) ==
    LET i       == replica[h][s]
        c       == applied[s][i]
        part    == c > 0 /\ s \in DOMAIN shardImage /\ shardImage[s].ccid >= c
    IN  [replica |-> i, ccid |-> c, leader |-> FALSE, pending |-> c = 0,
         incomplete |-> part,
         replicas |-> IF part \/ c = 0 THEN EmptyMap ELSE conf[s][c]]

ReportOf(h, included) ==
    [addr |-> h, region |-> Region[h],
     info |-> [s \in {t \in ShardIds : replica[h][t] # NoReplica} |-> InfoOf(h, s)],
     plogIncluded |-> included,
     plog |-> IF included THEN disk[h] ELSE {}]

\* The queue of a NodeHost when it is handed these orders, shard by shard.
Received(h, orders) ==
    [s \in ShardIds |-> queue[h][s]
                           \o Subsequence(orders, {k \in DOMAIN orders : orders[k].shard = s})]

\* A report that nothing overtakes, whose answer arrives or is lost, which makes a
\* difference when there are orders in it.
Exchange(h) ==
    /\ up[h]
    /\ h \notin SlowHosts
    /\ \E included \in PlogIncluded :
          ApplyNodeHostInfoUpdate(ReportOf(h, included))
    /\ \/ /\ queue' = [queue EXCEPT ![h] = Received(h, outgoing'[h])]
          /\ \A s \in ShardIds : Len(queue'[h][s]) <= MaxQueue
       \/ outgoing'[h] # <<>> /\ UNCHANGED queue
    /\ UNCHANGED <<conf, applied, replica, disk, up, changes, crashes, hostPanic,
                   wireVars, drummerVars>>

SendReport(h) ==
    /\ up[h]
    /\ h \in SlowHosts
    /\ phase[h] = "idle"
    /\ Cardinality({r \in reports : r.nhi.addr = h}) < MaxReports
    /\ \E included \in PlogIncluded :
          reports' = reports \cup {[nhi |-> ReportOf(h, included), awaited |-> TRUE]}
    /\ phase' = [phase EXCEPT ![h] = "sent"]
    /\ UNCHANGED <<dbVars, nodeVars, drummerVars>>

\* A report may be applied long after the client gave up on it.
ApplyReport(r) ==
    /\ ApplyNodeHostInfoUpdate(r.nhi)
    /\ reports' = reports \ {r}
    /\ phase' = IF r.awaited THEN [phase EXCEPT ![r.nhi.addr] = "applied"] ELSE phase
    /\ UNCHANGED <<nodeVars, drummerVars>>

LoseReport(r) ==
    /\ reports' = reports \ {r}
    /\ phase' = IF r.awaited THEN [phase EXCEPT ![r.nhi.addr] = "idle"] ELSE phase
    /\ UNCHANGED <<dbVars, nodeVars, drummerVars>>

\* The timeout of the client: it will send another report.
GiveUp(h) ==
    /\ phase[h] # "idle"
    /\ phase' = [phase EXCEPT ![h] = "idle"]
    /\ reports' = {IF r.nhi.addr = h THEN [r EXCEPT !.awaited = FALSE] ELSE r :
                      r \in reports}
    /\ UNCHANGED <<dbVars, nodeVars, drummerVars>>

\* getRequests is a lookup of its own, after the update.
FetchRequests(h) ==
    /\ Running
    /\ phase[h] = "applied"
    /\ phase' = [phase EXCEPT ![h] = "idle"]
    /\ queue' = [queue EXCEPT ![h] = Received(h, RequestsLookup(h))]
    /\ \A s \in ShardIds : Len(queue'[h][s]) <= MaxQueue
    /\ UNCHANGED <<dbVars, conf, applied, replica, disk, up, changes, crashes,
                   hostPanic, reports, drummerVars>>

-----------------------------------------------------------------------------
(* NodeHosts carry out orders, those of one shard one after the other.      *)

Take(h, s) ==
    /\ up[h]
    /\ queue[h][s] # <<>>
    /\ queue' = [queue EXCEPT ![h][s] = Tail(@)]

\* StartReplica refuses when the shard already has a replica here.
StartReplica(h, s, i) ==
    IF replica[h][s] = NoReplica
      THEN /\ replica' = [replica EXCEPT ![h][s] = i]
           /\ disk' = [disk EXCEPT ![h] = @ \cup {<<s, i>>}]
      ELSE UNCHANGED <<replica, disk>>

\* handleInstantiateRequest: launch.  The first replica of a group to start
\* brings the first membership with it.
HandleLaunch(h, s) ==
    LET r == Head(queue[h][s])
        hasNodeInfo == <<s, r.replica>> \in disk[h]
    IN  /\ Take(h, s)
        /\ IsLaunchRequest(r)
        /\ hostPanic' = (hostPanic \/ hasNodeInfo)
        /\ IF hasNodeInfo THEN UNCHANGED <<replica, disk, conf, applied>>
           ELSE /\ StartReplica(h, s, r.replica)
                /\ conf' = IF LaunchedGroup(s) THEN conf
                                               ELSE [conf EXCEPT ![s] = <<r.peers>>]
                /\ applied' = IF replica[h][s] = NoReplica
                                THEN [applied EXCEPT ![s][r.replica] = 1] ELSE applied
        /\ UNCHANGED <<dbVars, up, changes, crashes, wireVars, drummerVars>>

\* join starts the replica even when it has node info; restore needs it.
HandleStart(h, s) ==
    LET r == Head(queue[h][s])
    IN  /\ Take(h, s)
        /\ r.type = "CREATE"
        /\ r.join \/ r.restore
        /\ IF r.restore /\ <<s, r.replica>> \notin disk[h]
             THEN UNCHANGED <<replica, disk>>
             ELSE StartReplica(h, s, r.replica)
        /\ UNCHANGED <<dbVars, conf, applied, up, changes, crashes, hostPanic,
                       wireVars, drummerVars>>

HandleKill(h, s) ==
    LET r == Head(queue[h][s])
    IN  /\ Take(h, s)
        /\ r.type = "KILL"
        /\ IF replica[h][s] = r.replica
             THEN /\ replica' = [replica EXCEPT ![h][s] = NoReplica]
                  /\ disk' = [disk EXCEPT ![h] = @ \ {<<s, r.replica>>}]
                  /\ applied' = [applied EXCEPT ![s][r.replica] = 0]
             ELSE UNCHANGED <<replica, disk, applied>>
        /\ UNCHANGED <<dbVars, conf, up, changes, crashes, hostPanic, wireVars, drummerVars>>

\* The change is proposed to the group; the worker waits for it only so long.
\* What a completed DELETE then removes is data this NodeHost never has: the
\* deleted replica lives elsewhere.
HandleAddDelete(h, s) ==
    LET r == Head(queue[h][s])
    IN  /\ Take(h, s)
        /\ r.type \in {"ADD", "DELETE"}
        /\ changes' = IF replica[h][s] = NoReplica THEN changes ELSE changes \cup {r}
        /\ UNCHANGED <<dbVars, conf, applied, replica, disk, up, crashes, hostPanic,
                       wireVars, drummerVars>>

Handle(h, s) ==
    \/ HandleLaunch(h, s)
    \/ HandleStart(h, s)
    \/ HandleKill(h, s)
    \/ HandleAddDelete(h, s)

-----------------------------------------------------------------------------
(* The raft groups (external)                                              *)

NewMembership(m, r) ==
    IF r.type = "ADD"
      THEN [i \in DOMAIN m \cup {r.replica} |-> IF i = r.replica THEN r.addr ELSE m[i]]
      ELSE [i \in DOMAIN m \ {r.replica} |-> m[i]]

\* Faulty variant: a change is accepted whatever index it names.
InAnyOrder(r) == TRUE

\* OrderedConfigChange: the change names the index of the last membership.
InOrder(r) == r.ccid = LastIndex(r.shard)

CommitChange(r) ==
    LET s == r.shard
    IN  /\ HasQuorum(s)
        /\ InOrder(r)
        /\ LastIndex(s) < MaxConfigs
        /\ conf' = [conf EXCEPT ![s] = Append(@, NewMembership(Current(s), r))]
        /\ changes' = changes \ {r}
        /\ UNCHANGED <<dbVars, applied, replica, disk, up, queue, crashes, hostPanic,
                       wireVars, drummerVars>>

\* Rejected, for it names an index of the past, or dropped.
DropChange(r) ==
    /\ changes' = changes \ {r}
    /\ UNCHANGED <<dbVars, conf, applied, replica, disk, up, queue, crashes,
                   hostPanic, wireVars, drummerVars>>

\* A replica that has been a member stops when it applies its own removal;
\* one that joins passes through the memberships before it was added.
CatchUp(h, s, c) ==
    LET i == replica[h][s]
        wasMember == \E d \in 1..c : i \in DOMAIN conf[s][d]
    IN  /\ i # NoReplica
        /\ HasQuorum(s)
        /\ applied[s][i] < c
        /\ applied' = [applied EXCEPT ![s][i] = c]
        /\ replica' = IF wasMember /\ i \notin DOMAIN conf[s][c]
                        THEN [replica EXCEPT ![h][s] = NoReplica] ELSE replica
        /\ UNCHANGED <<dbVars, conf, disk, up, queue, changes, crashes, hostPanic,
                       wireVars, drummerVars>>

-----------------------------------------------------------------------------
(* Crashes                                                                 *)

Crash(h) ==
    /\ up[h]
    /\ h \in FragileHosts
    /\ crashes < MaxCrashes
    /\ crashes' = crashes + 1
    /\ up' = [up EXCEPT ![h] = FALSE]
    /\ replica' = [replica EXCEPT ![h] = [s \in ShardIds |-> NoReplica]]
    /\ queue' = [queue EXCEPT ![h] = [s \in ShardIds |-> <<>>]]
    /\ phase' = [phase EXCEPT ![h] = "idle"]
    /\ reports' = {IF r.nhi.addr = h THEN [r EXCEPT !.awaited = FALSE] ELSE r :
                      r \in reports}
    /\ UNCHANGED <<dbVars, conf, applied, disk, changes, hostPanic, drummerVars>>

\* The NodeHost comes back with its disk and starts no replica by itself.
Restart(h) ==
    /\ ~up[h]
    /\ up' = [up EXCEPT ![h] = TRUE]
    /\ UNCHANGED <<dbVars, conf, applied, replica, disk, queue, changes, crashes,
                   hostPanic, wireVars, drummerVars>>

-----------------------------------------------------------------------------
Next ==
    \/ SubmitChange \/ SetRegions \/ SetBootstrapped \/ DrummerTick
    \/ \E d \in Drummers : Schedule(d) \/ UpdateRequests(d) \/ LoseBatch(d)
    \/ \E h \in Hosts : Exchange(h) \/ SendReport(h) \/ GiveUp(h) \/ FetchRequests(h)
    \/ \E r \in reports : ApplyReport(r) \/ LoseReport(r)
    \/ \E h \in Hosts, s \in ShardIds : Handle(h, s)
    \/ \E r \in changes : CommitChange(r) \/ DropChange(r)
    \/ \E h \in Hosts, s \in ShardIds : \E c \in DOMAIN conf[s] : CatchUp(h, s, c)
    \/ \E h \in Hosts : Crash(h) \/ Restart(h)

Spec == Init /\ [][Next]_clusterVars
-----------------------------------------------------------------------------
WantedSize(s) == Len(UserShards[s])

Elements(seq) == {seq[k] : k \in DOMAIN seq}

\* Orders the DB has accepted, wherever they are on their way.
AcceptedOrders ==
    changes \cup
    UNION {Elements(requests[h]) \cup Elements(outgoing[h])
             \cup UNION {Elements(queue[h][s]) : s \in ShardIds} : h \in Hosts}

AllOrders == AcceptedOrders \cup UNION {Elements(batch[d]) : d \in Drummers}

(* Repair replaces one replica at a time: a group never falls below the     *)
(* size its user asked for and never exceeds it by more than one, although  *)
(* several Drummers order changes computed from old states of the DB and    *)
(* the orders arrive late (addRequired and deleteRequired, with the         *)
(* ConfChangeId that the orders carry).                                     *)
MembershipSize ==
    \A s \in ShardIds : \A c \in DOMAIN conf[s] :
        Cardinality(DOMAIN conf[s][c]) \in {WantedSize(s), WantedSize(s) + 1}

(* No NodeHost is ever given two members of a shard (basicFilter works from *)
(* an image that may be behind); drummer panics when it sees that.          *)
OneReplicaPerHost ==
    \A s \in ShardIds : \A c \in DOMAIN conf[s] :
        \A i, j \in DOMAIN conf[s][c] : i # j => conf[s][c][i] # conf[s][c][j]

(* What the DB believes of a group is a membership the group committed, and *)
(* no report, however late, makes the DB panic.                             *)
ImageIsCommitted ==
    /\ ~panicked
    /\ \A s \in DOMAIN shardImage :
          /\ shardImage[s].ccid \in DOMAIN conf[s]
          /\ Addresses(shardImage[s]) = conf[s][shardImage[s].ccid]

(* An order to kill a replica, which also deletes its data, is only ever    *)
(* for one that its group has removed, wherever the order is on its way.    *)
KillsOnlyRemoved ==
    /\ \A r \in AllOrders :
          r.type = "KILL" => /\ LaunchedGroup(r.shard)
                             /\ r.replica \notin DOMAIN Current(r.shard)
    /\ \A k \in replicasToKill : k.replica \notin DOMAIN Current(k.shard)

(* Two Drummers may both compute a launch, with different placements.  The  *)
(* orders that reach the NodeHosts all come from one of the two.            *)
LaunchedFromOnePlan ==
    \A r \in AcceptedOrders :
        IsLaunchRequest(r) =>
            /\ LaunchedGroup(r.shard) => r.peers = conf[r.shard][1]
            /\ \A q \in AcceptedOrders :
                  IsLaunchRequest(q) /\ q.shard = r.shard => q.peers = r.peers

\* The replicas that the first k regions are to have.
RegionTotal[k \in 0..Len(UserRegions)] ==
    IF k = 0 THEN 0 ELSE RegionTotal[k - 1] + UserRegions[k].count

(* No pass panics, however stale the launched flag is that it read before   *)
(* the context, unless it launches and users have not set the regions, or   *)
(* let them count more replicas than a shard has members; no code demands   *)
(* either (scheduler.go:126, 159, 459; server.go:153).                      *)
PanicsOnlyUnprepared ==
    /\ LaunchPanics(Context) =>
          \/ RegionsKey \notin DOMAIN kvMap
          \/ \E s \in DOMAIN shards : RegionTotal[Len(UserRegions)] > Len(shards[s])
    /\ ~MaintainPanics(Context)

(* No NodeHost is told to launch a replica it already has, which would make *)
(* it panic (client/nodehost.go:402): a batch of orders is handed to its    *)
(* NodeHost at most once, whatever reports are repeated or applied late.    *)
LaunchedAtMostOnce == ~hostPanic
=============================================================================

------------------------------ MODULE Scheduler ------------------------------
(***************************************************************************)
(* The scheduler of the leader Drummer (scheduler.go, filter.go,           *)
(* selector.go) and the pass that drives it (drummer.go), as operators     *)
(* over the context it reads from the DB:                                  *)
(*    [tick, shards, regions, image, hosts, toKill]                        *)
(* The code draws hosts, helpers and new replica ids at random and walks   *)
(* Go maps: an operator below is the set of all outcomes.                  *)
(*                                                                         *)
(* An order (pb.NodeHostRequest) is a record whose "to" is the NodeHost to *)
(* carry it out and whose "replica" is the replica to start, add, delete   *)
(* or kill.  Only a launch carries the list of members: the other CREATE   *)
(* orders have one too, but no NodeHost looks at it.  The order of the     *)
(* orders for different shards or hosts is immaterial (each shard has its  *)
(* own worker on a NodeHost), so sets of them become sequences in any one  *)
(* order.                                                                  *)
(***************************************************************************)
EXTENDS ShardImage, SequencesExt

-----------------------------------------------------------------------------
(* Candidate NodeHosts: filters and selectors.                             *)

\* The live filter: strictly younger than the TTL, where EntityFailed asks
\* for strictly older.  A host of exactly that age is neither.
Live(spec, now) == now - spec.tick < NodeHostTTL

\* Faulty variant: NodeHosts that have a replica of the shard are not left out.
SuitableIfLive(sc, s) == {h \in DOMAIN sc.hosts : Live(sc.hosts[h], sc.tick)}

Suitable(sc, s) ==
    {h \in DOMAIN sc.hosts : /\ Live(sc.hosts[h], sc.tick)
                             /\ s \notin sc.hosts[h].shards}

SuitableIn(sc, s, region) == {h \in Suitable(sc, s) : sc.hosts[h].region = region}

\* findSuitableNodeHost: count distinct hosts in random order, or none at all.
Selections(candidates, count) ==
    IF Cardinality(candidates) < count THEN {<<>>}
    ELSE {f \in [1..count -> candidates] :
             \A i, j \in 1..count : i # j => f[i] # f[j]}

-----------------------------------------------------------------------------
(* The orders.                                                             *)

LaunchOrder(s, i, peers) ==
    [type |-> "CREATE", shard |-> s, replica |-> i, to |-> peers[i],
     join |-> FALSE, restore |-> FALSE, peers |-> peers]

JoinOrder(s, i, addr) ==
    [type |-> "CREATE", shard |-> s, replica |-> i, to |-> addr,
     join |-> TRUE, restore |-> FALSE]

RestoreOrder(s, i, addr) ==
    [type |-> "CREATE", shard |-> s, replica |-> i, to |-> addr,
     join |-> FALSE, restore |-> TRUE]

AddOrder(s, i, addr, ccid, helper) ==
    [type |-> "ADD", shard |-> s, replica |-> i, to |-> helper,
     addr |-> addr, ccid |-> ccid]

DeleteOrder(s, i, ccid, helper) ==
    [type |-> "DELETE", shard |-> s, replica |-> i, to |-> helper,
     ccid |-> ccid]

KillOrder(k) ==
    [type |-> "KILL", shard |-> k.shard, replica |-> k.replica, to |-> k.addr]

-----------------------------------------------------------------------------
(* launch: place the first members of every shard.                         *)

\* One selection per region, concatenated in the order of the regions.
Placements(sc, s) ==
    {FlattenSeq(g) :
        g \in {f \in [DOMAIN sc.regions ->
                        UNION {Selections(SuitableIn(sc, s, sc.regions[k].region),
                                          sc.regions[k].count) : k \in DOMAIN sc.regions}] :
                  \A k \in DOMAIN sc.regions :
                      f[k] \in Selections(SuitableIn(sc, s, sc.regions[k].region),
                                          sc.regions[k].count)}}

\* Too few hosts in the regions make the whole launch fail.
LaunchFails(sc) ==
    \E s \in DOMAIN sc.shards :
        \E sel \in Placements(sc, s) : Len(sel) < Len(sc.shards[s])

\* More hosts than members is an index out of range; no regions, a nil pointer.
LaunchPanics(sc) ==
    /\ sc.shards # [s \in {} |-> s]
    /\ \/ sc.regions = <<>>
       \/ \E s \in DOMAIN sc.shards :
            \E sel \in Placements(sc, s) : Len(sel) > Len(sc.shards[s])

LaunchOrders(s, members, selected) ==
    LET peers == [i \in ToSet(members) |->
                    selected[CHOOSE k \in DOMAIN members : members[k] = i]]
    IN  {LaunchOrder(s, i, peers) : i \in ToSet(members)}

LaunchChoices(sc) ==
    {SetToSeq(UNION {LaunchOrders(s, sc.shards[s], g[s]) : s \in DOMAIN sc.shards}) :
        g \in {f \in [DOMAIN sc.shards -> UNION {Placements(sc, s) : s \in DOMAIN sc.shards}] :
                  \A s \in DOMAIN sc.shards : f[s] \in Placements(sc, s)}}

-----------------------------------------------------------------------------
(* restore: start the replicas whose NodeHost came back with their log.    *)

RestoreOrders(sc, s) ==
    LET c == sc.image[s]
        Restorable == CanBeRestored(s, c, sc.hosts, sc.tick)
    IN  IF NeedToBeRestored(c, sc.tick) /\ ~ReadyToBeRestored(s, c, sc.hosts, sc.tick)
          THEN {}
          ELSE {RestoreOrder(s, i, c.replicas[i].addr) : i \in Restorable}

\* Only the shards in need of repair are looked at.
ToRepair(sc) == {s \in DOMAIN sc.image : NeedsRepair(sc.image[s], sc.tick)}

Restored(sc) == {s \in ToRepair(sc) : RestoreOrders(sc, s) # {}}

-----------------------------------------------------------------------------
(* repair: one step for each shard that is not being restored.             *)

\* A replacement is sought in the region of the failed replica's host first.
ReplacementHosts(sc, s, i) ==
    LET addr     == sc.image[s].replicas[i].addr
        regional == IF addr \in DOMAIN sc.hosts
                      THEN SuitableIn(sc, s, sc.hosts[addr].region) ELSE {}
    IN  IF regional # {} THEN regional ELSE Suitable(sc, s)

Helpers(sc, s) ==
    {sc.image[s].replicas[i].addr : i \in OkReplicas(sc.image[s], sc.tick)}

NeedsDelete(sc, s) ==
    DeleteRequired(sc.image[s], sc.tick, Len(sc.shards[s]))
NeedsCreate(sc, s) ==
    ~NeedsDelete(sc, s) /\ CreateRequired(sc.image[s], sc.tick)
NeedsAdd(sc, s) ==
    ~NeedsDelete(sc, s) /\ AddRequired(sc.image[s], sc.tick)

RepairChoices(sc, s, newId) ==
    LET c == sc.image[s]
    IN  IF NeedsDelete(sc, s)
          THEN {DeleteOrder(s, i, c.ccid, h) :
                   i \in FailedReplicas(c, sc.tick), h \in Helpers(sc, s)}
        ELSE IF NeedsCreate(sc, s)
          THEN {JoinOrder(s, i, c.replicas[i].addr) : i \in ReplicasToStart(c, sc.tick)}
        ELSE UNION {{AddOrder(s, newId, addr, c.ccid, h) :
                        addr \in ReplacementHosts(sc, s, i), h \in Helpers(sc, s)} :
                    i \in FailedReplicas(c, sc.tick)}

InRepair(sc) ==
    {s \in ToRepair(sc) \ Restored(sc) :
        NeedsDelete(sc, s) \/ NeedsCreate(sc, s) \/ NeedsAdd(sc, s)}

\* One shard without a replacement host makes the whole pass fail.
MaintainFails(sc) ==
    \E s \in InRepair(sc) : NeedsAdd(sc, s) /\ Suitable(sc, s) = {}

\* getShardSize and getAppName: a shard in the image that nobody asked for.
MaintainPanics(sc) == ~(ToRepair(sc) \subseteq DOMAIN sc.shards)

-----------------------------------------------------------------------------
(* maintainShards: restore, repair, kill, in this order.                   *)

MaintainChoices(sc, newId) ==
    IF MaintainFails(sc) THEN {}
    ELSE LET restore == UNION {RestoreOrders(sc, s) : s \in ToRepair(sc)}
             kill    == {KillOrder(k) : k \in sc.toKill}
         IN  {SetToSeq(restore) \o SetToSeq({f[s] : s \in DOMAIN f}) \o SetToSeq(kill) :
                f \in {g \in [InRepair(sc) ->
                                UNION {RepairChoices(sc, s, newId) : s \in InRepair(sc)}] :
                          \A s \in InRepair(sc) : g[s] \in RepairChoices(sc, s, newId)}}
=============================================================================

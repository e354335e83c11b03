----------------------------- MODULE ShardImage -----------------------------
(***************************************************************************)
(* Drummer's two images of the system it manages, as pure operators:       *)
(* shardimage.go (which replicas each shard has and when each of them was  *)
(* last reported) and nodehostimage.go (which NodeHosts exist, when each   *)
(* last reported, and the logs on its disk).                               *)
(*                                                                         *)
(* The shard image is a partial function from shard ids to records         *)
(*    [ccid |-> ConfigChangeIndex, replicas |-> replica id :> record]      *)
(* and the NodeHost image a partial function from addresses to             *)
(*    [region, tick, log, shards].                                         *)
(* A report (pb.NodeHostInfo) is the record                                *)
(*    [addr, region, info, plogIncluded, plog]                             *)
(* whose info maps the shards the NodeHost runs to what it knows of them.  *)
(* A NodeHost runs at most one replica of a shard, so the order in which   *)
(* the Go code walks nhi.ShardInfo does not matter.                        *)
(***************************************************************************)
EXTENDS Integers, FiniteSets

CONSTANT NodeHostTTL    \* settings.Soft.NodeHostTTL, in ticks of the DB clock

ASSUME NodeHostTTLAssumption == NodeHostTTL \in Nat

-----------------------------------------------------------------------------
(* The state of one replica, derived from the times it was seen.           *)

\* The clocks are uint64: a last tick later than the current one would wrap
\* around.  TicksNotInFuture of DrummerDB shows that it never is.
EntityFailed(lastTick, currentTick) == currentTick - lastTick > NodeHostTTL

ReplicaFailed(r, now) ==
    IF r.tick = 0 THEN r.first = 0 ELSE EntityFailed(r.tick, now)

WaitingToBeStarted(r, now) == r.tick = 0 /\ ~ReplicaFailed(r, now)

FailedReplicas(c, now) ==
    {i \in DOMAIN c.replicas : ReplicaFailed(c.replicas[i], now)}

ReplicasToStart(c, now) ==
    {i \in DOMAIN c.replicas : WaitingToBeStarted(c.replicas[i], now)}

OkReplicas(c, now) ==
    {i \in DOMAIN c.replicas : /\ ~ReplicaFailed(c.replicas[i], now)
                               /\ ~WaitingToBeStarted(c.replicas[i], now)}

\* Faulty variant: half of the replicas are enough.
QuorumOfHalf(c) == Cardinality(DOMAIN c.replicas) \div 2

Quorum(c) == Cardinality(DOMAIN c.replicas) \div 2 + 1

Available(c, now) == Cardinality(OkReplicas(c, now)) >= Quorum(c)

-----------------------------------------------------------------------------
(* What a shard needs, the conditions of shardRepair.                      *)

NeedsRepair(c, now) == FailedReplicas(c, now) \cup ReplicasToStart(c, now) # {}

AddRequired(c, now) ==
    /\ FailedReplicas(c, now) # {}
    /\ ReplicasToStart(c, now) = {}
    /\ Available(c, now)

CreateRequired(c, now) == ReplicasToStart(c, now) # {}

DeleteRequired(c, now, expectedShardSize) ==
    /\ Available(c, now)
    /\ FailedReplicas(c, now) # {}
    /\ Cardinality(FailedReplicas(c, now)) + Cardinality(OkReplicas(c, now))
          > expectedShardSize

NeedToBeRestored(c, now) == ~Available(c, now) /\ ReplicasToStart(c, now) = {}

-----------------------------------------------------------------------------
(* The NodeHost image.                                                     *)

NodeHostAvailable(spec, now) == ~EntityFailed(spec.tick, now)

\* canBeRestored: the failed replicas whose NodeHost is back with their log.
CanBeRestored(s, c, hosts, now) ==
    {i \in FailedReplicas(c, now) :
        LET addr == c.replicas[i].addr
        IN  /\ addr \in DOMAIN hosts
            /\ NodeHostAvailable(hosts[addr], now)
            /\ <<s, i>> \in hosts[addr].log}

ReadyToBeRestored(s, c, hosts, now) ==
    /\ NeedToBeRestored(c, now)
    /\ Cardinality(OkReplicas(c, now))
          + Cardinality(CanBeRestored(s, c, hosts, now)) >= Quorum(c)

\* update: the log list is replaced only by a report that carries one.
UpdateNodeHostImage(hosts, nhi, now) ==
    LET oldLog == IF nhi.addr \in DOMAIN hosts THEN hosts[nhi.addr].log ELSE {}
        spec   == [region |-> nhi.region,
                   tick   |-> now,
                   log    |-> IF nhi.plogIncluded THEN nhi.plog ELSE oldLog,
                   shards |-> DOMAIN nhi.info]
    IN  [h \in DOMAIN hosts \cup {nhi.addr} |->
            IF h = nhi.addr THEN spec ELSE hosts[h]]

\* syncShardInfo: a member of a shard counts as hosting it, reported or not.
SyncShardInfo(hosts, image) ==
    [h \in DOMAIN hosts |->
        [hosts[h] EXCEPT !.shards = @ \cup
            {s \in DOMAIN image : \E i \in DOMAIN image[s].replicas :
                                      image[s].replicas[i].addr = h}]]

-----------------------------------------------------------------------------
(* Folding what a NodeHost says about one of its shards into the image.    *)

\* Faulty variant: the replica is aged by the TTL when it is first observed.
NewReplicaAged(addr, now) ==
    [addr |-> addr, leader |-> FALSE, tick |-> 0, first |-> now - NodeHostTTL]

NewReplica(addr, now) ==
    [addr |-> addr, leader |-> FALSE, tick |-> 0, first |-> now]

\* The addresses of a shard's members, as its image has them.
Addresses(c) == [i \in DOMAIN c.replicas |-> c.replicas[i].addr]

GetShard(ci, now) ==
    [ccid     |-> ci.ccid,
     replicas |-> [i \in DOMAIN ci.replicas |->
                      [NewReplica(ci.replicas[i], now) EXCEPT
                          !.leader = (i = ci.replica /\ ci.leader)]]]

\* Faulty variant: a report that is behind is checked all the same.
SyncShardPanicsOnOld(c, ci) ==
    \/ c.ccid >= ci.ccid /\ DOMAIN c.replicas # DOMAIN ci.replicas
    \/ \E i \in DOMAIN c.replicas \cap DOMAIN ci.replicas :
           c.replicas[i].addr # ci.replicas[i]

\* The three Panicf of syncShard; a report that is behind never reaches them.
SyncShardPanics(c, ci) ==
    /\ c.ccid <= ci.ccid
    /\ \/ c.ccid = ci.ccid /\ DOMAIN c.replicas # DOMAIN ci.replicas
       \/ \E i \in DOMAIN c.replicas \cap DOMAIN ci.replicas :
              c.replicas[i].addr # ci.replicas[i]
       \/ \E i, j \in DOMAIN ci.replicas :
              i # j /\ ci.replicas[i] = ci.replicas[j]

\* Faulty variant: replicas that the report does not have stay.
SyncShardKeepsRemoved(c, ci, now) ==
    IF c.ccid > ci.ccid THEN c
    ELSE [ccid     |-> ci.ccid,
          replicas |-> [i \in DOMAIN ci.replicas \cup DOMAIN c.replicas |->
                           IF i \in DOMAIN c.replicas
                             THEN c.replicas[i]
                             ELSE NewReplica(ci.replicas[i], now)]]

\* Faulty variant: a report that is behind the image is believed.
SyncShardBelievesOld(c, ci, now) ==
    [ccid     |-> ci.ccid,
     replicas |-> [i \in DOMAIN ci.replicas |->
                      IF i \in DOMAIN c.replicas
                        THEN c.replicas[i]
                        ELSE NewReplica(ci.replicas[i], now)]]

\* Known replicas keep the time they were first observed.
SyncShard(c, ci, now) ==
    IF c.ccid > ci.ccid THEN c
    ELSE [ccid     |-> ci.ccid,
          replicas |-> [i \in DOMAIN ci.replicas |->
                           IF i \in DOMAIN c.replicas
                             THEN c.replicas[i]
                             ELSE NewReplica(ci.replicas[i], now)]]

\* Faulty variant: every replica that lags behind is taken for a zombie.
KillRequestIfBehind(c, ci) == c.ccid > ci.ccid

\* A replica that is behind the image and not a member in it is a zombie.
KillRequestRequired(c, ci) ==
    c.ccid > ci.ccid /\ ci.replica \notin DOMAIN c.replicas

\* Faulty variant: the time of the report is rounded up.
UpdateNodeTickAhead(c, ci, now) ==
    [ccid     |-> c.ccid,
     replicas |-> [i \in DOMAIN c.replicas |->
                      IF i = ci.replica THEN [c.replicas[i] EXCEPT !.tick = now + 1]
                                        ELSE c.replicas[i]]]

UpdateNodeTick(c, ci, now) ==
    [ccid     |-> c.ccid,
     replicas |-> [i \in DOMAIN c.replicas |->
                      IF i = ci.replica THEN [c.replicas[i] EXCEPT !.tick = now]
                                        ELSE c.replicas[i]]]

\* Faulty variant: the leader that was there before stays marked.
SyncLeaderInfoAdds(c, ci) ==
    IF c.ccid > ci.ccid \/ ci.replica \notin DOMAIN c.replicas THEN c
    ELSE [ccid     |-> c.ccid,
          replicas |-> [c.replicas EXCEPT ![ci.replica].leader = ci.leader]]

\* A new leader deposes the others; a leader that says it is not one is
\* believed.  Reports that are behind the image are not.
SyncLeaderInfo(c, ci) ==
    IF c.ccid > ci.ccid \/ ci.replica \notin DOMAIN c.replicas THEN c
    ELSE LET newLeader == ci.leader /\ ~c.replicas[ci.replica].leader
         IN  [ccid     |-> c.ccid,
              replicas |-> [i \in DOMAIN c.replicas |->
                  [c.replicas[i] EXCEPT !.leader =
                      IF i = ci.replica THEN ci.leader ELSE @ /\ ~newLeader]]]

-----------------------------------------------------------------------------
(* multiShard.update: the whole report.                                    *)

FullInfo(ci) == ~ci.pending /\ ~ci.incomplete

ReportPanics(image, nhi) ==
    \E s \in DOMAIN nhi.info \cap DOMAIN image :
        FullInfo(nhi.info[s]) /\ SyncShardPanics(image[s], nhi.info[s])

UpdateShard(c, ci, now) ==
    LET synced == IF FullInfo(ci) THEN SyncShard(c, ci, now) ELSE c
    IN  SyncLeaderInfo(UpdateNodeTick(synced, ci, now), ci)

CreateShard(ci, now) ==
    SyncLeaderInfo(UpdateNodeTick(GetShard(ci, now), ci, now), ci)

UpdateShardImage(image, nhi, now) ==
    LET created == {s \in DOMAIN nhi.info : FullInfo(nhi.info[s])}
    IN  [s \in DOMAIN image \cup created |->
            IF s \notin DOMAIN image THEN CreateShard(nhi.info[s], now)
            ELSE IF s \in DOMAIN nhi.info THEN UpdateShard(image[s], nhi.info[s], now)
            ELSE image[s]]

\* The zombies of a report: the image is behind by the time it is consulted
\* exactly when syncShard rejects, so one condition serves all three branches.
\* A pending or incomplete replica is judged only against a non-empty image.
Zombies(image, nhi) ==
    {[shard |-> s, replica |-> nhi.info[s].replica, addr |-> nhi.addr] :
        s \in {t \in DOMAIN nhi.info \cap DOMAIN image :
                  /\ KillRequestRequired(image[t], nhi.info[t])
                  /\ \/ FullInfo(nhi.info[t])
                     \/ /\ DOMAIN image[t].replicas # {}
                        /\ image[t].ccid > 0}}
=============================================================================

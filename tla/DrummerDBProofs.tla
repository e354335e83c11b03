--------------------------- MODULE DrummerDBProofs ---------------------------
(***************************************************************************)
(* Proofs about the Drummer DB: as DrummerDBService has it, for any set of *)
(* shards, replicas and NodeHosts, any history of their memberships that   *)
(* raft allows and any interleaving of log entries; and, at the end, about *)
(* its replicas as DrummerDBReplicas has them, for any log, any snapshots  *)
(* and any number of crashes.                                              *)
(***************************************************************************)
EXTENDS DrummerDBReplicas, FiniteSetTheorems, TLAPS

-----------------------------------------------------------------------------
(* The records (applyKVUpdate).                                             *)

(* No key is ever removed, a new key is always accepted, and a finalized    *)
(* record stays as it is.                                                   *)
LEMMA KVUpdate ==
    ASSUME NEW kv
    PROVE  /\ DOMAIN kvMap \subseteq DOMAIN UpdateKV(kvMap, kv)
           /\ kv.key \in DOMAIN UpdateKV(kvMap, kv)
           /\ \A k \in DOMAIN kvMap :
                 kvMap[k].finalized => UpdateKV(kvMap, kv)[k] = kvMap[k]
  <1>1. DBKVUpdated # DBKVFinalized
    BY DEF DBKVUpdated, DBKVFinalized
  <1>2. CASE KVResult(kvMap, kv) # DBKVUpdated
    <2>1. kv.key \in DOMAIN kvMap
      BY <1>2 DEF KVResult
    <2> QED
      BY <1>2, <2>1 DEF UpdateKV
  <1>3. CASE KVResult(kvMap, kv) = DBKVUpdated
    <2>1. UpdateKV(kvMap, kv) = [k \in DOMAIN kvMap \cup {kv.key} |->
             IF k = kv.key THEN KVRecord(kv) ELSE kvMap[k]]
      BY <1>3 DEF UpdateKV
    <2>2. kv.key \in DOMAIN kvMap => ~kvMap[kv.key].finalized
      BY <1>1, <1>3 DEF KVResult
    <2> QED
      BY <2>1, <2>2
  <1> QED
    BY <1>2, <1>3

(* What a step does to the records.                                         *)
LEMMA KVStep ==
    ASSUME [NextDB]_dbVars
    PROVE  kvMap' = kvMap \/ \E kv : kvMap' = UpdateKV(kvMap, kv)
  <1>1. CASE UNCHANGED dbVars
    BY <1>1 DEF dbVars
  <1>2. CASE Tick \/ Create
    BY <1>2 DEF Tick, ApplyTickUpdate, Create, TryCreateShard
  <1>3. CASE \E h \in Hosts : Report(h)
    BY <1>3 DEF Report, ApplyNodeHostInfoUpdate
  <1>4. CASE Order
    <2>1. PICK reqs \in Batches : ApplyRequestsUpdate(reqs)
      BY <1>4 DEF Order
    <2>2. kvMap' = kvMap \/ kvMap' = UpdateKV(kvMap, FinalKV(LaunchedKey, "true"))
      BY <2>1 DEF ApplyRequestsUpdate
    <2> QED
      BY <2>2
  <1>5. CASE Put
    BY <1>5 DEF Put, ApplyKVUpdate
  <1> QED
    BY <1>1, <1>2, <1>3, <1>4, <1>5 DEF NextDB

(* The launched and bootstrapped flags and the regions, once written, never *)
(* change (applyKVUpdate, proposeFinalizedKV).                              *)
THEOREM FinalizedIsFinalCorrect == Spec => FinalizedIsFinal
  <1>1. [NextDB]_dbVars => [\A k \in DOMAIN kvMap :
           kvMap[k].finalized => k \in DOMAIN kvMap' /\ kvMap'[k] = kvMap[k]]_dbVars
    BY KVStep, KVUpdate
  <1> QED
    BY <1>1, PTL DEF Spec, FinalizedIsFinal

-----------------------------------------------------------------------------
(* The launch deadline.                                                     *)

(* The deadline is set with the launched flag, and it is never reached      *)
(* without failing the deployment.                                          *)
LaunchInv ==
    /\ tick \in Nat
    /\ launchDeadline \in Nat
    /\ launchDeadline > 0 => Launched
    /\ FailsOnlyAtLaunch

(* The flag is written by the batch that launches.                          *)
LEMMA LaunchFlag ==
    ASSUME NEW reqs, ApplyRequestsUpdate(reqs),
           launchDeadline' # launchDeadline
    PROVE  /\ ~Launched
           /\ Launched'
           /\ launchDeadline' = tick + LaunchDeadlineTick * TickIntervalSecond
  <1>1. /\ ~SecondLaunch(reqs) /\ IsLaunchRequests(reqs)
        /\ kvMap' = UpdateKV(kvMap, FinalKV(LaunchedKey, "true"))
        /\ launchDeadline' = tick + LaunchDeadlineTick * TickIntervalSecond
    BY DEF ApplyRequestsUpdate
  <1>2. FinalKV(LaunchedKey, "true").key = LaunchedKey
    BY DEF FinalKV
  <1>3. LaunchedKey \in DOMAIN kvMap'
    BY <1>1, <1>2, KVUpdate
  <1> QED
    BY <1>1, <1>3 DEF SecondLaunch, Launched

(* A flag that is set stays set.                                            *)
LEMMA LaunchedStays ==
    ASSUME [NextDB]_dbVars, Launched
    PROVE  Launched'
  BY KVStep, KVUpdate DEF Launched

(* The deadline of a step that is not a launch: what it was, or none.       *)
LEMMA DeadlineStep ==
    ASSUME [NextDB]_dbVars
    PROVE  \/ launchDeadline' \in {0, launchDeadline}
           \/ \E reqs \in Batches : ApplyRequestsUpdate(reqs)
  <1>1. CASE UNCHANGED dbVars
    BY <1>1 DEF dbVars
  <1>2. CASE Tick \/ Create \/ Put
    BY <1>2 DEF Tick, ApplyTickUpdate, Create, TryCreateShard, Put, ApplyKVUpdate
  <1>3. CASE \E h \in Hosts : Report(h)
    BY <1>3 DEF Report, ApplyNodeHostInfoUpdate, DeadlineAfter
  <1> QED
    BY <1>1, <1>2, <1>3 DEF NextDB, Order

(* The deadline is armed only by the first launch batch of a deployment,    *)
(* together with the launched flag (applyRequestsUpdate).                   *)
THEOREM LaunchedOnceCorrect == Spec => LaunchedOnce
  <1>1. [NextDB]_dbVars => [launchDeadline' # launchDeadline =>
           \/ ~Launched /\ Launched'
           \/ launchDeadline' = 0]_dbVars
    BY DeadlineStep, LaunchFlag
  <1> QED
    BY <1>1, PTL DEF Spec, LaunchedOnce

LEMMA LaunchInvNext == LaunchInv /\ [NextDB]_dbVars => LaunchInv'
  <1> SUFFICES ASSUME LaunchInv, [NextDB]_dbVars
               PROVE  LaunchInv'
    OBVIOUS
  <1>1. CASE UNCHANGED dbVars
    BY <1>1 DEF LaunchInv, FailsOnlyAtLaunch, Launched, dbVars
  <1>2. CASE Tick
    <2>1. /\ tick' = tick + TickIntervalSecond
          /\ launchDeadline' = launchDeadline /\ kvMap' = kvMap
          /\ failed' = DeadlineMissed(tick')
      BY <1>2, Zenon DEF Tick, ApplyTickUpdate
    <2>2. tick' \in Nat
      BY <2>1, DrummerDBAssumption DEF LaunchInv
    <2>3. failed' => launchDeadline > 0 /\ tick' > launchDeadline
      BY <2>1, Zenon DEF DeadlineMissed
    <2> QED
      BY <2>1, <2>2, <2>3 DEF LaunchInv, FailsOnlyAtLaunch, Launched
  <1>3. CASE NextDB /\ ~Tick
    <2>1. tick' = tick /\ ~failed /\ failed' = failed
      <3>1. CASE \E h \in Hosts : Report(h)
        BY <3>1 DEF Report, ApplyNodeHostInfoUpdate, Running
      <3>2. CASE Order
        BY <3>2 DEF Order, ApplyRequestsUpdate, Running
      <3>3. CASE Put \/ Create
        BY <3>3 DEF Put, ApplyKVUpdate, Create, TryCreateShard, Running
      <3> QED
        BY <1>3, <3>1, <3>2, <3>3 DEF NextDB
    <2>2. CASE launchDeadline' \in {0, launchDeadline}
      BY <2>1, <2>2, LaunchedStays DEF LaunchInv, FailsOnlyAtLaunch
    <2>3. CASE launchDeadline' \notin {0, launchDeadline}
      <3>1. PICK reqs \in Batches : ApplyRequestsUpdate(reqs)
        BY <2>3, DeadlineStep
      <3>2. /\ Launched'
            /\ launchDeadline' = tick + LaunchDeadlineTick * TickIntervalSecond
        BY <2>3, <3>1, LaunchFlag
      <3>3. launchDeadline' \in Nat
        BY <3>2, DrummerDBAssumption DEF LaunchInv
      <3> QED
        BY <2>1, <3>2, <3>3 DEF LaunchInv, FailsOnlyAtLaunch
    <2> QED
      BY <2>2, <2>3
  <1> QED
    BY <1>1, <1>2, <1>3

(* A deployment is given up only after its launch and only past the         *)
(* deadline that the launch set (checkLaunchDeadline).                      *)
THEOREM FailsOnlyAtLaunchCorrect == Spec => []FailsOnlyAtLaunch
  <1>1. Init_DB => LaunchInv
    BY DEF Init_DB, LaunchInv, FailsOnlyAtLaunch
  <1>2. LaunchInv => FailsOnlyAtLaunch
    BY DEF LaunchInv
  <1> QED
    BY <1>1, <1>2, LaunchInvNext, PTL DEF Spec

-----------------------------------------------------------------------------
(* The image.  GoodShard is what the image of one shard always is: the      *)
(* membership that raft gave it at the index it is filed under, with clock  *)
(* readings of the past and at most one leader.                             *)

GoodReplica(r, addr, now) ==
    /\ r \in [addr : Hosts, leader : BOOLEAN, tick : Nat, first : Nat]
    /\ r.addr = addr
    /\ r.tick <= now
    /\ r.first <= now

OneLeader(replicas) ==
    \A i, j \in DOMAIN replicas :
        replicas[i].leader /\ replicas[j].leader => i = j

GoodShard(s, c, now) ==
    /\ c.ccid \in Configs(s)
    /\ DOMAIN c.replicas = Members(s, c.ccid)
    /\ \A i \in Members(s, c.ccid) :
          GoodReplica(c.replicas[i], History[s][c.ccid][i], now)
    /\ OneLeader(c.replicas)

\* A complete report of shard s.
FullReport(s, ci) ==
    /\ ci.ccid \in Configs(s)
    /\ ci.replicas = History[s][ci.ccid]

(* The memberships of a shard are numbered from 1, and each maps some of    *)
(* the replica ids to NodeHosts.                                            *)
LEMMA HistoryFacts ==
    ASSUME NEW s \in ShardIds
    PROVE  /\ Configs(s) = 1..Len(History[s])
           /\ Len(History[s]) \in Nat
           /\ 1 \in Configs(s)
           /\ \A c \in Configs(s) :
                 /\ History[s][c] \in [Members(s, c) -> Hosts]
                 /\ Members(s, c) \subseteq ReplicaIds
  <1>1. History[s] \in Seq(Memberships) /\ History[s] # <<>>
    BY HistoryAssumption
  <1>2. /\ Configs(s) = 1..Len(History[s]) /\ Len(History[s]) \in Nat
        /\ 1 \in Configs(s)
    BY <1>1 DEF Configs
  <1>3. ASSUME NEW c \in Configs(s)
        PROVE  /\ History[s][c] \in [Members(s, c) -> Hosts]
               /\ Members(s, c) \subseteq ReplicaIds
    <2>1. History[s][c] \in Memberships
      BY <1>1, <1>3, <1>2
    <2> QED
      BY <2>1 DEF Memberships, Members
  <1> QED
    BY <1>2, <1>3

(* A member keeps its address from one membership to another.               *)
LEMMA SameAddress ==
    ASSUME NEW s \in ShardIds, NEW c \in Configs(s), NEW d \in Configs(s),
           NEW i \in Members(s, c), i \in Members(s, d)
    PROVE  History[s][c][i] = History[s][d][i]
  BY HistoryAssumption

(* syncShard keeps the image of a shard right, and never moves it back.     *)
LEMMA SyncShardGood ==
    ASSUME NEW s \in ShardIds, NEW now \in Nat, NEW c, GoodShard(s, c, now),
           NEW ci, FullReport(s, ci)
    PROVE  /\ GoodShard(s, SyncShard(c, ci, now), now)
           /\ SyncShard(c, ci, now).ccid >= c.ccid
  <1>0. c.ccid \in Nat /\ ci.ccid \in Nat
    BY HistoryFacts DEF GoodShard, FullReport
  <1>1. CASE c.ccid > ci.ccid
    BY <1>0, <1>1 DEF SyncShard
  <1>2. CASE ~(c.ccid > ci.ccid)
    <2> DEFINE d == SyncShard(c, ci, now)
    <2>1. /\ d.ccid = ci.ccid
          /\ d.replicas = [i \in Members(s, ci.ccid) |->
                              IF i \in DOMAIN c.replicas THEN c.replicas[i]
                              ELSE NewReplica(ci.replicas[i], now)]
      BY <1>2 DEF SyncShard, FullReport, Members
    <2>2. ASSUME NEW i \in Members(s, ci.ccid)
          PROVE  GoodReplica(d.replicas[i], History[s][ci.ccid][i], now)
      <3>1. CASE i \in DOMAIN c.replicas
        BY <2>1, <2>2, <3>1, SameAddress DEF GoodShard, FullReport
      <3>2. CASE i \notin DOMAIN c.replicas
        <4>1. d.replicas[i] = NewReplica(History[s][ci.ccid][i], now)
          BY <2>1, <2>2, <3>2 DEF FullReport
        <4>2. History[s][ci.ccid][i] \in Hosts
          BY <2>2, HistoryFacts DEF FullReport
        <4> QED
          BY <4>1, <4>2 DEF NewReplica, GoodReplica
      <3> QED
        BY <3>1, <3>2
    <2>3. OneLeader(d.replicas)
      <3>1. ASSUME NEW i \in DOMAIN d.replicas, d.replicas[i].leader
            PROVE  i \in DOMAIN c.replicas /\ c.replicas[i].leader
        BY <2>1, <3>1 DEF NewReplica
      <3>2. \A i, j \in DOMAIN c.replicas :
                c.replicas[i].leader /\ c.replicas[j].leader => i = j
        BY DEF GoodShard, OneLeader
      <3> QED
        BY <3>1, <3>2 DEF OneLeader
    <2>4. d.ccid >= c.ccid
      BY <1>0, <1>2, <2>1
    <2> HIDE DEF d
    <2>5. GoodShard(s, d, now)
      BY <2>1, <2>2, <2>3 DEF GoodShard, FullReport
    <2> QED
      BY <2>4, <2>5 DEF d
  <1> QED
    BY <1>1, <1>2

(* A replica record that is seen, or marked or unmarked as leader.          *)
LEMMA ReplicaSeen ==
    ASSUME NEW now \in Nat, NEW addr, NEW r, GoodReplica(r, addr, now)
    PROVE  /\ GoodReplica([r EXCEPT !.tick = now], addr, now)
           /\ [r EXCEPT !.tick = now].leader = r.leader
  <1>1. r \in [addr : Hosts, leader : BOOLEAN, tick : Nat, first : Nat]
    BY DEF GoodReplica
  <1>2. [r EXCEPT !.tick = now] =
            [addr |-> r.addr, leader |-> r.leader, tick |-> now, first |-> r.first]
    BY <1>1
  <1> QED
    BY <1>1, <1>2 DEF GoodReplica

LEMMA ReplicaMarked ==
    ASSUME NEW now \in Nat, NEW addr, NEW r, GoodReplica(r, addr, now),
           NEW l \in BOOLEAN
    PROVE  /\ GoodReplica([r EXCEPT !.leader = l], addr, now)
           /\ [r EXCEPT !.leader = l].leader = l
  <1>1. r \in [addr : Hosts, leader : BOOLEAN, tick : Nat, first : Nat]
    BY DEF GoodReplica
  <1>2. [r EXCEPT !.leader = l] =
            [addr |-> r.addr, leader |-> l, tick |-> r.tick, first |-> r.first]
    BY <1>1
  <1> QED
    BY <1>1, <1>2 DEF GoodReplica

(* Recording the time of the report keeps the image of a shard right.       *)
LEMMA NodeTickGood ==
    ASSUME NEW s \in ShardIds, NEW now \in Nat, NEW c, GoodShard(s, c, now), NEW ci
    PROVE  /\ GoodShard(s, UpdateNodeTick(c, ci, now), now)
           /\ UpdateNodeTick(c, ci, now).ccid = c.ccid
  <1> DEFINE d == UpdateNodeTick(c, ci, now)
  <1>1. /\ d.ccid = c.ccid
        /\ DOMAIN d.replicas = DOMAIN c.replicas
        /\ \A i \in DOMAIN c.replicas :
              \/ d.replicas[i] = [c.replicas[i] EXCEPT !.tick = now]
              \/ d.replicas[i] = c.replicas[i]
    BY DEF UpdateNodeTick
  <1> HIDE DEF d
  <1>2. ASSUME NEW i \in Members(s, c.ccid)
        PROVE  /\ GoodReplica(d.replicas[i], History[s][c.ccid][i], now)
               /\ d.replicas[i].leader = c.replicas[i].leader
    <2>1. GoodReplica(c.replicas[i], History[s][c.ccid][i], now)
      BY <1>2 DEF GoodShard
    <2>2. i \in DOMAIN c.replicas
      BY <1>2 DEF GoodShard
    <2>3. CASE d.replicas[i] = c.replicas[i]
      BY <2>1, <2>3
    <2>4. CASE d.replicas[i] = [c.replicas[i] EXCEPT !.tick = now]
      BY <2>1, <2>4, ReplicaSeen
    <2> QED
      BY <1>1, <2>2, <2>3, <2>4
  <1>3. OneLeader(d.replicas)
    BY <1>1, <1>2, Zenon DEF GoodShard, OneLeader
  <1> QED
    BY <1>1, <1>2, <1>3 DEF GoodShard, d

(* So does syncLeaderInfo: who becomes the leader deposes the others.       *)
LEMMA LeaderInfoGood ==
    ASSUME NEW s \in ShardIds, NEW now \in Nat, NEW c, GoodShard(s, c, now),
           NEW ci, ci.leader \in BOOLEAN
    PROVE  /\ GoodShard(s, SyncLeaderInfo(c, ci), now)
           /\ SyncLeaderInfo(c, ci).ccid = c.ccid
  <1>1. CASE c.ccid > ci.ccid \/ ci.replica \notin DOMAIN c.replicas
    BY <1>1 DEF SyncLeaderInfo
  <1>2. CASE ~(c.ccid > ci.ccid \/ ci.replica \notin DOMAIN c.replicas)
    <2> DEFINE newLeader == ci.leader /\ ~c.replicas[ci.replica].leader
               mark(i) == IF i = ci.replica THEN ci.leader
                          ELSE c.replicas[i].leader /\ ~newLeader
               d == SyncLeaderInfo(c, ci)
    <2>1. /\ d.ccid = c.ccid
          /\ DOMAIN d.replicas = DOMAIN c.replicas
          /\ \A i \in DOMAIN c.replicas :
                d.replicas[i] = [c.replicas[i] EXCEPT !.leader = mark(i)]
      BY <1>2, Zenon DEF SyncLeaderInfo
    <2>2. \A i : mark(i) \in BOOLEAN
      OBVIOUS
    <2> HIDE DEF d, mark
    <2>3. ASSUME NEW i \in Members(s, c.ccid)
          PROVE  /\ GoodReplica(d.replicas[i], History[s][c.ccid][i], now)
                 /\ d.replicas[i].leader = mark(i)
      <3>1. GoodReplica(c.replicas[i], History[s][c.ccid][i], now)
        BY <2>3 DEF GoodShard
      <3>2. d.replicas[i] = [c.replicas[i] EXCEPT !.leader = mark(i)]
        BY <2>1, <2>3 DEF GoodShard
      <3> QED
        BY <2>2, <3>1, <3>2, ReplicaMarked
    <2>4. ASSUME NEW i \in DOMAIN c.replicas, mark(i),
                 NEW j \in DOMAIN c.replicas, mark(j)
          PROVE  i = j
      <3>1. OneLeader(c.replicas) /\ ci.replica \in DOMAIN c.replicas
        BY <1>2 DEF GoodShard
      <3> QED
        BY <2>4, <3>1, Zenon DEF OneLeader, mark
    <2>5. OneLeader(d.replicas)
      BY <2>1, <2>3, <2>4, Zenon DEF GoodShard, OneLeader
    <2>6. GoodShard(s, d, now)
      BY <2>1, <2>3, <2>5 DEF GoodShard
    <2> QED
      BY <2>1, <2>6 DEF d
  <1> QED
    BY <1>1, <1>2

(* A shard that is new to the image (getShard).                             *)
LEMMA GetShardGood ==
    ASSUME NEW s \in ShardIds, NEW now \in Nat, NEW ci, FullReport(s, ci),
           ci.leader \in BOOLEAN
    PROVE  /\ GoodShard(s, GetShard(ci, now), now)
           /\ GetShard(ci, now).ccid = ci.ccid
  <1> DEFINE d == GetShard(ci, now)
             mark(i) == i = ci.replica /\ ci.leader
  <1>1. /\ d.ccid = ci.ccid
        /\ DOMAIN d.replicas = Members(s, ci.ccid)
        /\ \A i \in Members(s, ci.ccid) :
              d.replicas[i] = [NewReplica(History[s][ci.ccid][i], now)
                                  EXCEPT !.leader = mark(i)]
    BY Zenon DEF GetShard, FullReport, Members
  <1>2. \A i : mark(i) \in BOOLEAN
    OBVIOUS
  <1> HIDE DEF d, mark
  <1>3. ASSUME NEW i \in Members(s, ci.ccid)
        PROVE  /\ GoodReplica(d.replicas[i], History[s][ci.ccid][i], now)
               /\ d.replicas[i].leader = mark(i)
    <2>1. History[s][ci.ccid][i] \in Hosts
      BY <1>3, HistoryFacts DEF FullReport
    <2>2. GoodReplica(NewReplica(History[s][ci.ccid][i], now),
                      History[s][ci.ccid][i], now)
      BY <2>1 DEF NewReplica, GoodReplica
    <2>3. PICK r : r = NewReplica(History[s][ci.ccid][i], now)
      OBVIOUS
    <2>4. GoodReplica(r, History[s][ci.ccid][i], now)
      BY <2>2, <2>3
    <2>5. d.replicas[i] = [r EXCEPT !.leader = mark(i)]
      BY <1>1, <1>3, <2>3
    <2> QED
      BY <1>2, <2>4, <2>5, ReplicaMarked
  <1>4. OneLeader(d.replicas)
    BY <1>1, <1>3, Zenon DEF OneLeader, mark
  <1>5. GoodShard(s, d, now)
    BY <1>1, <1>3, <1>4 DEF GoodShard, FullReport
  <1> QED
    BY <1>1, <1>5 DEF d

LEMMA CreateShardGood ==
    ASSUME NEW s \in ShardIds, NEW now \in Nat, NEW ci, FullReport(s, ci),
           ci.leader \in BOOLEAN
    PROVE  GoodShard(s, CreateShard(ci, now), now)
  BY GetShardGood, NodeTickGood, LeaderInfoGood DEF CreateShard

LEMMA UpdateShardGood ==
    ASSUME NEW s \in ShardIds, NEW now \in Nat, NEW c, GoodShard(s, c, now),
           NEW ci, FullInfo(ci) => FullReport(s, ci), ci.leader \in BOOLEAN
    PROVE  /\ GoodShard(s, UpdateShard(c, ci, now), now)
           /\ UpdateShard(c, ci, now).ccid >= c.ccid
  <1> DEFINE synced == IF FullInfo(ci) THEN SyncShard(c, ci, now) ELSE c
  <1>1. c.ccid \in Nat
    BY HistoryFacts DEF GoodShard
  <1>2. GoodShard(s, synced, now) /\ synced.ccid >= c.ccid
    BY <1>1, SyncShardGood
  <1>3. UpdateShard(c, ci, now) = SyncLeaderInfo(UpdateNodeTick(synced, ci, now), ci)
    BY DEF UpdateShard
  <1> HIDE DEF synced
  <1> QED
    BY <1>2, <1>3, NodeTickGood, LeaderInfoGood

(* The consistency checks of syncShard hold: a report and an image of one   *)
(* index show one membership, and a later one moves no replica.             *)
LEMMA SyncShardNeverPanics ==
    ASSUME NEW s \in ShardIds, NEW now \in Nat, NEW c, GoodShard(s, c, now),
           NEW ci, FullReport(s, ci)
    PROVE  ~SyncShardPanics(c, ci)
  <1>1. /\ DOMAIN ci.replicas = Members(s, ci.ccid)
        /\ DOMAIN c.replicas = Members(s, c.ccid)
    BY DEF GoodShard, FullReport, Members
  <1>2. ASSUME NEW i \in DOMAIN c.replicas \cap DOMAIN ci.replicas
        PROVE  c.replicas[i].addr = ci.replicas[i]
    <2>1. c.replicas[i].addr = History[s][c.ccid][i]
      BY <1>1, <1>2 DEF GoodShard, GoodReplica
    <2>2. History[s][c.ccid][i] = History[s][ci.ccid][i]
      BY <1>1, <1>2, SameAddress DEF GoodShard, FullReport
    <2> QED
      BY <2>1, <2>2 DEF FullReport
  <1>3. \A i, j \in DOMAIN ci.replicas : i # j => ci.replicas[i] # ci.replicas[j]
    BY <1>1, HistoryAssumption DEF FullReport
  <1> QED
    BY <1>1, <1>2, <1>3, Zenon DEF SyncShardPanics

-----------------------------------------------------------------------------
(* Reports.                                                                 *)

(* What a NodeHost says of a shard: a complete report shows a membership of *)
(* it, and the replica is or was a member of it no later than what is known *)
(* to the image.                                                            *)
LEMMA InfoFacts ==
    ASSUME NEW s \in ShardIds, NEW h \in Hosts, NEW ci \in ShardInfos(h, s)
    PROVE  /\ FullInfo(ci) => FullReport(s, ci)
           /\ ci.leader \in BOOLEAN
           /\ ci.replica \in HostedReplicas(h, s)
  <1>1. CASE ci \in {PendingInfo(i) : i \in HostedReplicas(h, s)}
    <2>1. PICK i \in HostedReplicas(h, s) : ci = PendingInfo(i)
      BY <1>1
    <2>2. ci.replica = i /\ ci.leader = FALSE /\ ci.pending = TRUE
      BY <2>1 DEF PendingInfo
    <2> QED
      BY <2>2 DEF FullInfo
  <1>2. CASE ci \in {CompleteInfo(s, i, c, l) :
                        i \in HostedReplicas(h, s), c \in Configs(s), l \in BOOLEAN}
    BY <1>2 DEF CompleteInfo, FullInfo, FullReport
  <1>3. CASE ci \in {IncompleteInfo(i, c, l) :
                        i \in HostedReplicas(h, s), c \in KnownConfigs(s), l \in BOOLEAN}
    BY <1>3 DEF IncompleteInfo, FullInfo
  <1> QED
    BY <1>1, <1>2, <1>3 DEF ShardInfos

(* A replica that the image has moved past is not in any later membership.  *)
LEMMA ZombieRemoved ==
    ASSUME NEW s \in DOMAIN shardImage, s \in ShardIds,
           GoodShard(s, shardImage[s], tick),
           NEW h \in Hosts, NEW i \in HostedReplicas(h, s),
           i \notin DOMAIN shardImage[s].replicas,
           NEW e \in Configs(s), e >= shardImage[s].ccid
    PROVE  i \notin Members(s, e)
  <1> DEFINE now == shardImage[s].ccid
  <1>1. now \in Configs(s) /\ i \notin Members(s, now)
    BY DEF GoodShard
  <1>2. PICK d \in Configs(s) : d <= now /\ i \in Members(s, d)
    <2>1. CASE i \in Members(s, 1)
      BY <1>1, <2>1, HistoryFacts
    <2>2. CASE \E c \in 1..now : i \in Members(s, c)
      BY <1>1, <2>2, HistoryFacts
    <2> QED
      BY <2>1, <2>2 DEF HostedReplicas, Started
  <1>3. now \in d..e
    BY <1>1, <1>2, HistoryFacts
  <1>4. i \in Members(s, e) => \A k \in d..e : i \in Members(s, k)
    BY <1>2, HistoryAssumption
  <1> QED
    BY <1>1, <1>3, <1>4

(* What Report(h) may submit.                                               *)
IsReport(h, nhi) ==
    /\ nhi.addr = h
    /\ DOMAIN nhi.info \subseteq ShardIds
    /\ \A s \in DOMAIN nhi.info : nhi.info[s] \in ShardInfos(h, s)

LEMMA ReportShape ==
    ASSUME NEW h \in Hosts, Report(h)
    PROVE  \E nhi : /\ IsReport(h, nhi)
                    /\ nhi.region \in Regions
                    /\ nhi.plog \subseteq ShardIds \X ReplicaIds
                    /\ ApplyNodeHostInfoUpdate(nhi)
  <1>1. PICK S \in SUBSET ShardIds, region \in Regions, included \in PlogIncluded :
          \E info \in [S -> UNION {ShardInfos(h, s) : s \in S}] :
            /\ \A s \in S : info[s] \in ShardInfos(h, s)
            /\ ApplyNodeHostInfoUpdate(
                  [addr |-> h, region |-> region, info |-> info,
                   plogIncluded |-> included,
                   plog |-> {<<s, info[s].replica>> : s \in S}])
    BY DEF Report
  <1>2. PICK info \in [S -> UNION {ShardInfos(h, s) : s \in S}] :
            /\ \A s \in S : info[s] \in ShardInfos(h, s)
            /\ ApplyNodeHostInfoUpdate(
                  [addr |-> h, region |-> region, info |-> info,
                   plogIncluded |-> included,
                   plog |-> {<<s, info[s].replica>> : s \in S}])
    BY <1>1
  <1> DEFINE nhi == [addr |-> h, region |-> region, info |-> info,
                     plogIncluded |-> included,
                     plog |-> {<<s, info[s].replica>> : s \in S}]
  <1>3. IsReport(h, nhi)
    BY <1>2 DEF IsReport
  <1>4. nhi.plog \subseteq ShardIds \X ReplicaIds
    <2>1. \A s \in S : info[s].replica \in HostedReplicas(h, s)
      BY <1>2, InfoFacts
    <2> QED
      BY <2>1 DEF HostedReplicas
  <1> QED
    BY <1>2, <1>3, <1>4

ImageInv ==
    /\ tick \in Nat
    /\ DOMAIN shardImage \subseteq ShardIds
    /\ \A s \in DOMAIN shardImage : GoodShard(s, shardImage[s], tick)
    /\ KilledAreRemoved
    /\ ~panicked

(* Folding one report into the image (multiShard.update).                   *)
LEMMA ImageUpdated ==
    ASSUME ImageInv, NEW h \in Hosts, NEW nhi, IsReport(h, nhi)
    PROVE  LET image == UpdateShardImage(shardImage, nhi, tick)
           IN  /\ DOMAIN shardImage \subseteq DOMAIN image
               /\ DOMAIN image \subseteq ShardIds
               /\ \A s \in DOMAIN image : GoodShard(s, image[s], tick)
               /\ \A s \in DOMAIN shardImage : image[s].ccid >= shardImage[s].ccid
  <1> DEFINE image == UpdateShardImage(shardImage, nhi, tick)
             created == {s \in DOMAIN nhi.info : FullInfo(nhi.info[s])}
  <1>1. /\ DOMAIN image = DOMAIN shardImage \cup created
        /\ \A s \in DOMAIN image :
              image[s] = IF s \notin DOMAIN shardImage
                           THEN CreateShard(nhi.info[s], tick)
                         ELSE IF s \in DOMAIN nhi.info
                           THEN UpdateShard(shardImage[s], nhi.info[s], tick)
                         ELSE shardImage[s]
    BY DEF UpdateShardImage
  <1>2. /\ \A s \in DOMAIN nhi.info : /\ s \in ShardIds
                                      /\ nhi.info[s] \in ShardInfos(h, s)
        /\ tick \in Nat
        /\ DOMAIN shardImage \subseteq ShardIds
    BY DEF IsReport, ImageInv
  <1>3. \A s \in DOMAIN nhi.info :
           /\ FullInfo(nhi.info[s]) => FullReport(s, nhi.info[s])
           /\ nhi.info[s].leader \in BOOLEAN
    BY <1>2, InfoFacts
  <1> HIDE DEF image
  <1>4. ASSUME NEW s \in DOMAIN shardImage
        PROVE  /\ GoodShard(s, image[s], tick)
               /\ image[s].ccid >= shardImage[s].ccid
    <2>1. GoodShard(s, shardImage[s], tick) /\ s \in DOMAIN image
      BY <1>1, <1>4 DEF ImageInv
    <2>2. CASE s \in DOMAIN nhi.info
      BY <1>1, <1>2, <1>3, <2>1, <2>2, UpdateShardGood
    <2>3. CASE s \notin DOMAIN nhi.info
      <3>1. shardImage[s].ccid \in Nat
        BY <1>2, <2>1, HistoryFacts DEF GoodShard
      <3> QED
        BY <1>1, <2>1, <2>3, <3>1
    <2> QED
      BY <2>2, <2>3
  <1>5. ASSUME NEW s \in created, s \notin DOMAIN shardImage
        PROVE  GoodShard(s, image[s], tick)
    BY <1>1, <1>2, <1>3, <1>5, CreateShardGood
  <1>6. DOMAIN image \subseteq ShardIds
    BY <1>1, <1>2
  <1> QED
    BY <1>1, <1>4, <1>5, <1>6 DEF image

(* What a report puts on the list to be killed.                             *)
LEMMA ZombiesRemoved ==
    ASSUME ImageInv, NEW h \in Hosts, NEW nhi, IsReport(h, nhi),
           NEW k \in Zombies(shardImage, nhi)
    PROVE  /\ k.shard \in DOMAIN shardImage
           /\ \A e \in Configs(k.shard) :
                 e >= shardImage[k.shard].ccid => k.replica \notin Members(k.shard, e)
  <1>1. PICK s \in DOMAIN nhi.info \cap DOMAIN shardImage :
           /\ KillRequestRequired(shardImage[s], nhi.info[s])
           /\ k.shard = s /\ k.replica = nhi.info[s].replica
    BY DEF Zombies
  <1>2. nhi.info[s].replica \in HostedReplicas(h, s)
    BY InfoFacts DEF IsReport
  <1>3. GoodShard(s, shardImage[s], tick) /\ s \in ShardIds
    BY DEF ImageInv
  <1> QED
    BY <1>1, <1>2, <1>3, ZombieRemoved DEF KillRequestRequired

LEMMA ReportKeepsImage ==
    ASSUME ImageInv, NEW h \in Hosts, Report(h)
    PROVE  /\ ImageInv'
           /\ \A s \in DOMAIN shardImage :
                 s \in DOMAIN shardImage' /\ shardImage'[s].ccid >= shardImage[s].ccid
  <1>1. PICK nhi : IsReport(h, nhi) /\ ApplyNodeHostInfoUpdate(nhi)
    BY ReportShape
  <1>2. ~ReportPanics(shardImage, nhi)
    <2>1. ASSUME NEW s \in DOMAIN nhi.info \cap DOMAIN shardImage,
                 FullInfo(nhi.info[s])
          PROVE  ~SyncShardPanics(shardImage[s], nhi.info[s])
      <3>1. s \in ShardIds /\ FullReport(s, nhi.info[s])
        BY <1>1, <2>1, InfoFacts DEF IsReport
      <3>2. GoodShard(s, shardImage[s], tick) /\ tick \in Nat
        BY <2>1 DEF ImageInv
      <3> QED
        BY <3>1, <3>2, SyncShardNeverPanics
    <2> QED
      BY <2>1 DEF ReportPanics
  <1>3. /\ ~panicked' /\ tick' = tick
        /\ shardImage' = UpdateShardImage(shardImage, nhi, tick)
        /\ replicasToKill' = replicasToKill \cup Zombies(shardImage, nhi)
    BY <1>1, <1>2, Zenon DEF ApplyNodeHostInfoUpdate
  <1>4. /\ DOMAIN shardImage \subseteq DOMAIN shardImage'
        /\ DOMAIN shardImage' \subseteq ShardIds
        /\ \A s \in DOMAIN shardImage' : GoodShard(s, shardImage'[s], tick)
        /\ \A s \in DOMAIN shardImage : shardImage'[s].ccid >= shardImage[s].ccid
    BY <1>1, <1>3, ImageUpdated
  <1>5. \A s \in DOMAIN shardImage : /\ shardImage[s].ccid \in Nat
                                     /\ shardImage'[s].ccid \in Nat
                                     /\ Configs(s) \subseteq Nat
    BY <1>4, HistoryFacts DEF ImageInv, GoodShard
  <1>6. ASSUME NEW k \in replicasToKill'
        PROVE  /\ k.shard \in DOMAIN shardImage'
               /\ \A c \in Configs(k.shard) :
                    c >= shardImage'[k.shard].ccid => k.replica \notin Members(k.shard, c)
    <2>1. /\ k.shard \in DOMAIN shardImage
          /\ \A c \in Configs(k.shard) :
                c >= shardImage[k.shard].ccid => k.replica \notin Members(k.shard, c)
      <3>1. CASE k \in replicasToKill
        BY <3>1 DEF ImageInv, KilledAreRemoved
      <3>2. CASE k \in Zombies(shardImage, nhi)
        BY <1>1, <3>2, ZombiesRemoved
      <3> QED
        BY <1>3, <3>1, <3>2
    <2> QED
      BY <1>4, <1>5, <2>1
  <1>7. ImageInv'
    BY <1>3, <1>4, <1>6 DEF ImageInv, KilledAreRemoved, Members, Configs
  <1> QED
    BY <1>4, <1>7

(* The other log entries leave the image alone; the clock only moves on.    *)
LEMMA OthersKeepImage ==
    ASSUME [NextDB]_dbVars, ~(\E h \in Hosts : Report(h)), ImageInv
    PROVE  /\ UNCHANGED <<shardImage, replicasToKill>>
           /\ ~panicked'
           /\ tick' \in Nat /\ tick' >= tick
  <1>1. CASE UNCHANGED dbVars
    BY <1>1 DEF dbVars, ImageInv
  <1>2. CASE Tick
    BY <1>2, DrummerDBAssumption DEF Tick, ApplyTickUpdate, ImageInv
  <1>3. CASE Put \/ Create
    <2>1. /\ UNCHANGED shardImage /\ UNCHANGED replicasToKill
          /\ UNCHANGED tick /\ UNCHANGED panicked
      BY <1>3, Zenon DEF Put, ApplyKVUpdate, Create, TryCreateShard
    <2> QED
      BY <2>1 DEF ImageInv
  <1>4. CASE Order
    <2>1. PICK reqs \in Batches : ApplyRequestsUpdate(reqs)
      BY <1>4 DEF Order
    <2>2. ~MixedRequests(reqs)
      BY <2>1, ClientAssumption
    <2>3. /\ UNCHANGED <<shardImage, replicasToKill, tick>>
          /\ panicked' = MixedRequests(reqs)
      BY <2>1, Zenon DEF ApplyRequestsUpdate
    <2> QED
      BY <2>2, <2>3 DEF ImageInv
  <1> QED
    BY <1>1, <1>2, <1>3, <1>4 DEF NextDB

LEMMA ImageInvNext == ImageInv /\ [NextDB]_dbVars => ImageInv'
  <1> SUFFICES ASSUME ImageInv, [NextDB]_dbVars
               PROVE  ImageInv'
    OBVIOUS
  <1>1. CASE \E h \in Hosts : Report(h)
    BY <1>1, ReportKeepsImage
  <1>2. CASE ~(\E h \in Hosts : Report(h))
    <2>1. /\ shardImage' = shardImage /\ replicasToKill' = replicasToKill
          /\ ~panicked' /\ tick' \in Nat /\ tick' >= tick /\ tick \in Nat
      BY <1>2, OthersKeepImage DEF ImageInv
    <2>2. ASSUME NEW s \in DOMAIN shardImage
          PROVE  GoodShard(s, shardImage[s], tick')
      <3> DEFINE c == shardImage[s]
      <3>1. GoodShard(s, c, tick)
        BY <2>2 DEF ImageInv
      <3>2. \A i \in Members(s, c.ccid) :
               GoodReplica(c.replicas[i], History[s][c.ccid][i], tick')
        BY <2>1, <3>1 DEF GoodShard, GoodReplica
      <3> QED
        BY <3>1, <3>2 DEF GoodShard
    <2>3. KilledAreRemoved'
      BY <2>1 DEF ImageInv, KilledAreRemoved, Members, Configs
    <2> QED
      BY <2>1, <2>2, <2>3 DEF ImageInv
  <1> QED
    BY <1>1, <1>2

LEMMA ImageInvAlways == Spec => []ImageInv
  <1>1. Init_DB => ImageInv
    BY DEF Init_DB, ImageInv, EmptyMap, KilledAreRemoved
  <1> QED
    BY <1>1, ImageInvNext, PTL DEF Spec

(* However old, repeated or out of order the reports, the image of a shard  *)
(* is one membership its raft group had (multiShard.update, syncShard).     *)
THEOREM ImageFollowsHistoryCorrect == Spec => []ImageFollowsHistory
  <1>1. ASSUME ImageInv
        PROVE  ImageFollowsHistory
    <2>1. ASSUME NEW s \in DOMAIN shardImage
          PROVE  /\ shardImage[s].ccid \in Configs(s)
                 /\ Addresses(shardImage[s]) = History[s][shardImage[s].ccid]
      <3> DEFINE c == shardImage[s]
                 m == History[s][c.ccid]
      <3>1. GoodShard(s, c, tick) /\ s \in ShardIds
        BY <1>1, <2>1 DEF ImageInv
      <3>2. c.ccid \in Configs(s) /\ DOMAIN c.replicas = Members(s, c.ccid)
        BY <3>1 DEF GoodShard
      <3>3. m = [i \in Members(s, c.ccid) |-> m[i]]
        BY <3>1, <3>2, HistoryFacts
      <3>4. \A i \in Members(s, c.ccid) : c.replicas[i].addr = m[i]
        BY <3>1 DEF GoodShard, GoodReplica
      <3> QED
        BY <3>2, <3>3, <3>4 DEF Addresses
    <2> QED
      BY <2>1 DEF ImageFollowsHistory
  <1> QED
    BY <1>1, ImageInvAlways, PTL

(* The consistency checks of syncShard and of applyRequestsUpdate hold for  *)
(* every order of the log.                                                  *)
THEOREM NeverPanicsCorrect == Spec => []NeverPanics
  <1>1. ImageInv => NeverPanics
    BY DEF ImageInv, NeverPanics
  <1> QED
    BY <1>1, ImageInvAlways, PTL

(* The leader marks of different NodeHosts' reports never add up to two     *)
(* leaders of one shard (syncLeaderInfo).                                   *)
THEOREM AtMostOneLeaderCorrect == Spec => []AtMostOneLeader
  <1>1. ImageInv => AtMostOneLeader
    BY DEF ImageInv, AtMostOneLeader, GoodShard, OneLeader
  <1> QED
    BY <1>1, ImageInvAlways, PTL

(* Only replicas that raft has removed for good are listed to be killed     *)
(* (killRequestRequired).                                                   *)
THEOREM KilledAreRemovedCorrect == Spec => []KilledAreRemoved
  <1>1. ImageInv => KilledAreRemoved
    BY DEF ImageInv
  <1> QED
    BY <1>1, ImageInvAlways, PTL

(* The image of a shard is never moved back nor forgotten (syncShard).      *)
THEOREM ImageMovesForwardCorrect == Spec => ImageMovesForward
  <1>1. ImageInv /\ [NextDB]_dbVars =>
          [\A s \in DOMAIN shardImage :
              s \in DOMAIN shardImage' /\ shardImage'[s].ccid >= shardImage[s].ccid]_dbVars
    <2> SUFFICES ASSUME ImageInv, [NextDB]_dbVars, NEW s \in DOMAIN shardImage
                 PROVE  s \in DOMAIN shardImage' /\ shardImage'[s].ccid >= shardImage[s].ccid
      OBVIOUS
    <2>1. CASE \E h \in Hosts : Report(h)
      BY <2>1, ReportKeepsImage
    <2>2. CASE ~(\E h \in Hosts : Report(h))
      <3>1. shardImage' = shardImage
        BY <2>2, OthersKeepImage
      <3>2. shardImage[s].ccid \in Nat
        BY HistoryFacts DEF ImageInv, GoodShard
      <3> QED
        BY <3>1, <3>2
    <2> QED
      BY <2>1, <2>2
  <1> QED
    BY <1>1, ImageInvAlways, PTL DEF Spec, ImageMovesForward

-----------------------------------------------------------------------------
(* The types, and the NodeHost image.                                       *)

Shaped(c) ==
    /\ c = [ccid |-> c.ccid, replicas |-> c.replicas]
    /\ c.replicas = [i \in DOMAIN c.replicas |-> c.replicas[i]]

HostsInv ==
    /\ DOMAIN nodeHostImage \subseteq Hosts
    /\ \A h \in DOMAIN nodeHostImage :
          nodeHostImage[h] \in HostRecords /\ nodeHostImage[h].tick <= tick
    /\ \A s \in DOMAIN shardImage : Shaped(shardImage[s])
    /\ requests = [h \in Hosts |-> requests[h]]
    /\ outgoing = [h \in Hosts |-> outgoing[h]]

LEMMA SeenShaped ==
    ASSUME NEW d, NEW ci, NEW now
    PROVE  Shaped(SyncLeaderInfo(UpdateNodeTick(d, ci, now), ci))
  <1>1. Shaped(UpdateNodeTick(d, ci, now))
    BY DEF UpdateNodeTick, Shaped
  <1> QED
    BY <1>1, Zenon DEF SyncLeaderInfo, Shaped

LEMMA ShardShaped ==
    ASSUME NEW c, NEW ci, NEW now
    PROVE  Shaped(UpdateShard(c, ci, now)) /\ Shaped(CreateShard(ci, now))
  BY SeenShaped DEF UpdateShard, CreateShard

(* What a report makes of the NodeHost image (update, syncShardInfo).       *)
LEMMA ReportKeepsHosts ==
    ASSUME ImageInv, HostsInv, NEW h \in Hosts, Report(h)
    PROVE  /\ HostsInv'
           /\ h \in DOMAIN nodeHostImage'
           /\ nodeHostImage'[h].tick = tick
           /\ outgoing' = [outgoing EXCEPT ![h] = requests[h]]
           /\ requests' = [requests EXCEPT ![h] = <<>>]
  <1>1. PICK nhi : /\ IsReport(h, nhi) /\ ApplyNodeHostInfoUpdate(nhi)
                   /\ nhi.region \in Regions
                   /\ nhi.plog \subseteq ShardIds \X ReplicaIds
    BY ReportShape
  <1>2. ~panicked' /\ ImageInv'
    BY ReportKeepsImage DEF ImageInv
  <1> DEFINE image == UpdateShardImage(shardImage, nhi, tick)
             hosts == UpdateNodeHostImage(nodeHostImage, nhi, tick)
  <1>3. /\ shardImage' = image
        /\ nodeHostImage' = SyncShardInfo(hosts, image)
        /\ outgoing' = [outgoing EXCEPT ![h] = requests[h]]
        /\ requests' = [requests EXCEPT ![h] = <<>>]
        /\ tick' = tick
    BY <1>1, <1>2, Zenon DEF ApplyNodeHostInfoUpdate, HandOver, IsReport
  <1>4. /\ DOMAIN hosts = DOMAIN nodeHostImage \cup {h}
        /\ hosts[h].tick = tick
        /\ \A g \in DOMAIN hosts : hosts[g] \in HostRecords /\ hosts[g].tick <= tick
    <2>1. /\ DOMAIN hosts = DOMAIN nodeHostImage \cup {h}
          /\ \A g \in DOMAIN nodeHostImage : g # h => hosts[g] = nodeHostImage[g]
      BY <1>1 DEF UpdateNodeHostImage, IsReport
    <2>2. PICK plog : /\ plog = IF nhi.plogIncluded THEN nhi.plog
                               ELSE IF h \in DOMAIN nodeHostImage
                                 THEN nodeHostImage[h].log ELSE {}
                      /\ hosts[h] = [region |-> nhi.region, tick |-> tick,
                                     log |-> plog, shards |-> DOMAIN nhi.info]
      BY <1>1 DEF UpdateNodeHostImage, IsReport
    <2>3. plog \subseteq ShardIds \X ReplicaIds
      BY <1>1, <2>2 DEF HostsInv, HostRecords
    <2>4. hosts[h] \in HostRecords /\ hosts[h].tick = tick /\ tick \in Nat
      BY <1>1, <2>2, <2>3 DEF HostRecords, IsReport, ImageInv
    <2> QED
      BY <2>1, <2>4 DEF HostsInv
  <1> HIDE DEF hosts
  <1>5. /\ DOMAIN nodeHostImage' = DOMAIN hosts
        /\ \A g \in DOMAIN hosts : /\ nodeHostImage'[g] \in HostRecords
                                   /\ nodeHostImage'[g].tick = hosts[g].tick
    <2>1. DOMAIN image \subseteq ShardIds
      BY <1>2, <1>3 DEF ImageInv
    <2> HIDE DEF image
    <2>2. ASSUME NEW g \in DOMAIN hosts
          PROVE  /\ nodeHostImage'[g] \in HostRecords
                 /\ nodeHostImage'[g].tick = hosts[g].tick
      <3>1. PICK S \in SUBSET ShardIds :
              nodeHostImage'[g] = [hosts[g] EXCEPT !.shards = @ \cup S]
        BY <1>3, <2>1, <2>2 DEF SyncShardInfo
      <3>2. hosts[g] \in [region : Regions, tick : Nat,
                          log : SUBSET (ShardIds \X ReplicaIds),
                          shards : SUBSET ShardIds]
        BY <1>4, <2>2 DEF HostRecords
      <3>3. nodeHostImage'[g] = [region |-> hosts[g].region, tick |-> hosts[g].tick,
                                 log |-> hosts[g].log, shards |-> hosts[g].shards \cup S]
        BY <3>1, <3>2
      <3> QED
        BY <3>2, <3>3 DEF HostRecords
    <2> QED
      BY <1>3, <2>2 DEF SyncShardInfo
  <1>6. \A s \in DOMAIN shardImage' : Shaped(shardImage'[s])
    <2>1. ASSUME NEW s \in DOMAIN image
          PROVE  \/ image[s] = CreateShard(nhi.info[s], tick)
                 \/ /\ s \in DOMAIN shardImage
                    /\ image[s] \in {shardImage[s],
                                     UpdateShard(shardImage[s], nhi.info[s], tick)}
      BY <2>1 DEF UpdateShardImage
    <2>2. \A s \in DOMAIN shardImage : Shaped(shardImage[s])
      BY DEF HostsInv
    <2> HIDE DEF image
    <2> QED
      BY <1>3, <2>1, <2>2, ShardShaped
  <1>7. /\ requests' = [g \in Hosts |-> requests'[g]]
        /\ outgoing' = [g \in Hosts |-> outgoing'[g]]
    BY <1>3 DEF HostsInv
  <1>8. DOMAIN hosts \subseteq Hosts
    BY <1>4 DEF HostsInv
  <1>9. HostsInv'
    BY <1>3, <1>4, <1>5, <1>6, <1>7, <1>8 DEF HostsInv
  <1> QED
    BY <1>3, <1>4, <1>5, <1>9

(* The orders of a scheduler replace what waits, and hand over nothing.     *)
LEMMA OthersKeepHosts ==
    ASSUME [NextDB]_dbVars, ~(\E h \in Hosts : Report(h)), ImageInv, HostsInv
    PROVE  /\ HostsInv'
           /\ outgoing' = outgoing
           /\ \A h \in Hosts : requests'[h] = <<>> => requests[h] = <<>>
  <1>1. UNCHANGED <<shardImage, replicasToKill>> /\ tick' \in Nat /\ tick' >= tick
    BY OthersKeepImage
  <1>2. /\ nodeHostImage' = nodeHostImage
        /\ outgoing' = outgoing
        /\ \/ requests' = requests
           \/ \E reqs \in Batches : requests' = Queued(reqs)
    <2>1. CASE UNCHANGED dbVars
      BY <2>1, Zenon DEF dbVars
    <2>2. CASE Tick \/ Put \/ Create
      BY <2>2, Zenon
         DEF Tick, ApplyTickUpdate, Put, ApplyKVUpdate, Create, TryCreateShard
    <2>3. CASE Order
      BY <2>3, Zenon DEF Order, ApplyRequestsUpdate
    <2> QED
      BY <2>1, <2>2, <2>3 DEF NextDB
  <1>3. \A h \in DOMAIN nodeHostImage : nodeHostImage[h].tick \in Nat
    BY DEF HostsInv, HostRecords
  <1>4. /\ requests' = [h \in Hosts |-> requests'[h]]
        /\ \A h \in Hosts : requests'[h] = <<>> => requests[h] = <<>>
    <2>1. CASE requests' = requests
      BY <2>1 DEF HostsInv
    <2>2. ASSUME NEW reqs, requests' = Queued(reqs)
          PROVE  /\ requests' = [h \in Hosts |-> requests'[h]]
                 /\ \A h \in Hosts : requests'[h] = <<>> => requests[h] = <<>>
      BY <2>2, Zenon DEF Queued
    <2> QED
      BY <1>2, <2>1, <2>2
  <1>5. tick \in Nat
    BY DEF ImageInv
  <1> QED
    BY <1>1, <1>2, <1>3, <1>4, <1>5 DEF HostsInv, HostRecords

LEMMA HostsInvAlways == Spec => [](ImageInv /\ HostsInv)
  <1>1. Init_DB => ImageInv /\ HostsInv
    BY DEF Init_DB, ImageInv, HostsInv, EmptyMap, KilledAreRemoved
  <1>2. ImageInv /\ HostsInv /\ [NextDB]_dbVars => (ImageInv /\ HostsInv)'
    BY ImageInvNext, ReportKeepsHosts, OthersKeepHosts
  <1> QED
    BY <1>1, <1>2, PTL DEF Spec

(* No clock reading in the images is ahead of the clock, so the unsigned    *)
(* subtractions of EntityFailed never wrap around.                          *)
THEOREM TicksNotInFutureCorrect == Spec => []TicksNotInFuture
  <1>1. ImageInv /\ HostsInv => TicksNotInFuture
    BY DEF ImageInv, HostsInv, TicksNotInFuture, GoodShard, GoodReplica
  <1> QED
    BY <1>1, HostsInvAlways, PTL

(* What a NodeHost fetches changes only when it reports, and nothing that   *)
(* waits for it is dropped without being handed over                        *)
(* (applyNodeHostInfoUpdate, applyRequestsUpdate).                          *)
THEOREM OrdersMoveByReportCorrect == Spec => OrdersMoveByReport
  <1>1. ImageInv /\ HostsInv /\ [NextDB]_dbVars =>
          [\A h \in Hosts :
              /\ outgoing'[h] # outgoing[h] =>
                    h \in DOMAIN nodeHostImage' /\ nodeHostImage'[h].tick = tick
              /\ requests'[h] = <<>> => requests[h] \in {<<>>, outgoing'[h]}]_dbVars
    <2> SUFFICES ASSUME ImageInv, HostsInv, [NextDB]_dbVars, NEW h \in Hosts
                 PROVE  /\ outgoing'[h] # outgoing[h] =>
                              /\ h \in DOMAIN nodeHostImage'
                              /\ nodeHostImage'[h].tick = tick
                        /\ requests'[h] = <<>> => requests[h] \in {<<>>, outgoing'[h]}
      OBVIOUS
    <2>1. ASSUME NEW g \in Hosts, Report(g)
          PROVE  /\ outgoing'[h] # outgoing[h] =>
                       /\ h \in DOMAIN nodeHostImage'
                       /\ nodeHostImage'[h].tick = tick
                 /\ requests'[h] = <<>> => requests[h] \in {<<>>, outgoing'[h]}
      <3>1. /\ g \in DOMAIN nodeHostImage' /\ nodeHostImage'[g].tick = tick
            /\ outgoing' = [outgoing EXCEPT ![g] = requests[g]]
            /\ requests' = [requests EXCEPT ![g] = <<>>]
        BY <2>1, ReportKeepsHosts
      <3>2. /\ outgoing'[h] = IF h = g THEN requests[g] ELSE outgoing[h]
            /\ requests'[h] = IF h = g THEN <<>> ELSE requests[h]
        BY <3>1 DEF HostsInv
      <3> QED
        BY <3>1, <3>2
    <2>2. CASE ~(\E g \in Hosts : Report(g))
      BY <2>2, OthersKeepHosts
    <2> QED
      BY <2>1, <2>2
  <1> QED
    BY <1>1, HostsInvAlways, PTL DEF Spec, OrdersMoveByReport

(* What is left of the types.                                               *)
RestInv ==
    /\ failed \in BOOLEAN
    /\ DOMAIN shards \subseteq ShardIds
    /\ replicasToKill \subseteq [shard : ShardIds, replica : ReplicaIds, addr : Hosts]

LEMMA RestStep ==
    ASSUME [NextDB]_dbVars
    PROVE  (failed' = failed \/ Tick) /\ (shards' = shards \/ Create)
  <1>1. CASE UNCHANGED dbVars
    BY <1>1, Zenon DEF dbVars
  <1>2. CASE Tick
    BY <1>2, Zenon DEF Tick, ApplyTickUpdate
  <1>3. CASE \E h \in Hosts : Report(h)
    BY <1>3, ReportShape, Zenon DEF ApplyNodeHostInfoUpdate
  <1>4. CASE Order
    BY <1>4, Zenon DEF Order, ApplyRequestsUpdate
  <1>5. CASE Put
    BY <1>5, Zenon DEF Put, ApplyKVUpdate
  <1>6. CASE Create
    BY <1>6, Zenon DEF Create, TryCreateShard
  <1> QED
    BY <1>1, <1>2, <1>3, <1>4, <1>5, <1>6, Zenon DEF NextDB

LEMMA RestInvNext ==
    ASSUME ImageInv, RestInv, [NextDB]_dbVars
    PROVE  RestInv'
  <1>1. failed' \in BOOLEAN
    <2>1. CASE Tick
      <3>1. failed' = DeadlineMissed(tick')
        BY <2>1, Zenon DEF Tick, ApplyTickUpdate
      <3> QED
        BY <3>1, Zenon DEF DeadlineMissed
    <2> QED
      BY <2>1, RestStep, Zenon DEF RestInv
  <1>2. DOMAIN shards' \subseteq ShardIds
    <2>1. CASE Create
      <3>1. PICK s \in ShardIds : DOMAIN shards' = DOMAIN shards \cup {s}
        BY <2>1 DEF Create, TryCreateShard
      <3> QED
        BY <3>1 DEF RestInv
    <2> QED
      BY <2>1, RestStep DEF RestInv
  <1>3. replicasToKill' \subseteq [shard : ShardIds, replica : ReplicaIds, addr : Hosts]
    <2>1. ASSUME NEW h \in Hosts, Report(h)
          PROVE  replicasToKill' \subseteq
                    [shard : ShardIds, replica : ReplicaIds, addr : Hosts]
      <3>1. PICK nhi : IsReport(h, nhi) /\ ApplyNodeHostInfoUpdate(nhi)
        BY <2>1, ReportShape
      <3>2. replicasToKill' = replicasToKill \cup Zombies(shardImage, nhi)
        <4>1. ~panicked'
          BY <2>1, ReportKeepsImage DEF ImageInv
        <4> QED
          BY <3>1, <4>1, Zenon DEF ApplyNodeHostInfoUpdate
      <3>3. \A s \in DOMAIN nhi.info : nhi.info[s].replica \in ReplicaIds
        BY <3>1, InfoFacts DEF IsReport, HostedReplicas
      <3>4. Zombies(shardImage, nhi) \subseteq
               [shard : ShardIds, replica : ReplicaIds, addr : Hosts]
        BY <3>1, <3>3 DEF Zombies, IsReport
      <3> QED
        BY <3>2, <3>4 DEF RestInv
    <2>2. CASE ~(\E h \in Hosts : Report(h))
      BY <2>2, OthersKeepImage DEF RestInv
    <2> QED
      BY <2>1, <2>2
  <1> QED
    BY <1>1, <1>2, <1>3 DEF RestInv

(* The fields of the DB have their types after any log.                     *)
THEOREM TypeOKCorrect == Spec => []TypeOK
  <1>1. Init_DB => RestInv /\ LaunchInv
    <2>1. Init_DB => LaunchInv
      BY DEF Init_DB, LaunchInv, FailsOnlyAtLaunch
    <2>2. Init_DB => failed \in BOOLEAN
      BY Zenon DEF Init_DB
    <2>3. Init_DB => DOMAIN shards \subseteq ShardIds /\ replicasToKill = {}
      BY DEF Init_DB, EmptyMap
    <2> QED
      BY <2>1, <2>2, <2>3 DEF RestInv
  <1>2. ImageInv /\ RestInv /\ [NextDB]_dbVars => RestInv'
    BY RestInvNext
  <1>3. ASSUME ImageInv, HostsInv, RestInv, LaunchInv
        PROVE  TypeOK
    <2>1. ASSUME NEW s \in DOMAIN shardImage
          PROVE  IsShardRecord(shardImage[s])
      <3> DEFINE c == shardImage[s]
      <3>1. GoodShard(s, c, tick) /\ Shaped(c) /\ s \in ShardIds
        BY <1>3, <2>1 DEF ImageInv, HostsInv
      <3>2. /\ c.ccid \in Nat /\ DOMAIN c.replicas \subseteq ReplicaIds
            /\ \A i \in DOMAIN c.replicas : c.replicas[i] \in ReplicaRecords
        BY <3>1, HistoryFacts DEF GoodShard, GoodReplica, ReplicaRecords
      <3> QED
        BY <3>1, <3>2 DEF Shaped, IsShardRecord
    <2>2. DOMAIN requests = Hosts /\ DOMAIN outgoing = Hosts
      BY <1>3 DEF HostsInv
    <2>3. panicked \in BOOLEAN
      <3>1. panicked = FALSE
        BY <1>3 DEF ImageInv
      <3> QED
        BY <3>1
    <2>4. /\ DOMAIN shardImage \subseteq ShardIds /\ tick \in Nat
          /\ DOMAIN nodeHostImage \subseteq Hosts
          /\ \A h \in DOMAIN nodeHostImage : nodeHostImage[h] \in HostRecords
      BY <1>3 DEF ImageInv, HostsInv
    <2>5. launchDeadline \in Nat
      BY <1>3 DEF LaunchInv
    <2> QED
      BY <1>3, <2>1, <2>2, <2>3, <2>4, <2>5, Zenon DEF TypeOK, RestInv
  <1> QED
    BY <1>1, <1>2, <1>3, HostsInvAlways, LaunchInvNext, PTL DEF Spec
-----------------------------------------------------------------------------
(* What users are told.  A replica that was heard of was so in a report of  *)
(* the NodeHost at its address, and no NodeHost is ever forgotten.          *)

Heard(r) == r.leader \/ r.tick > 0

HeardInv ==
    \A s \in DOMAIN shardImage : \A i \in DOMAIN shardImage[s].replicas :
        Heard(shardImage[s].replicas[i]) =>
            shardImage[s].replicas[i].addr \in DOMAIN nodeHostImage

(* updateNodeTick and syncLeaderInfo make only the reporting replica heard  *)
(* of.                                                                      *)
LEMMA OthersNotHeard ==
    ASSUME NEW s \in ShardIds, NEW now \in Nat, NEW c, GoodShard(s, c, now), NEW ci,
           NEW i \in DOMAIN c.replicas, i # ci.replica
    PROVE  LET r == SyncLeaderInfo(UpdateNodeTick(c, ci, now), ci).replicas[i]
           IN  /\ r.addr = c.replicas[i].addr
               /\ Heard(r) => Heard(c.replicas[i])
  <1> DEFINE d == UpdateNodeTick(c, ci, now)
             r == SyncLeaderInfo(d, ci).replicas[i]
  <1>1. DOMAIN d.replicas = DOMAIN c.replicas /\ d.replicas[i] = c.replicas[i]
    BY DEF UpdateNodeTick
  <1>2. c.replicas[i] \in [addr : Hosts, leader : BOOLEAN, tick : Nat, first : Nat]
    BY DEF GoodShard, GoodReplica
  <1> HIDE DEF d
  <1>3. CASE d.ccid > ci.ccid \/ ci.replica \notin DOMAIN d.replicas
    <2>1. r = c.replicas[i]
      BY <1>1, <1>3 DEF SyncLeaderInfo
    <2> QED
      BY <2>1 DEF d
  <1>4. CASE ~(d.ccid > ci.ccid \/ ci.replica \notin DOMAIN d.replicas)
    <2>1. PICK l \in BOOLEAN : /\ l => c.replicas[i].leader
                               /\ r = [c.replicas[i] EXCEPT !.leader = l]
      <3> DEFINE newLeader == ci.leader /\ ~d.replicas[ci.replica].leader
                 l == c.replicas[i].leader /\ ~newLeader
      <3>1. r = [c.replicas[i] EXCEPT !.leader = l]
        BY <1>1, <1>4, Zenon DEF SyncLeaderInfo
      <3> QED
        BY <3>1, Zenon
    <2>2. r.addr = c.replicas[i].addr /\ r.leader = l /\ r.tick = c.replicas[i].tick
      BY <1>2, <2>1
    <2> QED
      BY <2>1, <2>2 DEF Heard, d
  <1> QED
    BY <1>3, <1>4

(* A replica that is new to the image has not been heard of.                *)
LEMMA NewNotHeard ==
    ASSUME NEW addr, NEW now \in Nat
    PROVE  /\ ~Heard(NewReplica(addr, now))
           /\ ~Heard([NewReplica(addr, now) EXCEPT !.leader = FALSE])
  BY DEF Heard, NewReplica

(* So a report makes only the replicas of its own NodeHost heard of.        *)
LEMMA HeardFromReport ==
    ASSUME ImageInv, NEW h \in Hosts, NEW nhi, IsReport(h, nhi),
           NEW s \in DOMAIN UpdateShardImage(shardImage, nhi, tick),
           NEW i \in DOMAIN UpdateShardImage(shardImage, nhi, tick)[s].replicas,
           Heard(UpdateShardImage(shardImage, nhi, tick)[s].replicas[i])
    PROVE  LET r == UpdateShardImage(shardImage, nhi, tick)[s].replicas[i]
           IN  \/ r.addr = h
               \/ /\ s \in DOMAIN shardImage
                  /\ i \in DOMAIN shardImage[s].replicas
                  /\ shardImage[s].replicas[i].addr = r.addr
                  /\ Heard(shardImage[s].replicas[i])
  <1> DEFINE image == UpdateShardImage(shardImage, nhi, tick)
             created == {t \in DOMAIN nhi.info : FullInfo(nhi.info[t])}
             ci == nhi.info[s]
  <1>1. /\ DOMAIN image = DOMAIN shardImage \cup created
        /\ image[s] = IF s \notin DOMAIN shardImage THEN CreateShard(ci, tick)
                      ELSE IF s \in DOMAIN nhi.info THEN UpdateShard(shardImage[s], ci, tick)
                      ELSE shardImage[s]
    BY DEF UpdateShardImage
  <1>2. /\ tick \in Nat /\ s \in ShardIds
        /\ GoodShard(s, image[s], tick)
        /\ s \in DOMAIN shardImage => GoodShard(s, shardImage[s], tick)
    BY ImageUpdated DEF ImageInv
  <1>3. s \in DOMAIN nhi.info =>
           /\ ci \in ShardInfos(h, s)
           /\ FullInfo(ci) => FullReport(s, ci)
           /\ ci.leader \in BOOLEAN
           /\ ci.replica \in HostedReplicas(h, s)
    BY <1>2, InfoFacts DEF IsReport
  <1>4. i \in DOMAIN image[s].replicas /\ Heard(image[s].replicas[i])
    OBVIOUS
  <1> HIDE DEF image, ci
  <1>5. CASE s \in DOMAIN nhi.info /\ i = ci.replica
    <2>1. PICK c \in Configs(s) : i \in Members(s, c) /\ History[s][c][i] = h
      BY <1>3, <1>5 DEF HostedReplicas
    <2>2. /\ image[s].ccid \in Configs(s) /\ i \in Members(s, image[s].ccid)
          /\ image[s].replicas[i].addr = History[s][image[s].ccid][i]
      BY <1>2, <1>4 DEF GoodShard, GoodReplica
    <2>3. image[s].replicas[i].addr = h
      BY <1>2, <2>1, <2>2, SameAddress
    <2> QED
      BY <2>3 DEF image
  <1>6. CASE s \in DOMAIN nhi.info /\ i # ci.replica /\ s \in DOMAIN shardImage
    <2> DEFINE old == shardImage[s]
               synced == IF FullInfo(ci) THEN SyncShard(old, ci, tick) ELSE old
    <2>1. GoodShard(s, synced, tick)
      BY <1>2, <1>3, <1>6, SyncShardGood
    <2>2. image[s] = SyncLeaderInfo(UpdateNodeTick(synced, ci, tick), ci)
      BY <1>1, <1>6 DEF UpdateShard
    <2>3. i \in DOMAIN old.replicas /\ i \in DOMAIN synced.replicas =>
             synced.replicas[i] = old.replicas[i]
      BY DEF SyncShard
    <2>4. i \notin DOMAIN old.replicas /\ i \in DOMAIN synced.replicas =>
             synced.replicas[i] = NewReplica(ci.replicas[i], tick)
      BY DEF SyncShard
    <2> HIDE DEF synced
    <2>5. i \in DOMAIN synced.replicas
      BY <1>4, <2>2 DEF SyncLeaderInfo, UpdateNodeTick
    <2>6. image[s].replicas[i].addr = synced.replicas[i].addr /\ Heard(synced.replicas[i])
      BY <1>2, <1>4, <1>6, <2>1, <2>2, <2>5, OthersNotHeard
    <2>7. i \in DOMAIN old.replicas
      BY <1>2, <2>4, <2>5, <2>6, NewNotHeard
    <2>8. /\ old.replicas[i].addr = image[s].replicas[i].addr
          /\ Heard(old.replicas[i])
      BY <2>3, <2>5, <2>6, <2>7
    <2> QED
      BY <1>6, <2>7, <2>8 DEF image
  <1>7. CASE s \in DOMAIN nhi.info /\ i # ci.replica /\ s \notin DOMAIN shardImage
    <2> DEFINE new == GetShard(ci, tick)
    <2>1. FullInfo(ci)
      BY <1>1, <1>7 DEF ci, image
    <2>2. GoodShard(s, new, tick)
      BY <1>2, <1>3, <1>7, <2>1, GetShardGood
    <2>3. image[s] = SyncLeaderInfo(UpdateNodeTick(new, ci, tick), ci)
      BY <1>1, <1>7 DEF CreateShard
    <2>4. i \in DOMAIN new.replicas =>
             new.replicas[i] = [NewReplica(ci.replicas[i], tick) EXCEPT !.leader = FALSE]
      BY <1>7 DEF GetShard
    <2> HIDE DEF new
    <2>5. i \in DOMAIN new.replicas
      BY <1>4, <2>3 DEF SyncLeaderInfo, UpdateNodeTick
    <2>6. Heard(new.replicas[i])
      BY <1>2, <1>4, <1>7, <2>2, <2>3, <2>5, OthersNotHeard
    <2> QED
      BY <1>2, <2>4, <2>5, <2>6, NewNotHeard
  <1>8. CASE s \notin DOMAIN nhi.info
    <2>1. s \in DOMAIN shardImage /\ image[s] = shardImage[s]
      BY <1>1, <1>8 DEF image
    <2> QED
      BY <1>4, <2>1 DEF image
  <1> QED
    BY <1>5, <1>6, <1>7, <1>8

LEMMA HeardInvNext ==
    ImageInv /\ HostsInv /\ HeardInv /\ [NextDB]_dbVars => HeardInv'
  <1> SUFFICES ASSUME ImageInv, HostsInv, HeardInv, [NextDB]_dbVars
               PROVE  HeardInv'
    OBVIOUS
  <1>1. ASSUME NEW h \in Hosts, Report(h)
        PROVE  HeardInv'
    <2>1. PICK nhi : IsReport(h, nhi) /\ ApplyNodeHostInfoUpdate(nhi)
      BY <1>1, ReportShape
    <2> DEFINE image == UpdateShardImage(shardImage, nhi, tick)
    <2>2. ~panicked'
      BY <1>1, ReportKeepsImage DEF ImageInv
    <2>3. /\ shardImage' = image
          /\ nodeHostImage' =
                SyncShardInfo(UpdateNodeHostImage(nodeHostImage, nhi, tick), image)
      BY <2>1, <2>2, Zenon DEF ApplyNodeHostInfoUpdate
    <2>4. DOMAIN nodeHostImage' = DOMAIN nodeHostImage \cup {h}
      BY <2>1, <2>3 DEF SyncShardInfo, UpdateNodeHostImage, IsReport
    <2>5. ASSUME NEW s \in DOMAIN image, NEW i \in DOMAIN image[s].replicas,
                 Heard(image[s].replicas[i])
          PROVE  image[s].replicas[i].addr \in DOMAIN nodeHostImage \cup {h}
      <3> DEFINE r == image[s].replicas[i]
      <3>1. \/ r.addr = h
            \/ /\ s \in DOMAIN shardImage
               /\ i \in DOMAIN shardImage[s].replicas
               /\ shardImage[s].replicas[i].addr = r.addr
               /\ Heard(shardImage[s].replicas[i])
        BY <2>1, <2>5, HeardFromReport
      <3> HIDE DEF r
      <3>2. r.addr \in DOMAIN nodeHostImage \cup {h}
        BY <3>1 DEF HeardInv, Heard
      <3> QED
        BY <3>2 DEF r
    <2> HIDE DEF image
    <2> QED
      BY <2>3, <2>4, <2>5 DEF HeardInv, Heard
  <1>2. CASE ~(\E h \in Hosts : Report(h))
    <2>1. shardImage' = shardImage
      BY <1>2, OthersKeepImage
    <2>2. nodeHostImage' = nodeHostImage
      <3>1. CASE UNCHANGED dbVars
        BY <3>1, Zenon DEF dbVars
      <3>2. CASE Tick \/ Put \/ Create
        BY <3>2, Zenon
           DEF Tick, ApplyTickUpdate, Put, ApplyKVUpdate, Create, TryCreateShard
      <3>3. CASE Order
        BY <3>3, Zenon DEF Order, ApplyRequestsUpdate
      <3> QED
        BY <1>2, <3>1, <3>2, <3>3 DEF NextDB
    <2> QED
      BY <2>1, <2>2 DEF HeardInv, Heard
  <1> QED
    BY <1>1, <1>2

(* A majority of a finite set is a majority of it when some are added.      *)
LEMMA MajorityGrows ==
    ASSUME NEW S, IsFiniteSet(S), NEW A \in SUBSET S, NEW B \in SUBSET S, A \subseteq B,
           Cardinality(A) >= Cardinality(S) \div 2 + 1
    PROVE  2 * Cardinality(B) > Cardinality(S)
  <1>1. IsFiniteSet(A) /\ IsFiniteSet(B)
    BY FS_Subset
  <1>2. /\ Cardinality(A) \in Nat /\ Cardinality(B) \in Nat /\ Cardinality(S) \in Nat
        /\ Cardinality(A) <= Cardinality(B)
    BY <1>1, FS_CardinalityType, FS_Subset
  <1> QED
    BY <1>2

(* Whatever a user is told of a shard names replicas that can be called:    *)
(* the leader, and most of them if the shard is said to be OK               *)
(* (toShardState).                                                          *)
THEOREM ShardsAreCallableCorrect == Spec => []ShardsAreCallable
  <1>1. Init_DB => HeardInv
    BY DEF Init_DB, HeardInv, EmptyMap
  <1>2. ASSUME ImageInv, HeardInv
        PROVE  ShardsAreCallable
    <2> SUFFICES ASSUME NEW s \in DOMAIN shardImage
                 PROVE  /\ DOMAIN ShardState(s).replicas # {}
                        /\ ShardState(s).leaders \subseteq ShardState(s).callable
                        /\ ShardState(s).ok =>
                              2 * Cardinality(ShardState(s).callable)
                                 > Cardinality(DOMAIN ShardState(s).replicas)
      BY DEF ShardsAreCallable
    <2> DEFINE c == shardImage[s]
               callable == {i \in DOMAIN c.replicas :
                               c.replicas[i].addr \in DOMAIN nodeHostImage}
               leaders == {i \in DOMAIN c.replicas : c.replicas[i].leader}
    <2>1. /\ DOMAIN ShardState(s).replicas = DOMAIN c.replicas
          /\ ShardState(s).callable = callable
          /\ ShardState(s).leaders = leaders
          /\ ShardState(s).ok = Available(c, tick)
      BY Zenon DEF ShardState, Addresses
    <2>2. GoodShard(s, c, tick) /\ s \in ShardIds /\ tick \in Nat
      BY <1>2 DEF ImageInv
    <2>3. /\ DOMAIN c.replicas = Members(s, c.ccid) /\ c.ccid \in Configs(s)
          /\ DOMAIN c.replicas \subseteq ReplicaIds
      BY <2>2, HistoryFacts DEF GoodShard
    <2>4. DOMAIN c.replicas # {}
      <3>1. History[s][c.ccid] \in Memberships
        <4>1. History[s] \in Seq(Memberships)
          BY <2>2, HistoryAssumption
        <4> QED
          BY <2>3, <4>1 DEF Configs
      <3> QED
        BY <2>3, <3>1 DEF Memberships, Members
    <2>5. leaders \subseteq callable
      BY <1>2 DEF HeardInv, Heard
    <2>6. OkReplicas(c, tick) \subseteq callable
      <3>1. ASSUME NEW i \in OkReplicas(c, tick)
            PROVE  i \in callable
        <4>1. /\ i \in DOMAIN c.replicas
              /\ c.replicas[i].tick # 0
          BY <3>1 DEF OkReplicas, WaitingToBeStarted
        <4>2. c.replicas[i].tick \in Nat
          BY <2>2, <2>3, <4>1 DEF GoodShard, GoodReplica
        <4> QED
          BY <1>2, <4>1, <4>2 DEF HeardInv, Heard
      <3> QED
        BY <3>1
    <2>7. IsFiniteSet(DOMAIN c.replicas)
      BY <2>3, DrummerDBAssumption, FS_Subset
    <2>8. ASSUME Available(c, tick)
          PROVE  2 * Cardinality(callable) > Cardinality(DOMAIN c.replicas)
      <3>1. Cardinality(OkReplicas(c, tick)) >= Cardinality(DOMAIN c.replicas) \div 2 + 1
        BY <2>8 DEF Available, Quorum
      <3>2. OkReplicas(c, tick) \in SUBSET DOMAIN c.replicas
        BY DEF OkReplicas
      <3> HIDE DEF c
      <3> QED
        BY <2>6, <2>7, <3>1, <3>2, MajorityGrows
    <2> QED
      BY <2>1, <2>4, <2>5, <2>8, Zenon
  <1> QED
    BY <1>1, <1>2, HeardInvNext, HostsInvAlways, PTL DEF Spec

-----------------------------------------------------------------------------
(* Replicas of the DB that applied the same entries are in the same state.  *)
(* The update of a DB as a function of its fields and the entry: what the  *)
(* actions of DrummerDB say, for either replica.                           *)

AfterTick(t, d, f, s, k, i, z, n, r, o, p) ==
    <<t + TickIntervalSecond, d, d > 0 /\ t + TickIntervalSecond > d,
      s, k, i, z, n, r, o, p>>

AfterReport(nhi, t, d, f, s, k, i, z, n, r, o, p) ==
    LET image == UpdateShardImage(i, nhi, t)
    IN  IF ReportPanics(i, nhi)
          THEN <<t, d, f, s, k, i, z, n, r, o, ReportPanics(i, nhi)>>
          ELSE <<t,
                 IF Cardinality(LaunchedShards(image)) = Cardinality(DOMAIN s) THEN 0 ELSE d,
                 f, s, k, image,
                 z \cup Zombies(i, nhi),
                 SyncShardInfo(UpdateNodeHostImage(n, nhi, t), image),
                 [r EXCEPT ![nhi.addr] = <<>>],
                 [o EXCEPT ![nhi.addr] = r[nhi.addr]],
                 ReportPanics(i, nhi)>>

AfterRequests(reqs, t, d, f, s, k, i, z, n, r, o, p) ==
    IF MixedRequests(reqs) \/ (LaunchedKey \in DOMAIN k /\ IsLaunchRequests(reqs))
      THEN <<t, d, f, s, k, i, z, n, r, o, MixedRequests(reqs)>>
    ELSE <<t,
           IF IsLaunchRequests(reqs) THEN t + LaunchDeadlineTick * TickIntervalSecond ELSE d,
           f, s,
           IF IsLaunchRequests(reqs) THEN UpdateKV(k, FinalKV(LaunchedKey, "true")) ELSE k,
           i, z, n,
           [h \in Hosts |-> IF RequestsTo(reqs, h) # <<>> THEN RequestsTo(reqs, h) ELSE r[h]],
           o, MixedRequests(reqs)>>

AfterKV(kv, t, d, f, s, k, i, z, n, r, o, p) ==
    <<t, d, f, s, UpdateKV(k, kv), i, z, n, r, o, p>>

AfterShard(x, m, t, d, f, s, k, i, z, n, r, o, p) ==
    IF BootstrappedKey \in DOMAIN k \/ x \in DOMAIN s
      THEN <<t, d, f, s, k, i, z, n, r, o, p>>
      ELSE <<t, d, f, [y \in DOMAIN s \cup {x} |-> IF y = x THEN m ELSE s[y]],
             k, i, z, n, r, o, p>>

AfterEntry(e, t, d, f, s, k, i, z, n, r, o, p) ==
    IF e.type = "tick" THEN AfterTick(t, d, f, s, k, i, z, n, r, o, p)
    ELSE IF e.type = "report" THEN AfterReport(e.nhi, t, d, f, s, k, i, z, n, r, o, p)
    ELSE IF e.type = "requests" THEN AfterRequests(e.reqs, t, d, f, s, k, i, z, n, r, o, p)
    ELSE IF e.type = "kv" THEN AfterKV(e.kv, t, d, f, s, k, i, z, n, r, o, p)
    ELSE AfterShard(e.shard, e.members, t, d, f, s, k, i, z, n, r, o, p)

\* x is a state of the DB, the tuple of its fields.
After(e, x) ==
    AfterEntry(e, x[1], x[2], x[3], x[4], x[5], x[6], x[7], x[8], x[9], x[10], x[11])

-----------------------------------------------------------------------------
(* Each action of the first replica's DB is its function.                   *)

LEMMA TickFirst ==
    ASSUME ApplyTickUpdate
    PROVE  dbVars' = AfterTick(tick, launchDeadline, failed, shards, kvMap,
        shardImage, replicasToKill, nodeHostImage, requests, outgoing, panicked)
  <1>1. /\ tick' = tick + TickIntervalSecond
        /\ failed' = (launchDeadline > 0 /\ tick' > launchDeadline)
        /\ UNCHANGED <<launchDeadline, shards, kvMap, shardImage, replicasToKill,
                       nodeHostImage, requests, outgoing, panicked>>
    BY Zenon DEF ApplyTickUpdate, DeadlineMissed
  <1>2. failed' = (launchDeadline > 0 /\ tick + TickIntervalSecond > launchDeadline)
    BY <1>1, Zenon
  <1> QED
    BY <1>1, <1>2, Zenon DEF AfterTick, dbVars

LEMMA ReportFirst ==
    ASSUME NEW nhi, ApplyNodeHostInfoUpdate(nhi)
    PROVE  dbVars' = AfterReport(nhi, tick, launchDeadline, failed, shards, kvMap,
        shardImage, replicasToKill, nodeHostImage, requests, outgoing, panicked)
  <1>0. panicked' = ReportPanics(shardImage, nhi)
    BY Zenon DEF ApplyNodeHostInfoUpdate
  <1>1. CASE panicked'
    <2>1. /\ UNCHANGED <<shardImage, replicasToKill, nodeHostImage, requests,
                          outgoing, launchDeadline>>
          /\ UNCHANGED <<tick, failed, shards, kvMap>>
      BY <1>1, Zenon DEF ApplyNodeHostInfoUpdate
    <2>2. ReportPanics(shardImage, nhi)
      BY <1>0, <1>1, Zenon
    <2> QED
      BY <1>0, <2>1, <2>2, Zenon DEF AfterReport, dbVars
  <1>2. CASE ~panicked'
    <2> DEFINE image == UpdateShardImage(shardImage, nhi, tick)
    <2>1. ~ReportPanics(shardImage, nhi)
      BY <1>0, <1>2, Zenon
    <2>2. /\ shardImage' = image
          /\ replicasToKill' = replicasToKill \cup Zombies(shardImage, nhi)
          /\ nodeHostImage' = SyncShardInfo(UpdateNodeHostImage(nodeHostImage, nhi, tick), image)
          /\ HandOver(nhi.addr)
          /\ launchDeadline' = DeadlineAfter(image)
          /\ UNCHANGED <<tick, failed, shards, kvMap>>
      BY <1>2, Zenon DEF ApplyNodeHostInfoUpdate
    <2> QED
      BY <1>0, <2>1, <2>2, Zenon DEF AfterReport, dbVars, HandOver, DeadlineAfter
  <1> QED
    BY <1>1, <1>2, Zenon

LEMMA RequestsFirst ==
    ASSUME NEW reqs, ApplyRequestsUpdate(reqs)
    PROVE  dbVars' = AfterRequests(reqs, tick, launchDeadline, failed, shards, kvMap,
        shardImage, replicasToKill, nodeHostImage, requests, outgoing, panicked)
  <1>0. panicked' = MixedRequests(reqs)
    BY Zenon DEF ApplyRequestsUpdate
  <1>3. UNCHANGED <<tick, failed, shards, shardImage, replicasToKill, nodeHostImage, outgoing>>
    BY Zenon DEF ApplyRequestsUpdate
  <1>1. CASE panicked' \/ SecondLaunch(reqs)
    <2>1. UNCHANGED <<requests, kvMap, launchDeadline>>
      BY <1>1, Zenon DEF ApplyRequestsUpdate
    <2>2. MixedRequests(reqs) \/ (LaunchedKey \in DOMAIN kvMap /\ IsLaunchRequests(reqs))
      BY <1>0, <1>1, Zenon DEF SecondLaunch, Launched
    <2> QED
      BY <1>0, <1>3, <2>1, <2>2, Zenon DEF AfterRequests, dbVars
  <1>2. CASE ~(panicked' \/ SecondLaunch(reqs))
    <2>1. /\ requests' = Queued(reqs)
          /\ kvMap' = IF IsLaunchRequests(reqs)
                        THEN UpdateKV(kvMap, FinalKV(LaunchedKey, "true")) ELSE kvMap
          /\ launchDeadline' = IF IsLaunchRequests(reqs)
                                 THEN tick + LaunchDeadlineTick * TickIntervalSecond
                                 ELSE launchDeadline
      BY <1>2, Zenon DEF ApplyRequestsUpdate
    <2>2. ~(MixedRequests(reqs) \/ (LaunchedKey \in DOMAIN kvMap /\ IsLaunchRequests(reqs)))
      BY <1>0, <1>2, Zenon DEF SecondLaunch, Launched
    <2> QED
      BY <1>0, <1>3, <2>1, <2>2, Zenon DEF AfterRequests, dbVars, Queued
  <1> QED
    BY <1>1, <1>2, Zenon

LEMMA KVFirst ==
    ASSUME NEW kv, ApplyKVUpdate(kv)
    PROVE  dbVars' = AfterKV(kv, tick, launchDeadline, failed, shards, kvMap,
        shardImage, replicasToKill, nodeHostImage, requests, outgoing, panicked)
  BY Zenon DEF ApplyKVUpdate, AfterKV, dbVars

LEMMA ShardFirst ==
    ASSUME NEW x, NEW m,
           IF Bootstrapped \/ x \in DOMAIN shards THEN UNCHANGED dbVars
                                                  ELSE TryCreateShard(x, m)
    PROVE  dbVars' = AfterShard(x, m, tick, launchDeadline, failed, shards, kvMap,
        shardImage, replicasToKill, nodeHostImage, requests, outgoing, panicked)
  BY Zenon DEF TryCreateShard, AfterShard, dbVars, Bootstrapped

-----------------------------------------------------------------------------
(* The second replica's instance of the DB computes what the first one's    *)
(* does: no operator of an update reads the variables of a replica.         *)

LEMMA SameKV == \A m, kv : Second!UpdateKV(m, kv) = UpdateKV(m, kv)
  BY Zenon DEF UpdateKV, Second!UpdateKV, KVRecord, Second!KVRecord,
    KVResult, Second!KVResult, DBKVUpdated, Second!DBKVUpdated,
    DBKVFinalized, Second!DBKVFinalized, DBKVRejected, Second!DBKVRejected

LEMMA SameFinal == \A key, value : Second!FinalKV(key, value) = FinalKV(key, value)
  BY Zenon DEF FinalKV, Second!FinalKV

LEMMA SameImage ==
    \A image, nhi, now : Second!UpdateShardImage(image, nhi, now)
                            = UpdateShardImage(image, nhi, now)
  <1>1. \A c, ci : Second!SyncLeaderInfo(c, ci) = SyncLeaderInfo(c, ci)
    BY Zenon DEF SyncLeaderInfo, Second!SyncLeaderInfo
  <1>2. \A c, ci, now : Second!UpdateNodeTick(c, ci, now) = UpdateNodeTick(c, ci, now)
    BY Zenon DEF UpdateNodeTick, Second!UpdateNodeTick
  <1>3. \A ci, now : Second!GetShard(ci, now) = GetShard(ci, now)
    BY Zenon DEF GetShard, Second!GetShard, NewReplica, Second!NewReplica
  <1>4. \A c, ci, now : Second!SyncShard(c, ci, now) = SyncShard(c, ci, now)
    BY Zenon DEF SyncShard, Second!SyncShard, NewReplica, Second!NewReplica
  <1>5. \A ci : Second!FullInfo(ci) = FullInfo(ci)
    BY Zenon DEF FullInfo, Second!FullInfo
  <1>6. \A c, ci, now : Second!UpdateShard(c, ci, now) = UpdateShard(c, ci, now)
    BY <1>1, <1>2, <1>4, <1>5, Zenon DEF UpdateShard, Second!UpdateShard
  <1>7. \A ci, now : Second!CreateShard(ci, now) = CreateShard(ci, now)
    BY <1>1, <1>2, <1>3, Zenon DEF CreateShard, Second!CreateShard
  <1>8. \A nhi : {s \in DOMAIN nhi.info : Second!FullInfo(nhi.info[s])}
                   = {s \in DOMAIN nhi.info : FullInfo(nhi.info[s])}
    BY Zenon DEF FullInfo, Second!FullInfo
  <1>9. TAKE image, nhi, now
  <1> QED
    BY <1>6, <1>7, <1>8 DEF UpdateShardImage, Second!UpdateShardImage

LEMMA SameZombies == \A image, nhi : Second!Zombies(image, nhi) = Zombies(image, nhi)
  BY Zenon DEF Zombies, Second!Zombies, KillRequestRequired, Second!KillRequestRequired,
    FullInfo, Second!FullInfo

LEMMA SamePanics ==
    \A image, nhi : Second!ReportPanics(image, nhi) = ReportPanics(image, nhi)
  BY Zenon DEF ReportPanics, Second!ReportPanics, SyncShardPanics, Second!SyncShardPanics,
    FullInfo, Second!FullInfo

LEMMA SameHosts ==
    /\ \A hosts, nhi, now : Second!UpdateNodeHostImage(hosts, nhi, now)
                              = UpdateNodeHostImage(hosts, nhi, now)
    /\ \A hosts, image : Second!SyncShardInfo(hosts, image) = SyncShardInfo(hosts, image)
  BY Zenon DEF UpdateNodeHostImage, Second!UpdateNodeHostImage,
    SyncShardInfo, Second!SyncShardInfo

LEMMA SameCardinality == \A S : Second!Cardinality(S) = Cardinality(S)
  BY Zenon DEF Second!Cardinality, Cardinality

LEMMA SameLaunched == \A image : Second!LaunchedShards(image) = LaunchedShards(image)
  BY Zenon DEF LaunchedShards, Second!LaunchedShards

LEMMA SameRequests ==
    /\ \A reqs, h : Second!RequestsTo(reqs, h) = RequestsTo(reqs, h)
    /\ \A reqs : Second!IsLaunchRequests(reqs) = IsLaunchRequests(reqs)
    /\ \A reqs : Second!MixedRequests(reqs) = MixedRequests(reqs)
  <1>1. \A reqs, h : Second!RequestsTo(reqs, h) = RequestsTo(reqs, h)
    BY Zenon DEF RequestsTo, Second!RequestsTo, Subsequence, Second!Subsequence,
      Cardinality, Second!Cardinality
  <1>2. \A reqs : Second!IsLaunchRequests(reqs) = IsLaunchRequests(reqs)
    BY Zenon DEF IsLaunchRequests, Second!IsLaunchRequests, IsLaunchRequest, Second!IsLaunchRequest
  <1>3. \A reqs : Second!MixedRequests(reqs) = MixedRequests(reqs)
    BY Zenon DEF MixedRequests, Second!MixedRequests, IsLaunchRequests, Second!IsLaunchRequests,
      IsLaunchRequest, Second!IsLaunchRequest
  <1> QED
    BY <1>1, <1>2, <1>3, Zenon

-----------------------------------------------------------------------------
(* And each action of the second replica's DB is the same function.         *)

LEMMA TickSecond ==
    ASSUME Second!ApplyTickUpdate
    PROVE  secondVars' = AfterTick(tick2, launchDeadline2, failed2, shards2, kvMap2,
        shardImage2, replicasToKill2, nodeHostImage2, requests2, outgoing2, panicked2)
  <1>1. /\ tick2' = tick2 + TickIntervalSecond
        /\ failed2' = (launchDeadline2 > 0 /\ tick2' > launchDeadline2)
        /\ UNCHANGED <<launchDeadline2, shards2, kvMap2, shardImage2, replicasToKill2,
                       nodeHostImage2, requests2, outgoing2, panicked2>>
    BY Zenon DEF Second!ApplyTickUpdate, Second!DeadlineMissed
  <1>2. failed2' = (launchDeadline2 > 0 /\ tick2 + TickIntervalSecond > launchDeadline2)
    BY <1>1, Zenon
  <1> QED
    BY <1>1, <1>2, Zenon DEF AfterTick, secondVars

LEMMA ReportSecond ==
    ASSUME NEW nhi, Second!ApplyNodeHostInfoUpdate(nhi)
    PROVE  secondVars' = AfterReport(nhi, tick2, launchDeadline2, failed2, shards2, kvMap2,
        shardImage2, replicasToKill2, nodeHostImage2, requests2, outgoing2, panicked2)
  <1>0. panicked2' = ReportPanics(shardImage2, nhi)
    BY SamePanics, Zenon DEF Second!ApplyNodeHostInfoUpdate
  <1>1. CASE panicked2'
    <2>1. /\ UNCHANGED <<shardImage2, replicasToKill2, nodeHostImage2, requests2,
                          outgoing2, launchDeadline2>>
          /\ UNCHANGED <<tick2, failed2, shards2, kvMap2>>
      BY <1>1, Zenon DEF Second!ApplyNodeHostInfoUpdate
    <2>2. ReportPanics(shardImage2, nhi)
      BY <1>0, <1>1, Zenon
    <2> QED
      BY <1>0, <2>1, <2>2, Zenon DEF AfterReport, secondVars
  <1>2. CASE ~panicked2'
    <2> DEFINE image == UpdateShardImage(shardImage2, nhi, tick2)
    <2>1. ~ReportPanics(shardImage2, nhi)
      BY <1>0, <1>2, Zenon
    <2>2. /\ shardImage2' = image
          /\ replicasToKill2' = replicasToKill2 \cup Zombies(shardImage2, nhi)
          /\ nodeHostImage2' = SyncShardInfo(UpdateNodeHostImage(nodeHostImage2, nhi, tick2), image)
          /\ Second!HandOver(nhi.addr)
          /\ launchDeadline2' = Second!DeadlineAfter(image)
          /\ UNCHANGED <<tick2, failed2, shards2, kvMap2>>
      BY <1>2, SamePanics, SameImage, SameZombies, SameHosts, Zenon DEF Second!ApplyNodeHostInfoUpdate
    <2> QED
      BY <1>0, <2>1, <2>2, SameCardinality, SameLaunched, Zenon DEF AfterReport, secondVars, Second!HandOver, Second!DeadlineAfter
  <1> QED
    BY <1>1, <1>2, Zenon

LEMMA RequestsSecond ==
    ASSUME NEW reqs, Second!ApplyRequestsUpdate(reqs)
    PROVE  secondVars' = AfterRequests(reqs, tick2, launchDeadline2, failed2, shards2, kvMap2,
        shardImage2, replicasToKill2, nodeHostImage2, requests2, outgoing2, panicked2)
  <1>0. panicked2' = MixedRequests(reqs)
    BY SameRequests, Zenon DEF Second!ApplyRequestsUpdate
  <1>3. UNCHANGED <<tick2, failed2, shards2, shardImage2, replicasToKill2, nodeHostImage2, outgoing2>>
    BY Zenon DEF Second!ApplyRequestsUpdate
  <1>1. CASE panicked2' \/ Second!SecondLaunch(reqs)
    <2>1. UNCHANGED <<requests2, kvMap2, launchDeadline2>>
      BY <1>1, Zenon DEF Second!ApplyRequestsUpdate
    <2>2. MixedRequests(reqs) \/ (LaunchedKey \in DOMAIN kvMap2 /\ IsLaunchRequests(reqs))
      BY <1>0, <1>1, SameRequests, Zenon DEF Second!SecondLaunch, Second!Launched, LaunchedKey, Second!LaunchedKey
    <2> QED
      BY <1>0, <1>3, <2>1, <2>2, Zenon DEF AfterRequests, secondVars
  <1>2. CASE ~(panicked2' \/ Second!SecondLaunch(reqs))
    <2>1. /\ requests2' = Second!Queued(reqs)
          /\ kvMap2' = IF IsLaunchRequests(reqs)
                        THEN UpdateKV(kvMap2, FinalKV(LaunchedKey, "true")) ELSE kvMap2
          /\ launchDeadline2' = IF IsLaunchRequests(reqs)
                                 THEN tick2 + LaunchDeadlineTick * TickIntervalSecond
                                 ELSE launchDeadline2
      BY <1>2, SameRequests, SameKV, SameFinal, Zenon DEF Second!ApplyRequestsUpdate, LaunchedKey, Second!LaunchedKey
    <2>2. ~(MixedRequests(reqs) \/ (LaunchedKey \in DOMAIN kvMap2 /\ IsLaunchRequests(reqs)))
      BY <1>0, <1>2, SameRequests, Zenon DEF Second!SecondLaunch, Second!Launched, LaunchedKey, Second!LaunchedKey
    <2> QED
      BY <1>0, <1>3, <2>1, <2>2, SameRequests, Zenon DEF AfterRequests, secondVars, Second!Queued
  <1> QED
    BY <1>1, <1>2, Zenon

LEMMA KVSecond ==
    ASSUME NEW kv, Second!ApplyKVUpdate(kv)
    PROVE  secondVars' = AfterKV(kv, tick2, launchDeadline2, failed2, shards2, kvMap2,
        shardImage2, replicasToKill2, nodeHostImage2, requests2, outgoing2, panicked2)
  BY SameKV, Zenon DEF Second!ApplyKVUpdate, AfterKV, secondVars

LEMMA ShardSecond ==
    ASSUME NEW x, NEW m,
           IF Second!Bootstrapped \/ x \in DOMAIN shards2 THEN UNCHANGED secondVars
                                                  ELSE Second!TryCreateShard(x, m)
    PROVE  secondVars' = AfterShard(x, m, tick2, launchDeadline2, failed2, shards2, kvMap2,
        shardImage2, replicasToKill2, nodeHostImage2, requests2, outgoing2, panicked2)
  BY Zenon DEF Second!TryCreateShard, AfterShard, secondVars, Second!Bootstrapped, BootstrappedKey, Second!BootstrappedKey

\* Update of db.go switches on the type of the entry.
LEMMA EntryKinds ==
    \A e \in Entries : \/ e.type = "tick" \/ e.type = "report" \/ e.type = "requests"
                       \/ e.type = "kv" \/ e.type = "shard"
  BY DEF Entries, TickEntry, ReportEntry, RequestsEntry, KVEntry, ShardEntry

\* Update, on either replica, computes the state from the state and the entry.
LEMMA UpdateFirstIsAfter ==
    ASSUME NEW e, e \in Entries, UpdateFirst(e)
    PROVE  dbVars' = After(e, dbVars)
  <1>1. /\ dbVars[1] = tick
        /\ dbVars[2] = launchDeadline
        /\ dbVars[3] = failed
        /\ dbVars[4] = shards
        /\ dbVars[5] = kvMap
        /\ dbVars[6] = shardImage
        /\ dbVars[7] = replicasToKill
        /\ dbVars[8] = nodeHostImage
        /\ dbVars[9] = requests
        /\ dbVars[10] = outgoing
        /\ dbVars[11] = panicked
    BY DEF dbVars
  <1>2. After(e, dbVars) = AfterEntry(e, tick, launchDeadline, failed, shards, kvMap,
            shardImage, replicasToKill, nodeHostImage, requests, outgoing, panicked)
    BY <1>1, Zenon DEF After
  <1>3. CASE e.type = "tick"
    <2>1. ApplyTickUpdate
      BY <1>3 DEF UpdateFirst
    <2> QED
      BY <1>2, <1>3, <2>1, TickFirst, Zenon DEF AfterEntry
  <1>4. CASE e.type = "report"
    <2>1. ApplyNodeHostInfoUpdate(e.nhi)
      BY <1>4 DEF UpdateFirst
    <2>2. e.type # "tick"
      BY <1>4
    <2> QED
      BY <1>2, <1>4, <2>1, <2>2, ReportFirst, Zenon DEF AfterEntry
  <1>5. CASE e.type = "requests"
    <2>1. ApplyRequestsUpdate(e.reqs)
      BY <1>5 DEF UpdateFirst
    <2>2. e.type # "tick" /\ e.type # "report"
      BY <1>5
    <2> QED
      BY <1>2, <1>5, <2>1, <2>2, RequestsFirst, Zenon DEF AfterEntry
  <1>6. CASE e.type = "kv"
    <2>1. ApplyKVUpdate(e.kv)
      BY <1>6 DEF UpdateFirst
    <2>2. e.type # "tick" /\ e.type # "report" /\ e.type # "requests"
      BY <1>6
    <2> QED
      BY <1>2, <1>6, <2>1, <2>2, KVFirst, Zenon DEF AfterEntry
  <1>7. CASE e.type = "shard"
    <2>1. IF Bootstrapped \/ e.shard \in DOMAIN shards THEN UNCHANGED dbVars
                                                 ELSE TryCreateShard(e.shard, e.members)
      BY <1>7 DEF UpdateFirst
    <2>2. e.type # "tick" /\ e.type # "report" /\ e.type # "requests" /\ e.type # "kv"
      BY <1>7
    <2> QED
      BY <1>2, <1>7, <2>1, <2>2, ShardFirst, Zenon DEF AfterEntry
  <1> QED
    BY <1>3, <1>4, <1>5, <1>6, <1>7, EntryKinds, Zenon

LEMMA UpdateSecondIsAfter ==
    ASSUME NEW e, e \in Entries, UpdateSecond(e)
    PROVE  secondVars' = After(e, secondVars)
  <1>1. /\ secondVars[1] = tick2
        /\ secondVars[2] = launchDeadline2
        /\ secondVars[3] = failed2
        /\ secondVars[4] = shards2
        /\ secondVars[5] = kvMap2
        /\ secondVars[6] = shardImage2
        /\ secondVars[7] = replicasToKill2
        /\ secondVars[8] = nodeHostImage2
        /\ secondVars[9] = requests2
        /\ secondVars[10] = outgoing2
        /\ secondVars[11] = panicked2
    BY DEF secondVars
  <1>2. After(e, secondVars) = AfterEntry(e, tick2, launchDeadline2, failed2, shards2, kvMap2,
            shardImage2, replicasToKill2, nodeHostImage2, requests2, outgoing2, panicked2)
    BY <1>1, Zenon DEF After
  <1>3. CASE e.type = "tick"
    <2>1. Second!ApplyTickUpdate
      BY <1>3 DEF UpdateSecond
    <2> QED
      BY <1>2, <1>3, <2>1, TickSecond, Zenon DEF AfterEntry
  <1>4. CASE e.type = "report"
    <2>1. Second!ApplyNodeHostInfoUpdate(e.nhi)
      BY <1>4 DEF UpdateSecond
    <2>2. e.type # "tick"
      BY <1>4
    <2> QED
      BY <1>2, <1>4, <2>1, <2>2, ReportSecond, Zenon DEF AfterEntry
  <1>5. CASE e.type = "requests"
    <2>1. Second!ApplyRequestsUpdate(e.reqs)
      BY <1>5 DEF UpdateSecond
    <2>2. e.type # "tick" /\ e.type # "report"
      BY <1>5
    <2> QED
      BY <1>2, <1>5, <2>1, <2>2, RequestsSecond, Zenon DEF AfterEntry
  <1>6. CASE e.type = "kv"
    <2>1. Second!ApplyKVUpdate(e.kv)
      BY <1>6 DEF UpdateSecond
    <2>2. e.type # "tick" /\ e.type # "report" /\ e.type # "requests"
      BY <1>6
    <2> QED
      BY <1>2, <1>6, <2>1, <2>2, KVSecond, Zenon DEF AfterEntry
  <1>7. CASE e.type = "shard"
    <2>1. IF Second!Bootstrapped \/ e.shard \in DOMAIN shards2 THEN UNCHANGED secondVars
                                                 ELSE Second!TryCreateShard(e.shard, e.members)
      BY <1>7 DEF UpdateSecond
    <2>2. e.type # "tick" /\ e.type # "report" /\ e.type # "requests" /\ e.type # "kv"
      BY <1>7
    <2> QED
      BY <1>2, <1>7, <2>1, <2>2, ShardSecond, Zenon DEF AfterEntry
  <1> QED
    BY <1>3, <1>4, <1>5, <1>6, <1>7, EntryKinds, Zenon

-----------------------------------------------------------------------------
(* The inductive invariant.  The history is the log replayed on a new DB:   *)
(* each state in it comes from the one before and from the entry alone.     *)
(* Each replica is where the history was after the entries it applied, and  *)
(* a snapshot is the state after the entries it says it covers, taken when  *)
(* that state had not failed.                                               *)

Fresh == <<0, 0, FALSE, EmptyMap, EmptyMap, EmptyMap, {}, EmptyMap,
           [h \in Hosts |-> <<>>], [h \in Hosts |-> <<>>], FALSE>>

\* The state after the first n entries.
StateAfter(n) == IF n = 0 THEN Fresh ELSE past[n]

SnapshotFits(s) ==
    /\ s.index \in 0..Len(log)
    /\ <<s.tick, s.launchDeadline, s.failed, s.shards, s.kvMap, s.shardImage,
         s.replicasToKill, s.nodeHostImage, s.requests, s.outgoing, FALSE>>
           = StateAfter(s.index)

HistoryIsReplay ==
    /\ log \in Seq(Entries)
    /\ past \in Seq({past[n] : n \in DOMAIN past})
    /\ Len(past) = Len(log)
    /\ \A n \in 1..Len(log) : past[n] = After(log[n], StateAfter(n - 1))
    /\ \A n \in 0..Len(log) : StateAfter(n)[11] \in BOOLEAN

Replayed ==
    /\ HistoryIsReplay
    /\ dbVars = StateAfter(Len(log))
    /\ index \in 0..Len(log)
    /\ secondVars = StateAfter(index)
    /\ SnapshotFits(streamed)
    /\ SnapshotFits(saved)

\* That an update panics is a fact, true or false.
LEMMA PanickedIsBoolean ==
    ASSUME NEW e, NEW x, x[11] \in BOOLEAN
    PROVE  After(e, x)[11] \in BOOLEAN
  <1> DEFINE t == x[1]  d == x[2]  f == x[3]  s == x[4]  k == x[5]  i == x[6]
             z == x[7]  n == x[8]  r == x[9]  o == x[10]  p == x[11]
  <1> HIDE DEF t, d, f, s, k, i, z, n, r, o
  <1>0. p \in BOOLEAN
    OBVIOUS
  <1> HIDE DEF p
  <1>1. AfterTick(t, d, f, s, k, i, z, n, r, o, p)[11] \in BOOLEAN
    BY <1>0 DEF AfterTick
  <1>2. AfterReport(e.nhi, t, d, f, s, k, i, z, n, r, o, p)[11] \in BOOLEAN
    <2>1. ReportPanics(i, e.nhi) \in BOOLEAN
      BY DEF ReportPanics
    <2>2. AfterReport(e.nhi, t, d, f, s, k, i, z, n, r, o, p)[11] = ReportPanics(i, e.nhi)
      BY DEF AfterReport
    <2> QED
      BY <2>1, <2>2, Zenon
  <1>3. AfterRequests(e.reqs, t, d, f, s, k, i, z, n, r, o, p)[11] \in BOOLEAN
    <2>1. MixedRequests(e.reqs) \in BOOLEAN
      BY DEF MixedRequests
    <2>2. AfterRequests(e.reqs, t, d, f, s, k, i, z, n, r, o, p)[11] = MixedRequests(e.reqs)
      BY DEF AfterRequests
    <2> QED
      BY <2>1, <2>2, Zenon
  <1>4. AfterKV(e.kv, t, d, f, s, k, i, z, n, r, o, p)[11] \in BOOLEAN
    BY <1>0 DEF AfterKV
  <1>5. AfterShard(e.shard, e.members, t, d, f, s, k, i, z, n, r, o, p)[11] \in BOOLEAN
    BY <1>0 DEF AfterShard
  <1>6. After(e, x) = AfterEntry(e, t, d, f, s, k, i, z, n, r, o, p)
    BY Zenon DEF After, t, d, f, s, k, i, z, n, r, o, p
  <1>7. AfterEntry(e, t, d, f, s, k, i, z, n, r, o, p)[11] \in BOOLEAN
    BY <1>1, <1>2, <1>3, <1>4, <1>5, Zenon DEF AfterEntry
  <1> QED
    BY <1>6, <1>7, Zenon

\* A new DB and the snapshot of one: NewDB.
LEMMA ReplayedInit == Init => Replayed
  <1> SUFFICES ASSUME Init PROVE Replayed
    OBVIOUS
  <1>1. log = <<>> /\ past = <<>> /\ index = 0 /\ Len(log) = 0 /\ Len(past) = 0
    BY DEF Init
  <1>2. dbVars = Fresh
    BY Zenon DEF Init, Init_DB, dbVars, Fresh
  <1>3. secondVars = Fresh
    BY Zenon DEF Init, Second!Init_DB, secondVars, Fresh, EmptyMap, Second!EmptyMap
  <1>4. SnapshotFits(NewSnapshot)
    <2>1. NewSnapshot.index = 0
      BY DEF NewSnapshot, Snapshot
    <2>2. <<NewSnapshot.tick, NewSnapshot.launchDeadline, NewSnapshot.failed,
            NewSnapshot.shards, NewSnapshot.kvMap, NewSnapshot.shardImage,
            NewSnapshot.replicasToKill, NewSnapshot.nodeHostImage,
            NewSnapshot.requests, NewSnapshot.outgoing, FALSE>> = Fresh
      BY DEF NewSnapshot, Snapshot, Fresh
    <2>3. NewSnapshot.index \in 0..Len(log)
      BY <1>1, <2>1
    <2>4. StateAfter(NewSnapshot.index) = Fresh
      BY <2>1, Zenon DEF StateAfter
    <2> QED
      BY <2>2, <2>3, <2>4, Zenon DEF SnapshotFits
  <1>5. Fresh[11] \in BOOLEAN
    BY DEF Fresh
  <1>6. HistoryIsReplay
    BY <1>1, <1>5 DEF HistoryIsReplay, StateAfter
  <1> QED
    BY <1>1, <1>2, <1>3, <1>4, <1>6 DEF Replayed, StateAfter, Init

\* RecoverFromSnapshot puts a replica where the history was.
LEMMA RecoveryFits ==
    ASSUME NEW s, SnapshotFits(s), RecoverFromSnapshot(s)
    PROVE  /\ index' \in 0..Len(log)
           /\ secondVars' = StateAfter(index')
  <1>1. /\ tick2' = s.tick /\ launchDeadline2' = s.launchDeadline /\ failed2' = s.failed
        /\ shards2' = s.shards /\ kvMap2' = s.kvMap /\ shardImage2' = s.shardImage
        /\ replicasToKill2' = s.replicasToKill /\ nodeHostImage2' = s.nodeHostImage
        /\ requests2' = s.requests /\ outgoing2' = s.outgoing
    BY Zenon DEF RecoverFromSnapshot, Recovered
  <1>2. panicked2' = FALSE /\ index' = s.index
    BY DEF RecoverFromSnapshot, Recovered
  <1>3. secondVars' = <<s.tick, s.launchDeadline, s.failed, s.shards, s.kvMap, s.shardImage,
         s.replicasToKill, s.nodeHostImage, s.requests, s.outgoing, FALSE>>
    BY <1>1, <1>2 DEF secondVars
  <1> QED
    BY <1>2, <1>3, Zenon DEF SnapshotFits

\* Commit: one more entry, and the state it leads to.
LEMMA CommitReplays == Replayed /\ Commit => Replayed'
  <1> SUFFICES ASSUME Replayed, Commit PROVE Replayed'
    OBVIOUS
  <1>0. PICK L \in Nat : L = Len(log)
    BY DEF Replayed, HistoryIsReplay
  <1>1. PICK e \in Entries : UpdateFirst(e) /\ log' = Append(log, e)
    BY DEF Commit
  <1>2. /\ past' = Append(past, dbVars')
        /\ UNCHANGED <<secondVars, streamed, saved, index>>
    BY Zenon DEF Commit
  <1>3. dbVars' = After(e, dbVars)
    BY <1>1, UpdateFirstIsAfter, Zenon
  <1>4. /\ log \in Seq(Entries) /\ past \in Seq({past[n] : n \in DOMAIN past})
        /\ L \in Nat /\ Len(past) = L
    BY <1>0 DEF Replayed, HistoryIsReplay
  <1> DEFINE y == dbVars'
  <1> HIDE DEF y
  <1>5. /\ log' \in Seq(Entries) /\ Len(log') = L + 1 /\ log'[L + 1] = e
        /\ \A n \in 1..L : log'[n] = log[n]
    BY <1>0, <1>1, <1>4
  <1>6. /\ Len(past') = L + 1 /\ past'[L + 1] = y /\ DOMAIN past' = 1..(L + 1)
        /\ \A n \in 1..L : past'[n] = past[n]
        /\ past' = [n \in 1..(L + 1) |-> past'[n]]
    <2> DEFINE S == {past[n] : n \in DOMAIN past} \cup {y}
    <2>1. past \in Seq(S) /\ y \in S
      BY <1>4
    <2> HIDE DEF S
    <2>2. past' = Append(past, y)
      BY <1>2, Zenon DEF y
    <2>3. past' \in Seq(S) /\ Len(past') = L + 1 /\ past'[L + 1] = y
      BY <1>4, <2>1, <2>2
    <2>4. \A n \in 1..L : past'[n] = past[n]
      BY <1>4, <2>1, <2>2
    <2>5. DOMAIN past' = 1..(L + 1) /\ past' = [n \in 1..(L + 1) |-> past'[n]]
      BY <2>3
    <2> QED
      BY <2>3, <2>4, <2>5
  <1>7. past' \in Seq({past'[n] : n \in DOMAIN past'})
    BY <1>4, <1>6
  <1>8. \A n \in 0..L : StateAfter(n)' = StateAfter(n)
    <2> SUFFICES ASSUME NEW n \in 0..L PROVE StateAfter(n)' = StateAfter(n)
      OBVIOUS
    <2>1. n = 0 \/ n \in 1..L
      BY <1>4
    <2> QED
      BY <2>1, <1>6, Zenon DEF StateAfter
  <1>9. StateAfter(L + 1)' = y
    <2>1. L + 1 # 0
      BY <1>4
    <2> QED
      BY <2>1, <1>6, Zenon DEF StateAfter
  <1>10. y = After(e, StateAfter(L))
    BY <1>0, <1>3, Zenon DEF y, Replayed
  <1>11. \A n \in 1..(L + 1) : past'[n] = After(log'[n], StateAfter(n - 1)')
    <2> TAKE n \in 1..(L + 1)
    <2>1. CASE n = L + 1
      <3>1. n - 1 = L /\ L \in 0..L
        BY <2>1, <1>4
      <3> QED
        BY <2>1, <3>1, <1>5, <1>6, <1>8, <1>10, Zenon
    <2>2. CASE n # L + 1
      <3>1. n \in 1..L /\ n - 1 \in 0..L
        BY <2>2, <1>4
      <3>2. past[n] = After(log[n], StateAfter(n - 1))
        BY <3>1, <1>0, Zenon DEF Replayed, HistoryIsReplay
      <3> QED
        BY <3>1, <3>2, <1>5, <1>6, <1>8, Zenon
    <2> QED
      BY <2>1, <2>2
  <1>12. \A n \in 0..(L + 1) : StateAfter(n)'[11] \in BOOLEAN
    <2> TAKE n \in 0..(L + 1)
    <2>1. CASE n = L + 1
      <3>1. L \in 0..L
        BY <1>4
      <3>2. StateAfter(L)[11] \in BOOLEAN
        BY <3>1, <1>0, Zenon DEF Replayed, HistoryIsReplay
      <3>3. After(e, StateAfter(L))[11] \in BOOLEAN
        BY <3>2, PanickedIsBoolean
      <3> QED
        BY <2>1, <3>3, <1>9, <1>10, Zenon
    <2>2. CASE n # L + 1
      <3>1. n \in 0..L
        BY <2>2, <1>4
      <3>2. StateAfter(n)[11] \in BOOLEAN
        BY <3>1, <1>0, Zenon DEF Replayed, HistoryIsReplay
      <3> QED
        BY <3>1, <3>2, <1>8, Zenon
    <2> QED
      BY <2>1, <2>2
  <1>13. HistoryIsReplay'
    BY <1>5, <1>6, <1>7, <1>11, <1>12, Zenon DEF HistoryIsReplay
  <1>14. \A s : SnapshotFits(s) => SnapshotFits(s)'
    <2> SUFFICES ASSUME NEW s, SnapshotFits(s) PROVE SnapshotFits(s)'
      OBVIOUS
    <2>1. s.index \in 0..L
      BY <1>0, Zenon DEF SnapshotFits
    <2>2. s.index \in 0..Len(log')
      BY <2>1, <1>4, <1>5
    <2>3. StateAfter(s.index)' = StateAfter(s.index)
      BY <2>1, <1>8, Zenon
    <2> QED
      BY <2>2, <2>3, Zenon DEF SnapshotFits
  <1>15. SnapshotFits(streamed)' /\ SnapshotFits(saved)'
    BY <1>2, <1>14, Zenon DEF Replayed, SnapshotFits
  <1>16. index' \in 0..Len(log') /\ index \in 0..L
    BY <1>0, <1>2, <1>4, <1>5 DEF Replayed
  <1>17. secondVars' = StateAfter(index)'
    BY <1>2, <1>8, <1>16, Zenon DEF Replayed
  <1>18. dbVars' = StateAfter(Len(log))'
    BY <1>5, <1>9, Zenon DEF StateAfter, y
  <1> QED
    BY <1>13, <1>15, <1>16, <1>17, <1>18, Zenon DEF Replayed

\* Apply: the replica applies to the state after index entries the entry that
\* the history was continued with.
LEMMA ApplyReplays == Replayed /\ Apply => Replayed'
  <1> SUFFICES ASSUME Replayed, Apply PROVE Replayed'
    OBVIOUS
  <1>1. /\ index < Len(log) /\ index' = index + 1 /\ UpdateSecond(log[index + 1])
        /\ UNCHANGED <<dbVars, log, past, streamed, saved>>
    BY Zenon DEF Apply, logVars
  <1>2. PICK m \in Nat : m = index + 1 /\ m \in 1..Len(log) /\ m - 1 = index
    BY <1>1 DEF Replayed, HistoryIsReplay
  <1>3. log[m] \in Entries
    BY <1>2 DEF Replayed, HistoryIsReplay
  <1>4. secondVars' = After(log[m], secondVars)
    BY <1>1, <1>2, <1>3, UpdateSecondIsAfter, Zenon
  <1>5. past[m] = After(log[m], StateAfter(m - 1))
    BY <1>2, Zenon DEF Replayed, HistoryIsReplay
  <1>6. secondVars = StateAfter(m - 1)
    BY <1>2, Zenon DEF Replayed
  <1>7. secondVars' = past[m]
    BY <1>4, <1>5, <1>6, Zenon
  <1>8. m # 0
    BY <1>2
  <1>9. secondVars' = StateAfter(index)'
    BY <1>1, <1>2, <1>7, <1>8, Zenon DEF StateAfter
  <1>10. index' \in 0..Len(log)
    BY <1>1, <1>2
  <1> QED
    BY <1>1, <1>9, <1>10, Zenon DEF Replayed, HistoryIsReplay, SnapshotFits, StateAfter

\* A snapshot is taken of a state that has not panicked.
LEMMA FirstSnapshotFits ==
    ASSUME Replayed, Running
    PROVE  SnapshotFits(FirstSnapshot)
  <1>1. Len(log) \in 0..Len(log)
    BY DEF Replayed, HistoryIsReplay
  <1>2. dbVars[11] \in BOOLEAN
    BY <1>1, Zenon DEF Replayed, HistoryIsReplay
  <1>3. panicked = FALSE
    <2>1. dbVars[11] = panicked
      BY DEF dbVars
    <2> QED
      BY <1>2, <2>1 DEF Running
  <1>4. FirstSnapshot.index = Len(log)
    BY DEF FirstSnapshot, Snapshot
  <1>5. <<FirstSnapshot.tick, FirstSnapshot.launchDeadline, FirstSnapshot.failed,
          FirstSnapshot.shards, FirstSnapshot.kvMap, FirstSnapshot.shardImage,
          FirstSnapshot.replicasToKill, FirstSnapshot.nodeHostImage,
          FirstSnapshot.requests, FirstSnapshot.outgoing, FALSE>> = dbVars
    BY <1>3 DEF FirstSnapshot, Snapshot, dbVars
  <1>6. dbVars = StateAfter(Len(log))
    BY Zenon DEF Replayed
  <1> QED
    BY <1>1, <1>4, <1>5, <1>6, Zenon DEF SnapshotFits

LEMMA SecondSnapshotFits ==
    ASSUME Replayed, Second!Running
    PROVE  SnapshotFits(SecondSnapshot)
  <1>1. index \in 0..Len(log)
    BY DEF Replayed
  <1>2. secondVars[11] \in BOOLEAN
    BY <1>1, Zenon DEF Replayed, HistoryIsReplay
  <1>3. panicked2 = FALSE
    <2>1. secondVars[11] = panicked2
      BY DEF secondVars
    <2> QED
      BY <1>2, <2>1 DEF Second!Running
  <1>4. SecondSnapshot.index = index
    BY DEF SecondSnapshot, Snapshot
  <1>5. <<SecondSnapshot.tick, SecondSnapshot.launchDeadline, SecondSnapshot.failed,
          SecondSnapshot.shards, SecondSnapshot.kvMap, SecondSnapshot.shardImage,
          SecondSnapshot.replicasToKill, SecondSnapshot.nodeHostImage,
          SecondSnapshot.requests, SecondSnapshot.outgoing, FALSE>> = secondVars
    BY <1>3 DEF SecondSnapshot, Snapshot, secondVars
  <1>6. secondVars = StateAfter(index)
    BY Zenon DEF Replayed
  <1> QED
    BY <1>1, <1>4, <1>5, <1>6, Zenon DEF SnapshotFits

\* StreamSnapshot, SaveSnapshot, InstallSnapshot and Restart leave the log alone.
LEMMA SnapshotsReplay ==
    Replayed /\ (StreamSnapshot \/ SaveSnapshot \/ InstallSnapshot \/ Restart) => Replayed'
  <1> SUFFICES ASSUME Replayed, StreamSnapshot \/ SaveSnapshot \/ InstallSnapshot \/ Restart
               PROVE  Replayed'
    OBVIOUS
  <1>1. CASE StreamSnapshot
    <2>1. /\ UNCHANGED <<dbVars, secondVars, log, past, saved, index>>
          /\ streamed' = FirstSnapshot
      BY <1>1, Zenon DEF StreamSnapshot
    <2>2. SnapshotFits(streamed')
      BY <1>1, <2>1, FirstSnapshotFits, Zenon DEF StreamSnapshot
    <2> QED
      BY <2>1, <2>2, Zenon DEF Replayed, HistoryIsReplay, SnapshotFits, StateAfter
  <1>2. CASE SaveSnapshot
    <2>1. /\ UNCHANGED <<dbVars, secondVars, log, past, streamed, index>>
          /\ saved' = SecondSnapshot
      BY <1>2, Zenon DEF SaveSnapshot, logVars
    <2>2. SnapshotFits(saved')
      BY <1>2, <2>1, SecondSnapshotFits, Zenon DEF SaveSnapshot
    <2> QED
      BY <2>1, <2>2, Zenon DEF Replayed, HistoryIsReplay, SnapshotFits, StateAfter
  <1>3. CASE InstallSnapshot
    <2>1. /\ UNCHANGED <<dbVars, log, past, streamed>>
          /\ saved' = streamed
          /\ RecoverFromSnapshot(streamed)
      BY <1>3, Zenon DEF InstallSnapshot, logVars
    <2>2. index' \in 0..Len(log) /\ secondVars' = StateAfter(index')
      BY <2>1, RecoveryFits, Zenon DEF Replayed
    <2> QED
      BY <2>1, <2>2, Zenon DEF Replayed, HistoryIsReplay, SnapshotFits, StateAfter
  <1>4. CASE Restart
    <2>1. /\ UNCHANGED <<dbVars, log, past, streamed, saved>>
          /\ RecoverFromSnapshot(saved)
      BY <1>4, Zenon DEF Restart, logVars
    <2>2. index' \in 0..Len(log) /\ secondVars' = StateAfter(index')
      BY <2>1, RecoveryFits, Zenon DEF Replayed
    <2> QED
      BY <2>1, <2>2, Zenon DEF Replayed, HistoryIsReplay, SnapshotFits, StateAfter
  <1> QED
    BY <1>1, <1>2, <1>3, <1>4

(* Every state the two replicas can reach is the log replayed: an update of *)
(* db.go depends on the state and on the entry alone, and what              *)
(* SaveSnapshot writes and RecoverFromSnapshot reads is the whole state of  *)
(* a DB that has not failed.                                                *)
THEOREM ReplayedHolds == ReplicatedSpec => []Replayed
  <1>1. Init => Replayed
    BY ReplayedInit
  <1>2. Replayed /\ [Next]_vars => Replayed'
    <2> SUFFICES ASSUME Replayed, [Next]_vars PROVE Replayed'
      OBVIOUS
    <2>1. CASE Commit
      BY <2>1, CommitReplays
    <2>2. CASE Apply
      BY <2>2, ApplyReplays
    <2>3. CASE StreamSnapshot \/ SaveSnapshot \/ InstallSnapshot \/ Restart
      BY <2>3, SnapshotsReplay
    <2>4. CASE UNCHANGED vars
      BY <2>4, Zenon DEF vars, logVars, Replayed, HistoryIsReplay, SnapshotFits, StateAfter
    <2> QED
      BY <2>1, <2>2, <2>3, <2>4 DEF Next
  <1> QED
    BY <1>1, <1>2, PTL DEF ReplicatedSpec

(* Two replicas of the Drummer DB that applied the same entries are in the  *)
(* same state, for any log of any length, any number of snapshots saved,    *)
(* streamed and installed, and any number of crashes (Update,               *)
(* SaveSnapshot and RecoverFromSnapshot of db.go).                          *)
THEOREM ReplicasAgreeHolds == ReplicatedSpec => []ReplicasAgree
  <1>1. Replayed => ReplicasAgree
    <2> SUFFICES ASSUME Replayed, index > 0 PROVE past[index] = secondVars
      BY DEF ReplicasAgree
    <2>1. index # 0
      OBVIOUS
    <2> QED
      BY <2>1, Zenon DEF Replayed, StateAfter
  <1> QED
    BY <1>1, ReplayedHolds, PTL

================================================================================

-------------------------- MODULE ShardClusterProofs --------------------------
(***************************************************************************)
(* Proofs about ShardCluster: the safety of repair, and that the shards    *)
(* are launched once, from one plan, for any number of shards, replicas,   *)
(* NodeHosts and Drummers, however late or often their reports and orders  *)
(* arrive and whichever NodeHosts crash.                                   *)
(***************************************************************************)
EXTENDS ShardCluster, SequenceFacts

-----------------------------------------------------------------------------
(* The groups.                                                              *)

Memberships == UNION {[S -> Hosts] : S \in SUBSET ReplicaIds}

\* The members of shard s in its c-th membership.
Ids(s, c) == DOMAIN conf[s][c]

Distinct(m) == \A i, j \in DOMAIN m : i # j => m[i] # m[j]

ConfType == conf \in [ShardIds -> Seq(Memberships)]

(* One shard: its size, one member for a NodeHost, addresses that stay, and *)
(* members that do not come back.                                           *)
GoodGroup(s) ==
    /\ LaunchedGroup(s) => s \in DOMAIN shards /\ Ids(s, 1) = ToSet(UserShards[s])
    /\ \A c \in DOMAIN conf[s] :
          /\ Cardinality(Ids(s, c)) \in {WantedSize(s), WantedSize(s) + 1}
          /\ Distinct(conf[s][c])
    /\ \A c, d \in DOMAIN conf[s] : \A i \in Ids(s, c) \cap Ids(s, d) :
          conf[s][c][i] = conf[s][d][i]
    /\ \A b, c, d \in DOMAIN conf[s] :
          b <= c /\ c <= d => Ids(s, b) \cap Ids(s, d) \subseteq Ids(s, c)

GroupInv ==
    /\ ConfType
    /\ \A s \in ShardIds : GoodGroup(s)

WantedInv ==
    /\ DOMAIN shards \subseteq DOMAIN UserShards
    /\ \A s \in DOMAIN shards : shards[s] = UserShards[s]

\* Replica i was a member of shard s and will never be one again.
Removed(s, i) ==
    \E c, d \in DOMAIN conf[s] : c < d /\ i \in Ids(s, c) /\ i \notin Ids(s, d)

\* Replica i is or was a member of shard s, no later than the DB knows.
Known(s, i) ==
    \E c \in DOMAIN conf[s] :
        /\ i \in Ids(s, c)
        /\ c = 1 \/ (s \in DOMAIN shardImage /\ c <= shardImage[s].ccid)

-----------------------------------------------------------------------------
(* The orders, wherever they are.  Those that change a group were computed  *)
(* from the membership whose index they name, and are right for that one.   *)

GoodLaunch(r) ==
    /\ IsLaunchRequest(r)
    /\ r.shard \in DOMAIN shards
    /\ r.peers \in [ToSet(UserShards[r.shard]) -> Hosts]
    /\ Distinct(r.peers)
    /\ r.replica \in DOMAIN r.peers
    /\ r.to = r.peers[r.replica]

GoodStart(r) ==
    /\ r.type = "CREATE"
    /\ r.join \/ r.restore
    /\ r.shard \in ShardIds
    /\ Known(r.shard, r.replica)

GoodAdd(r) ==
    /\ r.type = "ADD"
    /\ r.shard \in ShardIds
    /\ r.ccid \in DOMAIN conf[r.shard]
    /\ Cardinality(Ids(r.shard, r.ccid)) = WantedSize(r.shard)
    /\ r.addr \in Hosts
    /\ \A i \in Ids(r.shard, r.ccid) : conf[r.shard][r.ccid][i] # r.addr
    /\ r.replica \in ReplicaIds
    /\ \A c \in DOMAIN conf[r.shard] : c <= r.ccid => r.replica \notin Ids(r.shard, c)

GoodDelete(r) ==
    /\ r.type = "DELETE"
    /\ r.shard \in ShardIds
    /\ r.ccid \in DOMAIN conf[r.shard]
    /\ Cardinality(Ids(r.shard, r.ccid)) = WantedSize(r.shard) + 1
    /\ r.replica \in Ids(r.shard, r.ccid)

GoodKill(r) ==
    /\ r.type = "KILL"
    /\ r.shard \in ShardIds
    /\ Removed(r.shard, r.replica)

GoodOrder(r) ==
    GoodLaunch(r) \/ GoodStart(r) \/ GoodAdd(r) \/ GoodDelete(r) \/ GoodKill(r)

Listed(q) == q \in Seq(Elements(q))

GoodQueue(q) == Listed(q) /\ \A r \in Elements(q) : GoodOrder(r)

RequestsInv == DOMAIN requests = Hosts /\ \A h \in Hosts : GoodQueue(requests[h])
OutgoingInv == DOMAIN outgoing = Hosts /\ \A h \in Hosts : GoodQueue(outgoing[h])

QueuesInv ==
    /\ DOMAIN queue = Hosts
    /\ \A h \in Hosts :
          /\ DOMAIN queue[h] = ShardIds
          /\ \A s \in ShardIds : /\ GoodQueue(queue[h][s])
                                 /\ \A r \in Elements(queue[h][s]) : r.shard = s

ChangesInv == \A r \in changes : GoodAdd(r) \/ GoodDelete(r)

BatchInv ==
    /\ DOMAIN batch = Drummers
    /\ \A d \in Drummers : GoodQueue(batch[d]) /\ ~MixedRequests(batch[d])

-----------------------------------------------------------------------------
(* What the DB believes, what runs, and what is reported of it.             *)

ReplicaFields == {"addr", "leader", "tick", "first"}
HostFields    == {"region", "tick", "log", "shards"}

GoodShard(s, c) ==
    /\ c.ccid \in DOMAIN conf[s]
    /\ DOMAIN c.replicas = Ids(s, c.ccid)
    /\ \A i \in Ids(s, c.ccid) :
          /\ DOMAIN c.replicas[i] = ReplicaFields
          /\ c.replicas[i].addr = conf[s][c.ccid][i]

ImageInv ==
    /\ ~panicked
    /\ DOMAIN shardImage \subseteq ShardIds
    /\ \A s \in DOMAIN shardImage : GoodShard(s, shardImage[s])
    /\ IsFiniteSet(replicasToKill)
    /\ \A k \in replicasToKill : k.shard \in ShardIds /\ Removed(k.shard, k.replica)

(* A NodeHost that a shard has a member on is known to have it.             *)
HostsInv ==
    /\ DOMAIN nodeHostImage \subseteq Hosts
    /\ \A h \in DOMAIN nodeHostImage : DOMAIN nodeHostImage[h] = HostFields
    /\ \A s \in DOMAIN shardImage : \A i \in DOMAIN shardImage[s].replicas :
          \A h \in DOMAIN nodeHostImage :
             shardImage[s].replicas[i].addr = h => s \in nodeHostImage[h].shards

NodesInv ==
    /\ replica \in [Hosts -> [ShardIds -> ReplicaIds \cup {NoReplica}]]
    /\ applied \in [ShardIds -> [ReplicaIds -> Nat]]
    /\ \A s \in ShardIds, i \in ReplicaIds : applied[s][i] <= LastIndex(s)
    /\ \A h \in Hosts, s \in ShardIds :
          replica[h][s] # NoReplica => Known(s, replica[h][s])

GoodInfo(s, ci) ==
    /\ s \in ShardIds
    /\ ci.ccid \in Nat
    /\ FullInfo(ci) => ci.ccid \in DOMAIN conf[s] /\ ci.replicas = conf[s][ci.ccid]
    /\ Known(s, ci.replica)

GoodReport(nhi) ==
    /\ nhi.addr \in Hosts
    /\ \A s \in DOMAIN nhi.info : GoodInfo(s, nhi.info[s])

ReportsInv == \A r \in reports : "nhi" \in DOMAIN r /\ GoodReport(r.nhi)

SameReport(r, q) == DOMAIN r = DOMAIN q /\ r.nhi = q.nhi

Inv ==
    /\ GroupInv /\ WantedInv
    /\ RequestsInv /\ OutgoingInv /\ QueuesInv /\ ChangesInv /\ BatchInv
    /\ ImageInv /\ HostsInv
    /\ NodesInv /\ ReportsInv

-----------------------------------------------------------------------------
(* Queues of orders.                                                        *)

(* A function on 1..n is a sequence.                                        *)
LEMMA IsSeq ==
    ASSUME NEW q, NEW n, n \in Nat, NEW S, q = [k \in 1..n |-> q[k]],
           \A k \in 1..n : q[k] \in S
    PROVE  q \in Seq(S)
  OBVIOUS

(* A queue is listed when it is a sequence of whatever.                     *)
LEMMA ListedSeq ==
    ASSUME NEW S, NEW q, q \in Seq(S)
    PROVE  Listed(q) /\ Elements(q) \subseteq S
  <1>1. Len(q) \in Nat /\ DOMAIN q = 1..Len(q) /\ q = [k \in 1..Len(q) |-> q[k]]
    OBVIOUS
  <1>2. \A k \in 1..Len(q) : q[k] \in Elements(q) /\ q[k] \in S
    BY <1>1 DEF Elements
  <1>3. Elements(q) \subseteq S
    BY <1>1, <1>2 DEF Elements
  <1>4. Listed(q)
    BY <1>1, <1>2, IsSeq DEF Listed
  <1> QED
    BY <1>3, <1>4

(* What is taken from a queue, put at its end, or picked from it.           *)
LEMMA EmptyQueue == Listed(<<>>) /\ Elements(<<>>) = {}
  BY DEF Listed, Elements

LEMMA TailOfQueue ==
    ASSUME NEW q, Listed(q), q # <<>>
    PROVE  /\ Head(q) \in Elements(q)
           /\ Listed(Tail(q))
           /\ Elements(Tail(q)) \subseteq Elements(q)
  <1> DEFINE S == Elements(q)
  <1>1. q \in Seq(S)
    BY DEF Listed
  <1> HIDE DEF S
  <1>2. Head(q) \in S /\ Tail(q) \in Seq(S)
    BY <1>1, HeadTailProperties
  <1> QED
    BY <1>2, ListedSeq DEF S

LEMMA JoinedQueues ==
    ASSUME NEW p, Listed(p), NEW q, Listed(q)
    PROVE  /\ Listed(p \o q)
           /\ Elements(p \o q) \subseteq Elements(p) \cup Elements(q)
  <1> DEFINE S == Elements(p) \cup Elements(q)
  <1>1. p \in Seq(S) /\ q \in Seq(S)
    BY ListedSeq, SeqMonotonic DEF Listed
  <1>2. p \o q \in Seq(S)
    <2> HIDE DEF S
    <2> QED
      BY <1>1
  <1> HIDE DEF S
  <1>3. Listed(p \o q) /\ Elements(p \o q) \subseteq S
    BY <1>2, ListedSeq
  <1> QED
    BY <1>3 DEF S

(* The orders at some positions of a queue are orders of the queue, each    *)
(* from a position of its own.                                              *)
LEMMA PartOfQueue ==
    ASSUME NEW q, Listed(q), NEW P, P \subseteq DOMAIN q
    PROVE  /\ Listed(Subsequence(q, P))
           /\ \E at \in [DOMAIN Subsequence(q, P) -> P] :
                 /\ \A j, k \in DOMAIN Subsequence(q, P) : at[j] = at[k] => j = k
                 /\ \A k \in DOMAIN Subsequence(q, P) : Subsequence(q, P)[k] = q[at[k]]
           /\ \A r \in Elements(Subsequence(q, P)) : \E k \in P : r = q[k]
  <1> DEFINE n == Cardinality(P)
             Rising(f) == \A j, k \in 1..n : j < k => f[j] < f[k]
             at == CHOOSE f \in [1..n -> P] : Rising(f)
             p == Subsequence(q, P)
  <1>1. DOMAIN q = 1..Len(q) /\ Len(q) \in Nat
    BY DEF Listed
  <1>2. P \subseteq Nat /\ IsFiniteSet(P)
    <2>1. IsFiniteSet(1..Len(q))
      BY <1>1, FS_Interval
    <2> QED
      BY <1>1, <2>1, FS_Subset
  <1>3. n \in Nat
    BY <1>2, FS_CardinalityType
  <1>4. \E f \in [1..n -> P] : Rising(f)
    BY <1>2, Ascending
  <1>5. at \in [1..n -> P] /\ Rising(at)
    <2> HIDE DEF Rising
    <2> QED
      BY <1>4
  <1>6. p = [k \in 1..n |-> q[at[k]]]
    BY DEF Subsequence
  <1> HIDE DEF at, p
  <1>7. ASSUME NEW j \in 1..n, NEW k \in 1..n, at[j] = at[k] PROVE j = k
    <2>1. at[j] \in Nat /\ at[k] \in Nat
      BY <1>2, <1>5
    <2>2. ~(j < k) /\ ~(k < j)
      BY <1>5, <1>7, <2>1
    <2> QED
      BY <1>3, <2>2
  <1>8. DOMAIN p = 1..n /\ \A k \in 1..n : p[k] = q[at[k]]
    BY <1>6
  <1>9. Listed(p)
    <2>1. \A k \in 1..n : p[k] \in Elements(p)
      BY <1>8 DEF Elements
    <2>2. p = [k \in 1..n |-> p[k]]
      BY <1>6
    <2> DEFINE S == Elements(p)
    <2> HIDE DEF S
    <2>3. \A k \in 1..n : p[k] \in S
      BY <2>1 DEF S
    <2>4. p \in Seq(S)
      BY <1>3, <2>2, <2>3, IsSeq
    <2> QED
      BY <2>4, ListedSeq
  <1>10. \A r \in Elements(p) : \E k \in P : r = q[k]
    BY <1>5, <1>8 DEF Elements
  <1>11. \E f \in [DOMAIN p -> P] :
            /\ \A j, k \in DOMAIN p : f[j] = f[k] => j = k
            /\ \A k \in DOMAIN p : p[k] = q[f[k]]
    <2>1. /\ \A j, k \in DOMAIN p : at[j] = at[k] => j = k
          /\ \A k \in DOMAIN p : p[k] = q[at[k]]
      BY <1>7, <1>8
    <2> QED
      BY <1>5, <1>8, <2>1
  <1> QED
    BY <1>9, <1>10, <1>11 DEF p

-----------------------------------------------------------------------------
(* What stays true when the groups, the shards and the image only grow.     *)

Grows ==
    /\ \A s \in ShardIds : \A c \in DOMAIN conf[s] :
          c \in DOMAIN conf'[s] /\ conf'[s][c] = conf[s][c]
    /\ DOMAIN shards \subseteq DOMAIN shards'
    /\ \A s \in DOMAIN shardImage :
          /\ s \in DOMAIN shardImage'
          /\ s \in ShardIds => \A c \in DOMAIN conf[s] :
                c <= shardImage[s].ccid => c <= shardImage'[s].ccid

(* A step that leaves these three alone makes them grow.                    *)
LEMMA SameGrows == UNCHANGED <<conf, shards, shardImage>> => Grows
  BY DEF Grows

LEMMA KnownStays ==
    ASSUME Grows
    PROVE  \A s \in ShardIds : \A i : Known(s, i) => Known(s, i)'
  BY DEF Grows, Known, Ids

LEMMA RemovedStays ==
    ASSUME Grows
    PROVE  \A s \in ShardIds : \A i : Removed(s, i) => Removed(s, i)'
  BY DEF Grows, Removed, Ids

(* The memberships of a group are numbered from 1.                          *)
LEMMA ConfFacts ==
    ASSUME NEW cf, cf \in [ShardIds -> Seq(Memberships)], NEW s \in ShardIds
    PROVE  /\ Len(cf[s]) \in Nat
           /\ DOMAIN cf[s] = 1..Len(cf[s])
           /\ \A c \in DOMAIN cf[s] : /\ cf[s][c] \in Memberships
                                      /\ cf[s][c] \in [DOMAIN cf[s][c] -> Hosts]
                                      /\ DOMAIN cf[s][c] \subseteq ReplicaIds
                                      /\ IsFiniteSet(DOMAIN cf[s][c])
  <1>1. cf[s] \in Seq(Memberships)
    OBVIOUS
  <1>2. /\ Len(cf[s]) \in Nat
        /\ DOMAIN cf[s] = 1..Len(cf[s])
        /\ \A c \in DOMAIN cf[s] : cf[s][c] \in Memberships
    BY <1>1
  <1>3. ASSUME NEW c \in DOMAIN cf[s]
        PROVE  /\ cf[s][c] \in [DOMAIN cf[s][c] -> Hosts]
               /\ DOMAIN cf[s][c] \subseteq ReplicaIds
               /\ IsFiniteSet(DOMAIN cf[s][c])
    <2>1. PICK S \in SUBSET ReplicaIds : cf[s][c] \in [S -> Hosts]
      BY <1>2 DEF Memberships
    <2> QED
      BY <2>1, DrummerDBAssumption, FS_Subset
  <1> QED
    BY <1>2, <1>3

LEMMA GroupFacts ==
    ASSUME ConfType, NEW s \in ShardIds
    PROVE  /\ conf[s] \in Seq(Memberships)
           /\ LastIndex(s) \in Nat
           /\ DOMAIN conf[s] = 1..LastIndex(s)
           /\ \A c \in DOMAIN conf[s] : /\ conf[s][c] \in Memberships
                                        /\ conf[s][c] \in [Ids(s, c) -> Hosts]
                                        /\ Ids(s, c) \subseteq ReplicaIds
                                        /\ IsFiniteSet(Ids(s, c))
  BY ConfFacts DEF ConfType, LastIndex, Ids

(* Old orders stay right: those that name an index were computed from the   *)
(* membership that had it, and it still has it.                             *)
LEMMA OrderStays ==
    ASSUME ConfType, ConfType', Grows
    PROVE  \A r : /\ GoodAdd(r) => GoodAdd(r)'
                  /\ GoodDelete(r) => GoodDelete(r)'
                  /\ GoodOrder(r) => GoodOrder(r)'
  <1>1. ASSUME NEW r, GoodAdd(r) PROVE GoodAdd(r)'
    <2> DEFINE s == r.shard
    <2>1. s \in ShardIds /\ r.ccid \in DOMAIN conf[s]
      BY <1>1 DEF GoodAdd
    <2>2. r.ccid \in DOMAIN conf'[s] /\ conf'[s][r.ccid] = conf[s][r.ccid]
      BY <2>1 DEF Grows
    <2>3. ASSUME NEW c \in DOMAIN conf'[s], c <= r.ccid
          PROVE  c \in DOMAIN conf[s] /\ conf'[s][c] = conf[s][c]
      <3>1. /\ DOMAIN conf[s] = 1..Len(conf[s]) /\ Len(conf[s]) \in Nat
            /\ DOMAIN conf'[s] = 1..Len(conf'[s]) /\ Len(conf'[s]) \in Nat
        BY <2>1, ConfFacts DEF ConfType
      <3>2. c \in DOMAIN conf[s]
        BY <2>1, <2>3, <3>1
      <3> QED
        BY <2>1, <3>2 DEF Grows
    <2>4. \A c \in DOMAIN conf'[s] : c <= r.ccid => r.replica \notin DOMAIN conf'[s][c]
      BY <1>1, <2>3 DEF GoodAdd, Ids
    <2> QED
      BY <1>1, <2>1, <2>2, <2>4 DEF GoodAdd, Ids, WantedSize
  <1>2. ASSUME NEW r, GoodDelete(r) PROVE GoodDelete(r)'
    BY <1>2 DEF GoodDelete, Grows, Ids, WantedSize
  <1>3. ASSUME NEW r, GoodStart(r) PROVE GoodStart(r)'
    BY <1>3, KnownStays DEF GoodStart
  <1>4. ASSUME NEW r, GoodKill(r) PROVE GoodKill(r)'
    BY <1>4, RemovedStays DEF GoodKill
  <1>5. ASSUME NEW r, GoodLaunch(r) PROVE GoodLaunch(r)'
    BY <1>5 DEF GoodLaunch, Grows
  <1> QED
    BY <1>1, <1>2, <1>3, <1>4, <1>5 DEF GoodOrder

LEMMA QueueStays ==
    ASSUME ConfType, ConfType', Grows
    PROVE  \A q : GoodQueue(q) => GoodQueue(q)'
  BY OrderStays DEF GoodQueue

(* What a step leaves alone stays right, part by part.                      *)
LEMMA GroupStays ==
    ASSUME Inv, Grows, conf' = conf
    PROVE  GroupInv'
  <1>1. ASSUME NEW s \in ShardIds PROVE GoodGroup(s)'
    BY DEF Inv, GroupInv, GoodGroup, Grows, LaunchedGroup, Ids, WantedSize
  <1> QED
    BY <1>1 DEF Inv, GroupInv, ConfType

LEMMA WantedStays ==
    ASSUME Inv, shards' = shards
    PROVE  WantedInv'
  BY DEF Inv, WantedInv

LEMMA RequestsStay ==
    ASSUME Inv, Grows, ConfType', requests' = requests
    PROVE  RequestsInv'
  <1>1. ConfType /\ RequestsInv
    BY DEF Inv, GroupInv
  <1> QED
    BY <1>1, QueueStays DEF RequestsInv

LEMMA OutgoingStays ==
    ASSUME Inv, Grows, ConfType', outgoing' = outgoing
    PROVE  OutgoingInv'
  <1>1. ConfType /\ OutgoingInv
    BY DEF Inv, GroupInv
  <1> QED
    BY <1>1, QueueStays DEF OutgoingInv

LEMMA QueuesStay ==
    ASSUME Inv, Grows, ConfType', queue' = queue
    PROVE  QueuesInv'
  <1>1. ConfType /\ QueuesInv
    BY DEF Inv, GroupInv
  <1> QED
    BY <1>1, QueueStays DEF QueuesInv

LEMMA ChangesStay ==
    ASSUME Inv, Grows, ConfType', changes' \subseteq changes
    PROVE  ChangesInv'
  <1>1. ConfType /\ ChangesInv
    BY DEF Inv, GroupInv
  <1> QED
    BY <1>1, OrderStays DEF ChangesInv

LEMMA BatchStays ==
    ASSUME Inv, Grows, ConfType', batch' = batch
    PROVE  BatchInv'
  <1>1. ConfType /\ BatchInv
    BY DEF Inv, GroupInv
  <1>2. \A q : MixedRequests(q)' <=> MixedRequests(q)
    BY DEF MixedRequests, IsLaunchRequests, IsLaunchRequest
  <1> QED
    BY <1>1, <1>2, QueueStays DEF BatchInv

LEMMA ShardStays ==
    ASSUME Grows
    PROVE  \A s \in ShardIds : \A c : GoodShard(s, c) => GoodShard(s, c)'
  BY DEF Grows, GoodShard, Ids

LEMMA ImageStays ==
    ASSUME Inv, Grows, UNCHANGED <<shardImage, replicasToKill>>, panicked' => panicked
    PROVE  ImageInv'
  <1>1. ImageInv
    BY DEF Inv
  <1>2. \A s \in DOMAIN shardImage' : GoodShard(s, shardImage[s])'
    BY <1>1, ShardStays DEF ImageInv
  <1>3. \A k \in replicasToKill : k.shard \in ShardIds /\ Removed(k.shard, k.replica)'
    BY <1>1, RemovedStays DEF ImageInv
  <1> QED
    BY <1>1, <1>2, <1>3 DEF ImageInv

LEMMA HostsStay ==
    ASSUME Inv, UNCHANGED <<shardImage, nodeHostImage>>
    PROVE  HostsInv'
  BY DEF Inv, HostsInv

LEMMA NodesStay ==
    ASSUME Inv, Grows, ConfType', UNCHANGED <<replica, applied>>
    PROVE  NodesInv'
  <1>1. ConfType /\ NodesInv
    BY DEF Inv, GroupInv
  <1>2. ASSUME NEW s \in ShardIds, NEW i \in ReplicaIds
        PROVE  applied'[s][i] <= LastIndex(s)'
    <2>1. applied[s][i] \in Nat /\ applied[s][i] <= LastIndex(s)
      BY <1>1 DEF NodesInv
    <2>2. /\ DOMAIN conf[s] = 1..Len(conf[s]) /\ Len(conf[s]) \in Nat
          /\ DOMAIN conf'[s] = 1..Len(conf'[s]) /\ Len(conf'[s]) \in Nat
      BY <1>1, ConfFacts DEF ConfType
    <2>3. Len(conf[s]) \in DOMAIN conf[s] => Len(conf[s]) \in DOMAIN conf'[s]
      BY DEF Grows
    <2>4. Len(conf[s]) <= Len(conf'[s])
      BY <2>2, <2>3
    <2> QED
      BY <2>1, <2>2, <2>4 DEF LastIndex
  <1>3. ASSUME NEW h \in Hosts, NEW s \in ShardIds, replica'[h][s] # NoReplica
        PROVE  Known(s, replica[h][s])'
    BY <1>1, <1>3, KnownStays DEF NodesInv
  <1> QED
    BY <1>1, <1>2, <1>3 DEF NodesInv

LEMMA ReportStays ==
    ASSUME Grows
    PROVE  \A nhi : GoodReport(nhi) => GoodReport(nhi)'
  <1>1. \A s : \A ci : GoodInfo(s, ci) => GoodInfo(s, ci)'
    BY KnownStays DEF GoodInfo, Grows, FullInfo
  <1> QED
    BY <1>1 DEF GoodReport

LEMMA ReportsStay ==
    ASSUME Inv, Grows, \A r \in reports' : \E q \in reports : SameReport(r, q)
    PROVE  ReportsInv'
  BY ReportStays DEF Inv, ReportsInv, SameReport

(* Most steps leave the groups, the shards and the image alone.             *)
LEMMA RestStays ==
    ASSUME Inv, UNCHANGED <<conf, shards, shardImage>>
    PROVE  /\ Grows /\ ConfType /\ ConfType'
           /\ GroupInv' /\ WantedInv'
           /\ requests' = requests => RequestsInv'
           /\ outgoing' = outgoing => OutgoingInv'
           /\ queue' = queue => QueuesInv'
           /\ changes' \subseteq changes => ChangesInv'
           /\ batch' = batch => BatchInv'
           /\ replicasToKill' = replicasToKill /\ (panicked' => panicked) => ImageInv'
           /\ nodeHostImage' = nodeHostImage => HostsInv'
           /\ UNCHANGED <<replica, applied>> => NodesInv'
           /\ (\A r \in reports' : \E q \in reports : SameReport(r, q)) => ReportsInv'
  <1>1. Grows /\ ConfType /\ ConfType'
    BY SameGrows DEF Inv, GroupInv, ConfType
  <1>2. GroupInv' /\ WantedInv'
    BY <1>1, GroupStays, WantedStays
  <1>3. requests' = requests => RequestsInv'
    BY <1>1, RequestsStay
  <1>4. outgoing' = outgoing => OutgoingInv'
    BY <1>1, OutgoingStays
  <1>5. queue' = queue => QueuesInv'
    BY <1>1, QueuesStay
  <1>6. changes' \subseteq changes => ChangesInv'
    BY <1>1, ChangesStay
  <1>7. batch' = batch => BatchInv'
    BY <1>1, BatchStays
  <1>8. replicasToKill' = replicasToKill /\ (panicked' => panicked) => ImageInv'
    BY <1>1, ImageStays
  <1>9. nodeHostImage' = nodeHostImage => HostsInv'
    BY HostsStay
  <1>10. UNCHANGED <<replica, applied>> => NodesInv'
    BY <1>1, NodesStay
  <1>11. (\A r \in reports' : \E q \in reports : SameReport(r, q)) => ReportsInv'
    BY <1>1, ReportsStay
  <1> QED
    BY <1>1, <1>2, <1>3, <1>4, <1>5, <1>6, <1>7, <1>8, <1>9, <1>10, <1>11

LEMMA StutterKeeps == Inv /\ UNCHANGED clusterVars => Inv'
  <1> SUFFICES ASSUME Inv, UNCHANGED clusterVars PROVE Inv'
    OBVIOUS
  <1>1. UNCHANGED <<conf, shards, shardImage, requests, outgoing, queue, changes,
                    batch, replicasToKill, panicked, nodeHostImage, replica,
                    applied, reports>>
    BY DEF clusterVars, dbVars, nodeVars, wireVars, drummerVars
  <1> QED
    BY <1>1, RestStays DEF Inv, SameReport

-----------------------------------------------------------------------------
(* Users, the clock, and the steps that only lose something.                *)

LEMMA SettingsKeep ==
    ASSUME Inv, SetRegions \/ SetBootstrapped \/ DrummerTick
    PROVE  Inv'
  <1>1. UNCHANGED <<conf, shards, shardImage, requests, outgoing, queue, changes,
                    batch, replicasToKill, panicked, nodeHostImage, replica,
                    applied, reports>>
    BY Zenon DEF SetRegions, SetBootstrapped, DrummerTick, ApplyKVUpdate, ApplyTickUpdate,
                 nodeVars, wireVars, drummerVars
  <1> QED
    BY <1>1, RestStays DEF Inv, SameReport

LEMMA SubmitChangeKeeps ==
    ASSUME Inv, SubmitChange
    PROVE  Inv'
  <1>1. PICK s \in DOMAIN UserShards : TryCreateShard(s, UserShards[s])
    BY DEF SubmitChange
  <1>2. /\ s \notin DOMAIN shards
        /\ shards' = [t \in DOMAIN shards \cup {s} |->
                         IF t = s THEN UserShards[s] ELSE shards[t]]
    BY <1>1 DEF TryCreateShard
  <1>3. UNCHANGED <<conf, shardImage, requests, outgoing, queue, changes,
                    batch, replicasToKill, panicked, nodeHostImage, replica,
                    applied, reports>>
    BY <1>1, Zenon DEF SubmitChange, TryCreateShard, nodeVars, wireVars, drummerVars
  <1>4. Grows /\ ConfType'
    BY <1>2, <1>3 DEF Inv, GroupInv, ConfType, Grows
  <1>5. WantedInv'
    BY <1>2 DEF Inv, WantedInv
  <1>6. GroupInv' /\ RequestsInv' /\ OutgoingInv' /\ QueuesInv' /\ ChangesInv' /\ BatchInv'
    BY <1>3, <1>4, GroupStays, RequestsStay, OutgoingStays, QueuesStay, ChangesStay, BatchStays
  <1>7. ImageInv' /\ HostsInv' /\ NodesInv'
    BY <1>3, <1>4, ImageStays, HostsStay, NodesStay
  <1>8. ReportsInv'
    BY <1>3, <1>4, ReportsStay DEF SameReport
  <1> QED
    BY <1>5, <1>6, <1>7, <1>8 DEF Inv

LEMMA DropChangeKeeps ==
    ASSUME Inv, NEW r \in changes, DropChange(r)
    PROVE  Inv'
  <1>1. /\ UNCHANGED <<conf, shards, shardImage, requests, outgoing, queue,
                       batch, replicasToKill, panicked, nodeHostImage, replica,
                       applied, reports>>
        /\ changes' \subseteq changes
    BY DEF DropChange, dbVars, wireVars, drummerVars
  <1> QED
    BY <1>1, RestStays DEF Inv, SameReport

LEMMA RestartKeeps ==
    ASSUME Inv, NEW h \in Hosts, Restart(h)
    PROVE  Inv'
  <1>1. UNCHANGED <<conf, shards, shardImage, requests, outgoing, queue, changes,
                    batch, replicasToKill, panicked, nodeHostImage, replica,
                    applied, reports>>
    BY Zenon DEF Restart, dbVars, wireVars, drummerVars
  <1> QED
    BY <1>1, RestStays DEF Inv, SameReport

(* A report is lost, or only no longer waited for.                          *)
LEMMA LoseReportKeeps ==
    ASSUME Inv, NEW r \in reports, LoseReport(r)
    PROVE  Inv'
  <1>1. /\ UNCHANGED <<conf, shards, shardImage, requests, outgoing, queue, changes,
                       batch, replicasToKill, panicked, nodeHostImage, replica,
                       applied>>
        /\ reports' = reports \ {r}
    BY Zenon DEF LoseReport, dbVars, nodeVars, drummerVars
  <1>2. \A q \in reports' : \E p \in reports : SameReport(q, p)
    BY <1>1 DEF SameReport
  <1> QED
    BY <1>1, <1>2, RestStays DEF Inv

(* The reports of a NodeHost after its client gave up on them.              *)
LEMMA NotAwaited ==
    ASSUME NEW h,
           reports' = {IF r.nhi.addr = h THEN [r EXCEPT !.awaited = FALSE] ELSE r : r \in reports},
           ReportsInv
    PROVE  \A r \in reports' : \E q \in reports : SameReport(r, q)
  BY DEF ReportsInv, SameReport

LEMMA GiveUpKeeps ==
    ASSUME Inv, NEW h \in Hosts, GiveUp(h)
    PROVE  Inv'
  <1>1. /\ UNCHANGED <<conf, shards, shardImage, requests, outgoing, queue, changes,
                       batch, replicasToKill, panicked, nodeHostImage, replica,
                       applied>>
        /\ reports' = {IF r.nhi.addr = h THEN [r EXCEPT !.awaited = FALSE] ELSE r :
                          r \in reports}
    BY Zenon DEF GiveUp, dbVars, nodeVars, drummerVars
  <1>2. \A r \in reports' : \E q \in reports : SameReport(r, q)
    BY <1>1, NotAwaited DEF Inv
  <1> QED
    BY <1>1, <1>2, RestStays DEF Inv

-----------------------------------------------------------------------------
(* The way of an order: from a batch to the requests, the queue of a        *)
(* NodeHost, and a change proposed to a group.                              *)

LEMMA EmptyIsGood == GoodQueue(<<>>) /\ ~MixedRequests(<<>>)
  BY EmptyQueue DEF GoodQueue, MixedRequests, IsLaunchRequests

(* A DB that takes a batch over hands each NodeHost orders of the batch.    *)
LEMMA RequestsToGood ==
    ASSUME NEW reqs, GoodQueue(reqs), NEW h
    PROVE  /\ GoodQueue(RequestsTo(reqs, h))
           /\ \A r \in Elements(RequestsTo(reqs, h)) : r \in Elements(reqs) /\ r.to = h
  <1> DEFINE P == {k \in DOMAIN reqs : reqs[k].to = h}
  <1>1. P \subseteq DOMAIN reqs /\ Listed(reqs)
    BY DEF GoodQueue
  <1>2. RequestsTo(reqs, h) = Subsequence(reqs, P)
    BY DEF RequestsTo
  <1>3. \A k \in P : reqs[k] \in Elements(reqs) /\ reqs[k].to = h
    BY DEF Elements
  <1> HIDE DEF P
  <1>4. /\ Listed(Subsequence(reqs, P))
        /\ \A r \in Elements(Subsequence(reqs, P)) : \E k \in P : r = reqs[k]
    BY <1>1, PartOfQueue
  <1>5. \A r \in Elements(RequestsTo(reqs, h)) : r \in Elements(reqs) /\ r.to = h
    BY <1>2, <1>3, <1>4
  <1> QED
    BY <1>2, <1>4, <1>5 DEF GoodQueue

LEMMA UpdateRequestsKeeps ==
    ASSUME Inv, NEW d \in Drummers, UpdateRequests(d)
    PROVE  Inv'
  <1>1. /\ ApplyRequestsUpdate(batch[d])
        /\ batch' = [batch EXCEPT ![d] = NoBatch]
        /\ UNCHANGED <<nodeVars, wireVars, passes>>
    BY DEF UpdateRequests
  <1>2. GoodQueue(batch[d]) /\ ~MixedRequests(batch[d])
    BY DEF Inv, BatchInv
  <1>3. ~panicked'
    BY <1>1, <1>2 DEF ApplyRequestsUpdate
  <1>4. /\ UNCHANGED <<conf, shards, shardImage, outgoing, queue, changes,
                       replicasToKill, nodeHostImage, replica, applied, reports>>
        /\ requests' = requests \/ requests' = Queued(batch[d])
    BY <1>1, Zenon DEF ApplyRequestsUpdate, nodeVars, wireVars
  <1>5. Grows /\ ConfType /\ ConfType'
    BY <1>4, RestStays
  <1>6. RequestsInv'
    <2>1. CASE requests' = requests
      BY <1>4, <2>1, RestStays
    <2>2. CASE requests' = Queued(batch[d])
      <3>1. \A h \in Hosts : GoodQueue(RequestsTo(batch[d], h)) /\ GoodQueue(requests[h])
        BY <1>2, RequestsToGood DEF Inv, RequestsInv
      <3>2. /\ DOMAIN requests' = Hosts
            /\ \A h \in Hosts : GoodQueue(requests'[h])
        BY <2>2, <3>1 DEF Queued
      <3> QED
        BY <1>5, <3>2, QueueStays DEF RequestsInv
    <2> QED
      BY <1>4, <2>1, <2>2
  <1>7. BatchInv'
    <2>1. /\ DOMAIN batch' = Drummers
          /\ \A e \in Drummers : batch'[e] = batch[e] \/ batch'[e] = <<>>
      BY <1>1 DEF Inv, BatchInv, NoBatch
    <2>2. \A e \in Drummers : GoodQueue(batch'[e]) /\ ~MixedRequests(batch'[e])
      BY <2>1, EmptyIsGood DEF Inv, BatchInv
    <2> QED
      BY <1>5, <2>1, <2>2, QueueStays
         DEF BatchInv, MixedRequests, IsLaunchRequests, IsLaunchRequest
  <1> QED
    BY <1>3, <1>4, <1>6, <1>7, RestStays DEF Inv, SameReport

LEMMA LoseBatchKeeps ==
    ASSUME Inv, NEW d \in Drummers, LoseBatch(d)
    PROVE  Inv'
  <1>1. /\ batch' = [batch EXCEPT ![d] = NoBatch]
        /\ UNCHANGED <<conf, shards, shardImage, requests, outgoing, queue, changes,
                       replicasToKill, panicked, nodeHostImage, replica, applied, reports>>
    BY Zenon DEF LoseBatch, dbVars, nodeVars, wireVars
  <1>2. Grows /\ ConfType /\ ConfType'
    BY <1>1, RestStays
  <1>3. BatchInv'
    <2>1. /\ DOMAIN batch' = Drummers
          /\ \A e \in Drummers : batch'[e] = batch[e] \/ batch'[e] = <<>>
      BY <1>1 DEF Inv, BatchInv, NoBatch
    <2>2. \A e \in Drummers : GoodQueue(batch'[e]) /\ ~MixedRequests(batch'[e])
      BY <2>1, EmptyIsGood DEF Inv, BatchInv
    <2> QED
      BY <1>2, <2>1, <2>2, QueueStays
         DEF BatchInv, MixedRequests, IsLaunchRequests, IsLaunchRequest
  <1> QED
    BY <1>1, <1>3, RestStays DEF Inv, SameReport

(* The queue of a NodeHost, shard by shard, after it was handed orders.     *)
LEMMA ReceivedGood ==
    ASSUME Inv, NEW h \in Hosts, NEW orders, GoodQueue(orders)
    PROVE  /\ DOMAIN Received(h, orders) = ShardIds
           /\ \A s \in ShardIds :
                 /\ GoodQueue(Received(h, orders)[s])
                 /\ \A r \in Elements(Received(h, orders)[s]) : r.shard = s
  <1> SUFFICES ASSUME NEW s \in ShardIds
               PROVE  /\ GoodQueue(Received(h, orders)[s])
                      /\ \A r \in Elements(Received(h, orders)[s]) : r.shard = s
    BY DEF Received
  <1> DEFINE P == {k \in DOMAIN orders : orders[k].shard = s}
             p == queue[h][s]
             q == Subsequence(orders, P)
  <1>1. P \subseteq DOMAIN orders /\ Listed(orders)
    BY DEF GoodQueue
  <1>2. \A k \in P : orders[k] \in Elements(orders) /\ orders[k].shard = s
    BY DEF Elements
  <1>3. Received(h, orders)[s] = p \o q
    BY DEF Received
  <1>4. GoodQueue(p) /\ \A r \in Elements(p) : r.shard = s
    BY DEF Inv, QueuesInv
  <1> HIDE DEF P
  <1>5. Listed(q) /\ \A r \in Elements(q) : \E k \in P : r = orders[k]
    BY <1>1, PartOfQueue
  <1> HIDE DEF p, q
  <1>6. \A r \in Elements(q) : GoodOrder(r) /\ r.shard = s
    BY <1>2, <1>5 DEF GoodQueue
  <1>7. Listed(p \o q) /\ Elements(p \o q) \subseteq Elements(p) \cup Elements(q)
    BY <1>4, <1>5, JoinedQueues DEF GoodQueue
  <1> QED
    BY <1>3, <1>4, <1>6, <1>7 DEF GoodQueue

LEMMA QueuesReceived ==
    ASSUME Inv, Grows, ConfType', NEW h \in Hosts, NEW orders, GoodQueue(orders),
           queue' = [queue EXCEPT ![h] = Received(h, orders)]
    PROVE  QueuesInv'
  <1>1. /\ DOMAIN queue' = Hosts
        /\ \A g \in Hosts : queue'[g] = queue[g] \/ queue'[g] = Received(h, orders)
    BY DEF Inv, QueuesInv
  <1>2. \A g \in Hosts : /\ DOMAIN queue'[g] = ShardIds
                         /\ \A s \in ShardIds :
                               /\ GoodQueue(queue'[g][s])
                               /\ \A r \in Elements(queue'[g][s]) : r.shard = s
    BY <1>1, ReceivedGood DEF Inv, QueuesInv
  <1>3. ConfType
    BY DEF Inv, GroupInv
  <1> QED
    BY <1>1, <1>2, <1>3, QueueStays DEF QueuesInv, Elements

LEMMA FetchRequestsKeeps ==
    ASSUME Inv, NEW h \in Hosts, FetchRequests(h)
    PROVE  Inv'
  <1>1. /\ queue' = [queue EXCEPT ![h] = Received(h, outgoing[h])]
        /\ UNCHANGED <<conf, shards, shardImage, requests, outgoing, changes, batch,
                       replicasToKill, panicked, nodeHostImage, replica, applied, reports>>
    BY Zenon DEF FetchRequests, RequestsLookup, dbVars, drummerVars
  <1>2. Grows /\ ConfType /\ ConfType'
    BY <1>1, RestStays
  <1>3. QueuesInv'
    BY <1>1, <1>2, QueuesReceived DEF Inv, OutgoingInv
  <1> QED
    BY <1>1, <1>3, RestStays DEF Inv, SameReport

(* The order a NodeHost takes from a queue, and what it leaves there.       *)
LEMMA TakeGood ==
    ASSUME Inv, NEW h \in Hosts, NEW s \in ShardIds, Take(h, s)
    PROVE  /\ GoodOrder(Head(queue[h][s]))
           /\ Head(queue[h][s]).shard = s
           /\ Grows /\ ConfType' => QueuesInv'
  <1> DEFINE q == queue[h][s]
  <1>1. GoodQueue(q) /\ \A r \in Elements(q) : r.shard = s
    BY DEF Inv, QueuesInv
  <1>2. /\ q # <<>>
        /\ queue' = [queue EXCEPT ![h][s] = Tail(q)]
    BY DEF Take
  <1>3. /\ DOMAIN queue' = Hosts
        /\ \A g \in Hosts : /\ DOMAIN queue'[g] = ShardIds
                            /\ \A t \in ShardIds : queue'[g][t] = queue[g][t]
                                  \/ (t = s /\ queue'[g][t] = Tail(q))
    BY <1>2 DEF Inv, QueuesInv
  <1> HIDE DEF q
  <1>4. /\ Head(q) \in Elements(q)
        /\ Listed(Tail(q))
        /\ Elements(Tail(q)) \subseteq Elements(q)
    BY <1>1, <1>2, TailOfQueue DEF GoodQueue
  <1>5. GoodQueue(Tail(q)) /\ \A r \in Elements(Tail(q)) : r.shard = s
    BY <1>1, <1>4 DEF GoodQueue
  <1>6. \A g \in Hosts, t \in ShardIds :
           /\ GoodQueue(queue'[g][t])
           /\ \A r \in Elements(queue'[g][t]) : r.shard = t
    BY <1>3, <1>5 DEF Inv, QueuesInv
  <1>7. ASSUME Grows, ConfType' PROVE QueuesInv'
    <2>1. ConfType
      BY DEF Inv, GroupInv
    <2> QED
      BY <1>3, <1>6, <1>7, <2>1, QueueStays DEF QueuesInv, Elements
  <1> QED
    BY <1>1, <1>4, <1>7 DEF GoodQueue, q

-----------------------------------------------------------------------------
(* NodeHosts.                                                               *)

LEMMA KnownIsReplica ==
    ASSUME ConfType, NEW s \in ShardIds, NEW i, Known(s, i)
    PROVE  i \in ReplicaIds
  BY GroupFacts DEF Known

(* One entry of a table changes.                                            *)
LEMMA TableUpdated ==
    ASSUME NEW A, NEW B, NEW V, NEW t, t \in [A -> [B -> V]],
           NEW a, a \in A, NEW b, NEW v, v \in V,
           NEW u, u = [t EXCEPT ![a][b] = v]
    PROVE  /\ u \in [A -> [B -> V]]
           /\ \A x \in A, y \in B : u[x][y] = t[x][y] \/ (x = a /\ y = b /\ u[x][y] = v)
  <1>1. /\ u = [x \in A |-> IF x = a THEN [t[a] EXCEPT ![b] = v] ELSE t[x]]
        /\ [t[a] EXCEPT ![b] = v] \in [B -> V]
        /\ \A y \in B : [t[a] EXCEPT ![b] = v][y] = IF y = b THEN v ELSE t[a][y]
    OBVIOUS
  <1> QED
    BY <1>1

LEMMA ReplicaUpdated ==
    ASSUME NodesInv, NEW h \in Hosts, NEW s \in ShardIds,
           NEW i, i \in ReplicaIds \cup {NoReplica},
           replica' = replica \/ replica' = [replica EXCEPT ![h][s] = i]
    PROVE  /\ replica' \in [Hosts -> [ShardIds -> ReplicaIds \cup {NoReplica}]]
           /\ \A g \in Hosts, t \in ShardIds :
                 replica'[g][t] = replica[g][t] \/ (t = s /\ replica'[g][t] = i)
  <1> DEFINE V == ReplicaIds \cup {NoReplica}
  <1>1. replica \in [Hosts -> [ShardIds -> V]] /\ i \in V
    BY DEF NodesInv
  <1> HIDE DEF V
  <1>2. CASE replica' = replica
    BY <1>1, <1>2 DEF V
  <1>3. CASE replica' = [replica EXCEPT ![h][s] = i]
    <2>1. /\ replica' \in [Hosts -> [ShardIds -> V]]
          /\ \A x \in Hosts, y \in ShardIds :
                replica'[x][y] = replica[x][y] \/ (x = h /\ y = s /\ replica'[x][y] = i)
      BY <1>1, <1>3, TableUpdated
    <2> QED
      BY <2>1 DEF V
  <1> QED
    BY <1>2, <1>3

LEMMA AppliedUpdated ==
    ASSUME NodesInv, NEW s \in ShardIds, NEW i, NEW c, c \in Nat,
           applied' = applied \/ applied' = [applied EXCEPT ![s][i] = c]
    PROVE  /\ applied' \in [ShardIds -> [ReplicaIds -> Nat]]
           /\ \A t \in ShardIds, j \in ReplicaIds :
                 applied'[t][j] = applied[t][j] \/ (t = s /\ applied'[t][j] = c)
  <1>1. applied \in [ShardIds -> [ReplicaIds -> Nat]]
    BY DEF NodesInv
  <1>2. CASE applied' = applied
    BY <1>1, <1>2
  <1>3. CASE applied' = [applied EXCEPT ![s][i] = c]
    <2> DEFINE row == [applied[s] EXCEPT ![i] = c]
    <2>1. /\ applied' = [x \in ShardIds |-> IF x = s THEN row ELSE applied[x]]
          /\ row \in [ReplicaIds -> Nat]
          /\ \A j \in ReplicaIds : row[j] = applied[s][j] \/ row[j] = c
      BY <1>1, <1>3
    <2> HIDE DEF row
    <2> QED
      BY <1>1, <2>1
  <1> QED
    BY <1>2, <1>3

(* Only the replicas of one shard on one NodeHost change, and what starts   *)
(* there is a member that the DB knows of.                                  *)
LEMMA NodesChange ==
    ASSUME Inv, UNCHANGED <<conf, shards, shardImage>>,
           replica' \in [Hosts -> [ShardIds -> ReplicaIds \cup {NoReplica}]],
           applied' \in [ShardIds -> [ReplicaIds -> Nat]],
           \A s \in ShardIds, i \in ReplicaIds : applied'[s][i] <= LastIndex(s),
           \A h \in Hosts, s \in ShardIds :
              replica'[h][s] \in {NoReplica, replica[h][s]} \/ Known(s, replica'[h][s])
    PROVE  NodesInv'
  <1>1. \A s \in ShardIds : \A i : Known(s, i) => Known(s, i)'
    BY RestStays, KnownStays
  <1>2. \A s \in ShardIds : LastIndex(s)' = LastIndex(s)
    BY DEF LastIndex
  <1>3. \A h \in Hosts, s \in ShardIds :
           replica'[h][s] # NoReplica => Known(s, replica'[h][s])
    BY DEF Inv, NodesInv
  <1>4. \A h \in Hosts, s \in ShardIds :
           replica'[h][s] # NoReplica => Known(s, replica[h][s])'
    BY <1>1, <1>3
  <1> QED
    BY <1>2, <1>4 DEF NodesInv

LEMMA HandleAddDeleteKeeps ==
    ASSUME Inv, NEW h \in Hosts, NEW s \in ShardIds, HandleAddDelete(h, s)
    PROVE  Inv'
  <1> DEFINE r == Head(queue[h][s])
  <1>1. /\ Take(h, s)
        /\ r.type \in {"ADD", "DELETE"}
        /\ changes' \subseteq changes \cup {r}
        /\ UNCHANGED <<conf, shards, shardImage, requests, outgoing, batch,
                       replicasToKill, panicked, nodeHostImage, replica, applied, reports>>
    BY DEF HandleAddDelete, dbVars, wireVars, drummerVars
  <1>2. Grows /\ ConfType /\ ConfType'
    BY <1>1, RestStays
  <1>3. GoodOrder(r) /\ QueuesInv'
    BY <1>1, <1>2, TakeGood
  <1>4. GoodAdd(r) \/ GoodDelete(r)
    BY <1>1, <1>3 DEF GoodOrder, GoodLaunch, GoodStart, GoodKill, IsLaunchRequest
  <1> HIDE DEF r
  <1>5. \A q \in changes' : GoodAdd(q) \/ GoodDelete(q)
    BY <1>1, <1>4 DEF Inv, ChangesInv
  <1>6. ChangesInv'
    BY <1>2, <1>5, OrderStays DEF ChangesInv
  <1> QED
    BY <1>1, <1>3, <1>6, RestStays DEF Inv, SameReport

LEMMA HandleKillKeeps ==
    ASSUME Inv, NEW h \in Hosts, NEW s \in ShardIds, HandleKill(h, s)
    PROVE  Inv'
  <1> DEFINE r == Head(queue[h][s])
  <1>1. /\ Take(h, s)
        /\ UNCHANGED <<conf, shards, shardImage, requests, outgoing, batch, changes,
                       replicasToKill, panicked, nodeHostImage, reports>>
        /\ replica' = replica \/ replica' = [replica EXCEPT ![h][s] = NoReplica]
        /\ applied' = applied \/ applied' = [applied EXCEPT ![s][r.replica] = 0]
    BY Zenon DEF HandleKill, dbVars, wireVars, drummerVars
  <1>2. QueuesInv'
    BY <1>1, RestStays, TakeGood
  <1> HIDE DEF r
  <1>3. NodesInv
    BY DEF Inv
  <1>4. /\ replica' \in [Hosts -> [ShardIds -> ReplicaIds \cup {NoReplica}]]
        /\ \A g \in Hosts, t \in ShardIds : replica'[g][t] \in {NoReplica, replica[g][t]}
    BY <1>1, <1>3, ReplicaUpdated
  <1>5. /\ applied' \in [ShardIds -> [ReplicaIds -> Nat]]
        /\ \A t \in ShardIds, i \in ReplicaIds : applied'[t][i] \in {0, applied[t][i]}
    BY <1>1, <1>3, AppliedUpdated
  <1>6. \A t \in ShardIds, i \in ReplicaIds : applied'[t][i] <= LastIndex(t)
    <2>1. ASSUME NEW t \in ShardIds, NEW i \in ReplicaIds
          PROVE  applied'[t][i] <= LastIndex(t)
      <3>1. applied[t][i] <= LastIndex(t) /\ LastIndex(t) \in Nat
        BY <1>3, GroupFacts DEF NodesInv, Inv, GroupInv
      <3> QED
        BY <1>5, <3>1
    <2> QED
      BY <2>1
  <1>7. NodesInv'
    BY <1>1, <1>4, <1>5, <1>6, NodesChange
  <1> QED
    BY <1>1, <1>2, <1>7, RestStays DEF Inv, SameReport

LEMMA HandleStartKeeps ==
    ASSUME Inv, NEW h \in Hosts, NEW s \in ShardIds, HandleStart(h, s)
    PROVE  Inv'
  <1> DEFINE r == Head(queue[h][s])
  <1>1. /\ Take(h, s)
        /\ r.type = "CREATE" /\ (r.join \/ r.restore)
        /\ UNCHANGED <<conf, shards, shardImage, requests, outgoing, batch, changes,
                       replicasToKill, panicked, nodeHostImage, reports, applied>>
        /\ replica' = replica \/ replica' = [replica EXCEPT ![h][s] = r.replica]
    BY Zenon DEF HandleStart, StartReplica, dbVars, wireVars, drummerVars
  <1>2. QueuesInv' /\ GoodOrder(r) /\ r.shard = s
    BY <1>1, RestStays, TakeGood
  <1>3. Known(s, r.replica)
    BY <1>1, <1>2 DEF GoodOrder, GoodLaunch, GoodStart, GoodAdd, GoodDelete, GoodKill,
                      IsLaunchRequest
  <1> HIDE DEF r
  <1>4. NodesInv /\ ConfType
    BY DEF Inv, GroupInv
  <1>5. r.replica \in ReplicaIds
    BY <1>3, <1>4, KnownIsReplica
  <1>6. /\ replica' \in [Hosts -> [ShardIds -> ReplicaIds \cup {NoReplica}]]
        /\ \A g \in Hosts, t \in ShardIds :
              replica'[g][t] = replica[g][t] \/ (t = s /\ replica'[g][t] = r.replica)
    BY <1>1, <1>4, <1>5, ReplicaUpdated
  <1>7. NodesInv'
    BY <1>1, <1>3, <1>4, <1>6, NodesChange DEF NodesInv
  <1> QED
    BY <1>1, <1>2, <1>7, RestStays DEF Inv, SameReport

(* A crash stops the replicas of a NodeHost and empties its queue.          *)
LEMMA CrashKeeps ==
    ASSUME Inv, NEW h \in Hosts, Crash(h)
    PROVE  Inv'
  <1>1. /\ UNCHANGED <<conf, shards, shardImage, requests, outgoing, batch, changes,
                       replicasToKill, panicked, nodeHostImage, applied>>
        /\ replica' = [replica EXCEPT ![h] = [s \in ShardIds |-> NoReplica]]
        /\ queue' = [queue EXCEPT ![h] = [s \in ShardIds |-> <<>>]]
        /\ reports' = {IF r.nhi.addr = h THEN [r EXCEPT !.awaited = FALSE] ELSE r :
                          r \in reports}
    BY Zenon DEF Crash, dbVars, drummerVars
  <1>2. Grows /\ ConfType /\ ConfType'
    BY <1>1, RestStays
  <1>3. \A r \in reports' : \E q \in reports : SameReport(r, q)
    BY <1>1, NotAwaited DEF Inv
  <1>4. QueuesInv'
    <2>1. /\ DOMAIN queue' = Hosts
          /\ \A g \in Hosts : /\ DOMAIN queue'[g] = ShardIds
                              /\ \A s \in ShardIds : queue'[g][s] \in {queue[g][s], <<>>}
      BY <1>1 DEF Inv, QueuesInv
    <2>2. \A g \in Hosts, s \in ShardIds :
             /\ GoodQueue(queue'[g][s])
             /\ \A r \in Elements(queue'[g][s]) : r.shard = s
      BY <2>1, EmptyIsGood, EmptyQueue DEF Inv, QueuesInv
    <2> QED
      BY <1>2, <2>1, <2>2, QueueStays DEF QueuesInv, Elements
  <1>5. NodesInv
    BY DEF Inv
  <1>6. /\ replica' \in [Hosts -> [ShardIds -> ReplicaIds \cup {NoReplica}]]
        /\ \A g \in Hosts, t \in ShardIds : replica'[g][t] \in {NoReplica, replica[g][t]}
    BY <1>1, <1>5 DEF NodesInv
  <1>7. NodesInv'
    BY <1>1, <1>5, <1>6, NodesChange DEF NodesInv
  <1> QED
    BY <1>1, <1>3, <1>4, <1>7, RestStays DEF Inv

(* A replica applies memberships of its group in their order.               *)
LEMMA CatchUpKeeps ==
    ASSUME Inv, NEW h \in Hosts, NEW s \in ShardIds, NEW c \in DOMAIN conf[s],
           CatchUp(h, s, c)
    PROVE  Inv'
  <1>1. /\ UNCHANGED <<conf, shards, shardImage, requests, outgoing, queue, batch, changes,
                       replicasToKill, panicked, nodeHostImage, reports>>
        /\ replica' = replica \/ replica' = [replica EXCEPT ![h][s] = NoReplica]
        /\ applied' = [applied EXCEPT ![s][replica[h][s]] = c]
    BY Zenon DEF CatchUp, dbVars, wireVars, drummerVars
  <1>2. NodesInv /\ c \in Nat /\ c <= LastIndex(s)
    BY GroupFacts DEF Inv, GroupInv
  <1>3. /\ replica' \in [Hosts -> [ShardIds -> ReplicaIds \cup {NoReplica}]]
        /\ \A g \in Hosts, t \in ShardIds : replica'[g][t] \in {NoReplica, replica[g][t]}
    BY <1>1, <1>2, ReplicaUpdated
  <1>4. /\ applied' \in [ShardIds -> [ReplicaIds -> Nat]]
        /\ \A t \in ShardIds, i \in ReplicaIds :
              applied'[t][i] = applied[t][i] \/ (t = s /\ applied'[t][i] = c)
    <2>1. PICK i : i = replica[h][s]
      OBVIOUS
    <2>2. applied' = [applied EXCEPT ![s][i] = c]
      BY <1>1, <2>1
    <2> QED
      BY <1>2, <2>2, AppliedUpdated
  <1>5. \A t \in ShardIds, i \in ReplicaIds : applied'[t][i] <= LastIndex(t)
    BY <1>2, <1>4 DEF NodesInv
  <1>6. NodesInv'
    BY <1>1, <1>3, <1>4, <1>5, NodesChange
  <1> QED
    BY <1>1, <1>6, RestStays DEF Inv, SameReport

-----------------------------------------------------------------------------
(* The groups: a launch gives one its first membership, and a change that   *)
(* names the current index the next.                                        *)

(* What users ask for: some distinct members.                               *)
LEMMA UserMembers ==
    ASSUME NEW s \in DOMAIN UserShards
    PROVE  /\ s \in ShardIds
           /\ WantedSize(s) \in Nat \ {0}
           /\ DOMAIN UserShards[s] = 1..WantedSize(s)
           /\ ToSet(UserShards[s]) \subseteq ReplicaIds
           /\ IsFiniteSet(ToSet(UserShards[s]))
           /\ Cardinality(ToSet(UserShards[s])) = WantedSize(s)
  <1> DEFINE q == UserShards[s]
             n == Len(q)
  <1>1. /\ s \in ShardIds
        /\ q \in Seq(ReplicaIds) /\ q # <<>>
        /\ IsInjective(q)
    BY UsersAssumption
  <1> HIDE DEF q
  <1>2. /\ n \in Nat \ {0}
        /\ q \in [1..n -> ReplicaIds]
    BY <1>1
  <1>3. ToSet(q) \subseteq ReplicaIds /\ IsFiniteSet(ToSet(q))
    BY <1>2, DrummerDBAssumption, FS_Subset DEF ToSet
  <1>4. q \in Bijection(1..n, ToSet(q))
    BY <1>1, <1>2 DEF Bijection, Injection, Surjection, ToSet
  <1>5. Cardinality(1..n) = n /\ IsFiniteSet(1..n)
    BY <1>2, FS_Interval
  <1>6. Cardinality(ToSet(q)) = n
    BY <1>4, <1>5, FS_Bijection DEF ExistsBijection
  <1> QED
    BY <1>1, <1>2, <1>3, <1>6 DEF WantedSize, q

(* The group of a shard that is left alone.                                 *)
LEMMA OtherGroup ==
    ASSUME Inv, Grows, NEW s \in ShardIds, conf'[s] = conf[s]
    PROVE  GoodGroup(s)'
  BY DEF Inv, GroupInv, GoodGroup, Grows, LaunchedGroup, Ids, WantedSize

(* The first replica of a group to start brings its first membership.       *)
LEMMA GroupLaunched ==
    ASSUME Inv, NEW r, GoodLaunch(r), NEW s, s = r.shard, conf[s] = <<>>,
           conf' = [conf EXCEPT ![s] = <<r.peers>>],
           UNCHANGED <<shards, shardImage>>
    PROVE  Grows /\ ConfType' /\ GroupInv'
  <1>1. ConfType
    BY DEF Inv, GroupInv
  <1>2. /\ s \in DOMAIN shards /\ s \in DOMAIN UserShards /\ shards' = shards
    BY DEF GoodLaunch, Inv, WantedInv
  <1>3. /\ s \in ShardIds
        /\ ToSet(UserShards[s]) \subseteq ReplicaIds
        /\ Cardinality(ToSet(UserShards[s])) = WantedSize(s)
    BY <1>2, UserMembers
  <1>4. /\ r.peers \in [ToSet(UserShards[s]) -> Hosts]
        /\ Distinct(r.peers)
    BY DEF GoodLaunch
  <1> DEFINE m == r.peers
  <1> HIDE DEF m
  <1>5. m \in Memberships /\ DOMAIN m = ToSet(UserShards[s])
    BY <1>3, <1>4 DEF Memberships, m
  <1>6. /\ conf' \in [ShardIds -> Seq(Memberships)]
        /\ conf'[s] = <<m>>
        /\ \A t \in ShardIds \ {s} : conf'[t] = conf[t]
    BY <1>1, <1>3, <1>5 DEF ConfType, m
  <1>7. DOMAIN conf'[s] = {1} /\ conf'[s][1] = m
    BY <1>6
  <1>8. Grows
    <2>1. DOMAIN conf[s] = {}
      OBVIOUS
    <2>2. \A t \in ShardIds : \A c \in DOMAIN conf[t] :
             c \in DOMAIN conf'[t] /\ conf'[t][c] = conf[t][c]
      BY <1>6, <2>1
    <2> QED
      BY <1>6, <2>1, <2>2 DEF Grows
  <1>9. GoodGroup(s)'
    <2>1. Distinct(m)
      BY <1>4 DEF m
    <2>2. Distinct(conf'[s][1]) /\ Distinct(conf[s][1])'
      BY <1>7, <2>1 DEF Distinct
    <2> QED
      BY <1>2, <1>3, <1>5, <1>7, <2>2 DEF GoodGroup, Ids, WantedSize, LaunchedGroup
  <1>10. \A t \in ShardIds : GoodGroup(t)'
    BY <1>6, <1>8, <1>9, OtherGroup
  <1> QED
    BY <1>6, <1>8, <1>10 DEF GroupInv, ConfType

(* The membership that a change makes of the current one: of the right      *)
(* size, with one member for a NodeHost, all of whose members the current   *)
(* one has, but for one that is new to the group.                           *)
LEMMA NewMembershipGood ==
    ASSUME Inv, NEW r, GoodAdd(r) \/ GoodDelete(r), NEW s, s = r.shard, InOrder(r),
           NEW m, m = NewMembership(Current(s), r)
    PROVE  /\ s \in ShardIds /\ LastIndex(s) \in DOMAIN conf[s]
           /\ m \in Memberships /\ Distinct(m)
           /\ Cardinality(DOMAIN m) \in {WantedSize(s), WantedSize(s) + 1}
           /\ \A i \in DOMAIN m :
                 \/ i \in Ids(s, LastIndex(s)) /\ m[i] = conf[s][LastIndex(s)][i]
                 \/ \A c \in DOMAIN conf[s] : i \notin Ids(s, c)
  <1> DEFINE n == LastIndex(s)
             old == conf[s][n]
             i == r.replica
  <1>1. s \in ShardIds /\ n \in DOMAIN conf[s] /\ r.ccid = n /\ Current(s) = old
    BY DEF GoodAdd, GoodDelete, InOrder, Current
  <1>2. /\ DOMAIN conf[s] = 1..n /\ n \in Nat
        /\ old \in [Ids(s, n) -> Hosts]
        /\ Ids(s, n) \subseteq ReplicaIds
        /\ IsFiniteSet(Ids(s, n))
        /\ Distinct(old)
    BY <1>1, GroupFacts DEF Inv, GroupInv, GoodGroup
  <1>3. WantedSize(s) \in Nat
    <2>1. s \in DOMAIN UserShards
      BY <1>1, <1>2 DEF Inv, GroupInv, GoodGroup, WantedInv, LaunchedGroup
    <2> QED
      BY <2>1, UserMembers
  <1>4. CASE GoodAdd(r)
    <2>1. /\ r.type = "ADD" /\ i \in ReplicaIds /\ r.addr \in Hosts
          /\ Cardinality(Ids(s, n)) = WantedSize(s)
          /\ \A j \in Ids(s, n) : old[j] # r.addr
          /\ \A c \in DOMAIN conf[s] : i \notin Ids(s, c)
      BY <1>1, <1>2, <1>4 DEF GoodAdd
    <2>2. m = [j \in Ids(s, n) \cup {i} |-> IF j = i THEN r.addr ELSE old[j]]
      BY <1>1, <2>1 DEF NewMembership, Ids
    <2> HIDE DEF n, old, i
    <2>3. m \in [Ids(s, n) \cup {i} -> Hosts]
      BY <1>2, <2>1, <2>2
    <2>4. m \in Memberships
      BY <1>2, <2>1, <2>3 DEF Memberships
    <2>5. Distinct(m)
      BY <1>2, <2>1, <2>2 DEF Distinct, Ids
    <2>6. Cardinality(DOMAIN m) = WantedSize(s) + 1
      BY <1>1, <1>2, <2>1, <2>3, FS_AddElement
    <2>7. \A j \in DOMAIN m : \/ j \in Ids(s, n) /\ m[j] = old[j]
                              \/ \A c \in DOMAIN conf[s] : j \notin Ids(s, c)
      BY <1>1, <2>1, <2>2
    <2> QED
      BY <1>1, <2>4, <2>5, <2>6, <2>7 DEF n, old
  <1>5. CASE GoodDelete(r)
    <2>1. /\ r.type = "DELETE" /\ i \in Ids(s, n)
          /\ Cardinality(Ids(s, n)) = WantedSize(s) + 1
      BY <1>1, <1>5 DEF GoodDelete
    <2>2. m = [j \in Ids(s, n) \ {i} |-> old[j]]
      BY <1>1, <2>1 DEF NewMembership, Ids
    <2> HIDE DEF n, old, i
    <2>3. m \in [Ids(s, n) \ {i} -> Hosts]
      BY <1>2, <2>1, <2>2
    <2>4. m \in Memberships
      BY <1>2, <2>1, <2>3 DEF Memberships
    <2>5. Distinct(m)
      BY <1>2, <2>1, <2>2 DEF Distinct, Ids
    <2>6. Cardinality(DOMAIN m) = WantedSize(s)
      <3>1. DOMAIN m = Ids(s, n) \ {i}
        BY <2>3
      <3>2. Cardinality(Ids(s, n) \ {i}) = Cardinality(Ids(s, n)) - 1
        BY <1>2, <2>1, FS_RemoveElement
      <3> QED
        BY <1>3, <2>1, <3>1, <3>2
    <2>7. \A j \in DOMAIN m : j \in Ids(s, n) /\ m[j] = old[j]
      BY <2>2
    <2> QED
      BY <1>1, <2>4, <2>5, <2>6, <2>7 DEF n, old
  <1> QED
    BY <1>4, <1>5

(* A group with a next membership of this kind is as good as before.        *)
LEMMA GroupExtended ==
    ASSUME Inv, NEW s \in ShardIds, NEW m, m \in Memberships, Distinct(m),
           LastIndex(s) \in DOMAIN conf[s],
           Cardinality(DOMAIN m) \in {WantedSize(s), WantedSize(s) + 1},
           \A i \in DOMAIN m :
              \/ i \in Ids(s, LastIndex(s)) /\ m[i] = conf[s][LastIndex(s)][i]
              \/ \A c \in DOMAIN conf[s] : i \notin Ids(s, c),
           conf' = [conf EXCEPT ![s] = Append(conf[s], m)],
           UNCHANGED <<shards, shardImage>>
    PROVE  Grows /\ ConfType' /\ GroupInv'
  <1> DEFINE n == LastIndex(s)
             cs == conf'[s]
  <1>1. ConfType /\ GoodGroup(s)
    BY DEF Inv, GroupInv
  <1>2. conf[s] \in Seq(Memberships) /\ n \in Nat /\ DOMAIN conf[s] = 1..n /\ n >= 1
    BY <1>1, GroupFacts
  <1>3. /\ conf' \in [ShardIds -> Seq(Memberships)]
        /\ cs = Append(conf[s], m)
        /\ \A t \in ShardIds \ {s} : conf'[t] = conf[t]
    BY <1>1, <1>2 DEF ConfType
  <1>4. /\ DOMAIN cs = 1..n + 1
        /\ \A c \in 1..n : cs[c] = conf[s][c]
        /\ cs[n + 1] = m
    BY <1>2, <1>3, AppendProperties DEF LastIndex
  <1>5. Grows
    BY <1>2, <1>3, <1>4 DEF Grows
  <1> HIDE DEF n, cs
  <1>6. ASSUME NEW i \in DOMAIN m, NEW c \in 1..n, i \in DOMAIN conf[s][c]
        PROVE  i \in DOMAIN conf[s][n] /\ m[i] = conf[s][n][i]
    BY <1>2, <1>6 DEF n, Ids
  <1>7. ASSUME NEW c \in 1..n + 1
        PROVE  /\ Cardinality(DOMAIN cs[c]) \in {WantedSize(s), WantedSize(s) + 1}
               /\ Distinct(cs[c])
    <2>1. CASE c \in 1..n
      BY <1>1, <1>2, <1>4, <2>1 DEF GoodGroup, Ids
    <2>2. CASE c = n + 1
      BY <1>4, <2>2
    <2> QED
      BY <1>2, <1>7, <2>1, <2>2
  <1>8. ASSUME NEW c \in 1..n + 1, NEW d \in 1..n + 1,
               NEW i, i \in DOMAIN cs[c], i \in DOMAIN cs[d]
        PROVE  cs[c][i] = cs[d][i]
    <2>1. ASSUME NEW a \in 1..n, NEW b \in 1..n,
                 NEW j, j \in DOMAIN conf[s][a], j \in DOMAIN conf[s][b]
          PROVE  conf[s][a][j] = conf[s][b][j]
      <3>1. a \in DOMAIN conf[s] /\ b \in DOMAIN conf[s]
        BY <1>2
      <3>2. j \in Ids(s, a) \cap Ids(s, b)
        BY <2>1 DEF Ids
      <3> QED
        BY <1>1, <3>1, <3>2 DEF GoodGroup
    <2>2. ASSUME NEW a \in 1..n, NEW j \in DOMAIN m, j \in DOMAIN conf[s][a]
          PROVE  m[j] = conf[s][a][j]
      BY <1>2, <1>6, <2>1, <2>2
    <2>3. CASE c \in 1..n /\ d \in 1..n
      BY <1>4, <1>8, <2>1, <2>3
    <2>4. CASE c \in 1..n /\ d = n + 1
      BY <1>4, <1>8, <2>2, <2>4
    <2>5. CASE c = n + 1 /\ d \in 1..n
      BY <1>4, <1>8, <2>2, <2>5
    <2>6. CASE c = n + 1 /\ d = n + 1
      BY <2>6
    <2> QED
      BY <1>2, <1>8, <2>3, <2>4, <2>5, <2>6
  <1>9. ASSUME NEW b \in 1..n + 1, NEW c \in 1..n + 1, NEW d \in 1..n + 1,
               b <= c, c <= d
        PROVE  DOMAIN cs[b] \cap DOMAIN cs[d] \subseteq DOMAIN cs[c]
    <2>1. \A x, y, z \in 1..n : x <= y /\ y <= z =>
             DOMAIN conf[s][x] \cap DOMAIN conf[s][z] \subseteq DOMAIN conf[s][y]
      BY <1>1, <1>2 DEF GoodGroup, Ids
    <2>2. CASE d \in 1..n
      <3>1. b \in 1..n /\ c \in 1..n
        BY <1>2, <1>9, <2>2
      <3> QED
        BY <1>4, <1>9, <2>1, <2>2, <3>1
    <2>3. CASE d = n + 1 /\ c = n + 1
      BY <2>3
    <2>4. CASE d = n + 1 /\ c \in 1..n
      <3>1. b \in 1..n /\ c <= n
        BY <1>2, <1>9, <2>4
      <3>2. DOMAIN cs[b] \cap DOMAIN cs[d] \subseteq DOMAIN conf[s][b] \cap DOMAIN conf[s][n]
        BY <1>4, <1>6, <2>4, <3>1
      <3>3. DOMAIN conf[s][b] \cap DOMAIN conf[s][n] \subseteq DOMAIN conf[s][c]
        BY <1>2, <1>9, <2>1, <2>4, <3>1
      <3> QED
        BY <1>4, <2>4, <3>2, <3>3
    <2> QED
      BY <1>2, <1>9, <2>2, <2>3, <2>4
  <1>10. GoodGroup(s)'
    <2>1. /\ s \in DOMAIN shards
          /\ DOMAIN conf[s][1] = ToSet(UserShards[s])
          /\ cs[1] = conf[s][1]
      BY <1>1, <1>2, <1>4 DEF GoodGroup, Ids, LaunchedGroup
    <2>2. \A c \in DOMAIN conf'[s] :
             /\ Cardinality(DOMAIN conf'[s][c]) \in {WantedSize(s), WantedSize(s) + 1}
             /\ Distinct(conf'[s][c])
      BY <1>4, <1>7 DEF cs
    <2>3. ASSUME NEW c \in DOMAIN conf'[s], NEW d \in DOMAIN conf'[s],
                 NEW i \in DOMAIN conf'[s][c] \cap DOMAIN conf'[s][d]
          PROVE  conf'[s][c][i] = conf'[s][d][i]
      <3>1. c \in 1..n + 1 /\ d \in 1..n + 1
        BY <1>4 DEF cs
      <3> QED
        BY <1>8, <3>1 DEF cs
    <2>4. ASSUME NEW b \in DOMAIN conf'[s], NEW c \in DOMAIN conf'[s],
                 NEW d \in DOMAIN conf'[s], b <= c, c <= d
          PROVE  DOMAIN conf'[s][b] \cap DOMAIN conf'[s][d] \subseteq DOMAIN conf'[s][c]
      <3>1. b \in 1..n + 1 /\ c \in 1..n + 1 /\ d \in 1..n + 1
        BY <1>4 DEF cs
      <3> QED
        BY <1>9, <2>4, <3>1 DEF cs
    <2>5. s \in DOMAIN shards' /\ DOMAIN conf'[s][1] = ToSet(UserShards[s])
      BY <2>1 DEF cs
    <2>6. \A c \in DOMAIN conf'[s] : Distinct(conf[s][c])'
      BY <2>2 DEF Distinct
    <2>7. WantedSize(s)' = WantedSize(s)
      BY DEF WantedSize
    <2> QED
      BY <2>2, <2>3, <2>4, <2>5, <2>6, <2>7 DEF GoodGroup, Ids
  <1>11. \A t \in ShardIds : GoodGroup(t)'
    BY <1>3, <1>5, <1>10, OtherGroup
  <1> QED
    BY <1>3, <1>5, <1>11 DEF GroupInv, ConfType

LEMMA CommitChangeKeeps ==
    ASSUME Inv, NEW r \in changes, CommitChange(r)
    PROVE  Inv'
  <1> DEFINE s == r.shard
             m == NewMembership(Current(s), r)
  <1>1. /\ InOrder(r)
        /\ conf' = [conf EXCEPT ![s] = Append(conf[s], m)]
        /\ changes' = changes \ {r}
        /\ UNCHANGED <<shards, shardImage, requests, outgoing, queue, batch,
                       replicasToKill, panicked, nodeHostImage, replica, applied, reports>>
    BY DEF CommitChange, dbVars, wireVars, drummerVars
  <1>2. GoodAdd(r) \/ GoodDelete(r)
    BY DEF Inv, ChangesInv
  <1> HIDE DEF s, m
  <1>3. /\ s \in ShardIds /\ LastIndex(s) \in DOMAIN conf[s]
        /\ m \in Memberships /\ Distinct(m)
        /\ Cardinality(DOMAIN m) \in {WantedSize(s), WantedSize(s) + 1}
        /\ \A i \in DOMAIN m :
              \/ i \in Ids(s, LastIndex(s)) /\ m[i] = conf[s][LastIndex(s)][i]
              \/ \A c \in DOMAIN conf[s] : i \notin Ids(s, c)
    BY <1>1, <1>2, NewMembershipGood DEF s, m
  <1>4. Grows /\ ConfType' /\ GroupInv'
    BY <1>1, <1>3, GroupExtended
  <1>5. RequestsInv' /\ OutgoingInv' /\ QueuesInv' /\ ChangesInv' /\ BatchInv'
    BY <1>1, <1>4, RequestsStay, OutgoingStays, QueuesStay, ChangesStay, BatchStays
  <1>6. ImageInv' /\ HostsInv' /\ NodesInv' /\ WantedInv'
    BY <1>1, <1>4, ImageStays, HostsStay, NodesStay, WantedStays
  <1>7. ReportsInv'
    BY <1>1, <1>4, ReportsStay DEF SameReport
  <1> QED
    BY <1>4, <1>5, <1>6, <1>7 DEF Inv

(* Every first member of a launched shard is known to the DB, heard of or   *)
(* not.                                                                     *)
LEMMA LaunchedIsKnown ==
    ASSUME Inv, NEW r, GoodLaunch(r), NEW s, s = r.shard, conf[s] # <<>>
    PROVE  /\ s \in ShardIds
           /\ Known(s, r.replica)
           /\ LastIndex(s) >= 1
  <1>1. s \in ShardIds
    BY UserMembers DEF GoodLaunch, Inv, WantedInv
  <1>2. /\ conf[s] \in Seq(Memberships) /\ LastIndex(s) \in Nat
        /\ DOMAIN conf[s] = 1..LastIndex(s)
    BY <1>1, GroupFacts DEF Inv, GroupInv
  <1>3. LastIndex(s) >= 1 /\ 1 \in DOMAIN conf[s]
    BY <1>2 DEF LastIndex
  <1>4. Ids(s, 1) = ToSet(UserShards[s]) /\ r.replica \in ToSet(UserShards[s])
    BY <1>1 DEF Inv, GroupInv, GoodGroup, LaunchedGroup, GoodLaunch
  <1> QED
    BY <1>1, <1>3, <1>4 DEF Known

LEMMA HandleLaunchKeeps ==
    ASSUME Inv, NEW h \in Hosts, NEW s \in ShardIds, HandleLaunch(h, s)
    PROVE  Inv'
  <1> DEFINE r == Head(queue[h][s])
  <1>1. /\ Take(h, s)
        /\ IsLaunchRequest(r)
        /\ UNCHANGED <<shards, shardImage, requests, outgoing, batch, changes,
                       replicasToKill, panicked, nodeHostImage, reports>>
        /\ \/ UNCHANGED <<replica, conf, applied>>
           \/ /\ \/ replica' = replica
                 \/ replica' = [replica EXCEPT ![h][s] = r.replica]
              /\ conf' = IF LaunchedGroup(s) THEN conf
                                             ELSE [conf EXCEPT ![s] = <<r.peers>>]
              /\ \/ applied' = applied
                 \/ applied' = [applied EXCEPT ![s][r.replica] = 1]
    BY Zenon DEF HandleLaunch, StartReplica, dbVars, wireVars, drummerVars
  <1>2. GoodOrder(r) /\ r.shard = s
    BY <1>1, TakeGood
  <1>3. GoodLaunch(r)
    BY <1>1, <1>2 DEF GoodOrder, GoodStart, GoodAdd, GoodDelete, GoodKill, IsLaunchRequest
  <1>4. Grows /\ ConfType' => QueuesInv'
    BY <1>1, TakeGood
  <1> HIDE DEF r
  <1>5. /\ r.replica \in ReplicaIds
        /\ r.replica \in ToSet(UserShards[s])
    BY <1>2, <1>3, UserMembers DEF GoodLaunch, Inv, WantedInv
  <1>6. NodesInv
    BY DEF Inv
  <1>7. CASE UNCHANGED <<replica, conf, applied>>
    BY <1>1, <1>4, <1>7, RestStays DEF Inv, SameReport
  <1>8. CASE ~(UNCHANGED <<replica, conf, applied>>)
    <2>1. /\ replica' \in [Hosts -> [ShardIds -> ReplicaIds \cup {NoReplica}]]
          /\ \A g \in Hosts, t \in ShardIds :
                replica'[g][t] = replica[g][t] \/ (t = s /\ replica'[g][t] = r.replica)
      BY <1>1, <1>5, <1>6, <1>8, ReplicaUpdated
    <2>2. /\ applied' \in [ShardIds -> [ReplicaIds -> Nat]]
          /\ \A t \in ShardIds, j \in ReplicaIds :
                applied'[t][j] = applied[t][j] \/ (t = s /\ applied'[t][j] = 1)
      BY <1>1, <1>6, <1>8, AppliedUpdated
    <2>3. CASE conf[s] # <<>>
      <3>1. conf' = conf
        BY <1>1, <1>8, <2>3 DEF LaunchedGroup
      <3>2. Known(s, r.replica) /\ LastIndex(s) >= 1
        BY <1>2, <1>3, <2>3, LaunchedIsKnown
      <3>3. \A t \in ShardIds, j \in ReplicaIds : applied'[t][j] <= LastIndex(t)
        BY <1>6, <2>2, <3>2 DEF NodesInv
      <3>4. NodesInv'
        BY <1>1, <2>1, <2>2, <3>1, <3>2, <3>3, NodesChange
      <3> QED
        BY <1>1, <1>4, <3>1, <3>4, RestStays DEF Inv, SameReport
    <2>4. CASE conf[s] = <<>>
      <3>1. conf' = [conf EXCEPT ![s] = <<r.peers>>]
        BY <1>1, <1>8, <2>4 DEF LaunchedGroup
      <3>2. Grows /\ ConfType' /\ GroupInv'
        BY <1>1, <1>2, <1>3, <2>4, <3>1, GroupLaunched
      <3>3. RequestsInv' /\ OutgoingInv' /\ QueuesInv' /\ ChangesInv' /\ BatchInv'
        BY <1>1, <1>4, <3>2, RequestsStay, OutgoingStays, ChangesStay, BatchStays
      <3>4. ImageInv' /\ HostsInv' /\ WantedInv'
        BY <1>1, <3>2, ImageStays, HostsStay, WantedStays
      <3>5. ReportsInv'
        BY <1>1, <3>2, ReportsStay DEF SameReport
      <3>6. /\ conf'[s] = <<r.peers>>
            /\ \A t \in ShardIds \ {s} : conf'[t] = conf[t]
        BY <3>1 DEF Inv, GroupInv, ConfType
      <3>7. \A t \in ShardIds, j \in ReplicaIds : applied'[t][j] <= Len(conf'[t])
        <4>1. ASSUME NEW j \in ReplicaIds PROVE applied'[s][j] <= 1
          <5>1. applied[s][j] <= LastIndex(s) /\ LastIndex(s) = 0
            BY <1>6, <2>4 DEF NodesInv, LastIndex
          <5>2. applied[s][j] \in Nat
            BY <1>6 DEF NodesInv
          <5> QED
            BY <2>2, <5>1, <5>2
        <4>2. Len(conf'[s]) = 1
          BY <3>6
        <4>3. ASSUME NEW t \in ShardIds \ {s}, NEW j \in ReplicaIds
              PROVE  applied'[t][j] <= Len(conf'[t])
          BY <1>6, <2>2, <3>6 DEF NodesInv, LastIndex
        <4> QED
          BY <4>1, <4>2, <4>3
      <3>8. \A i : i = r.replica => Known(s, i)'
        <4>1. 1 \in DOMAIN conf'[s] /\ DOMAIN conf'[s][1] = DOMAIN r.peers
          BY <3>6
        <4>2. r.replica \in DOMAIN r.peers
          BY <1>3 DEF GoodLaunch
        <4> QED
          BY <4>1, <4>2 DEF Known, Ids
      <3>9. ASSUME NEW g \in Hosts, NEW t \in ShardIds, replica'[g][t] # NoReplica
            PROVE  Known(t, replica[g][t])'
        <4>1. CASE replica'[g][t] = replica[g][t]
          <5>1. PICK i : i = replica[g][t]
            OBVIOUS
          <5>2. Known(t, i)
            BY <1>6, <3>9, <4>1, <5>1 DEF NodesInv
          <5>3. Known(t, i)' /\ replica'[g][t] = i
            BY <3>2, <4>1, <5>1, <5>2, KnownStays
          <5> QED
            BY <5>3 DEF Known
        <4>2. CASE t = s /\ replica'[g][t] = r.replica
          <5>1. PICK i : i = r.replica
            OBVIOUS
          <5>2. Known(s, i)'
            BY <3>8, <5>1
          <5> QED
            BY <4>2, <5>1, <5>2 DEF Known
        <4> QED
          BY <2>1, <4>1, <4>2
      <3>10. NodesInv'
        BY <2>1, <2>2, <3>7, <3>9 DEF NodesInv, LastIndex
      <3> QED
        BY <3>2, <3>3, <3>4, <3>5, <3>10 DEF Inv
    <2> QED
      BY <2>3, <2>4
  <1> QED
    BY <1>7, <1>8

-----------------------------------------------------------------------------
(* Reports.                                                                 *)

(* A complete report of shard s.                                            *)
FullReport(s, ci) ==
    /\ ci.ccid \in DOMAIN conf[s]
    /\ ci.replicas = conf[s][ci.ccid]

GoodReplica(r, addr) == DOMAIN r = ReplicaFields /\ r.addr = addr

LEMMA NewReplicaGood ==
    ASSUME NEW addr, NEW now
    PROVE  GoodReplica(NewReplica(addr, now), addr)
  BY DEF NewReplica, GoodReplica, ReplicaFields

(* syncShard, updateNodeTick and syncLeaderInfo keep the image of a shard   *)
(* right, and never move it back.                                           *)
LEMMA SyncShardGood ==
    ASSUME GroupInv, NEW s \in ShardIds, NEW now, NEW c, GoodShard(s, c),
           NEW ci, FullReport(s, ci)
    PROVE  /\ GoodShard(s, SyncShard(c, ci, now))
           /\ SyncShard(c, ci, now).ccid >= c.ccid
  <1>0. c.ccid \in Nat /\ ci.ccid \in Nat
    BY GroupFacts DEF GroupInv, GoodShard, FullReport
  <1>1. CASE c.ccid > ci.ccid
    BY <1>0, <1>1 DEF SyncShard
  <1>2. CASE ~(c.ccid > ci.ccid)
    <2> DEFINE d == SyncShard(c, ci, now)
    <2>1. /\ d.ccid = ci.ccid
          /\ d.replicas = [i \in Ids(s, ci.ccid) |->
                              IF i \in DOMAIN c.replicas THEN c.replicas[i]
                              ELSE NewReplica(ci.replicas[i], now)]
      BY <1>2 DEF SyncShard, FullReport, Ids
    <2>2. ASSUME NEW i \in Ids(s, ci.ccid)
          PROVE  GoodReplica(d.replicas[i], conf[s][ci.ccid][i])
      <3>1. CASE i \in DOMAIN c.replicas
        <4>1. /\ i \in Ids(s, c.ccid)
              /\ GoodReplica(c.replicas[i], conf[s][c.ccid][i])
          BY <3>1 DEF GoodShard, GoodReplica
        <4>2. conf[s][c.ccid][i] = conf[s][ci.ccid][i]
          BY <2>2, <4>1 DEF GroupInv, GoodGroup, GoodShard, FullReport
        <4> QED
          BY <2>1, <2>2, <3>1, <4>1, <4>2
      <3>2. CASE i \notin DOMAIN c.replicas
        <4>1. d.replicas[i] = NewReplica(conf[s][ci.ccid][i], now)
          BY <2>1, <2>2, <3>2 DEF FullReport
        <4> QED
          BY <4>1, NewReplicaGood
      <3> QED
        BY <3>1, <3>2
    <2>3. d.ccid >= c.ccid
      BY <1>0, <1>2, <2>1
    <2> HIDE DEF d
    <2>4. GoodShard(s, d)
      BY <2>1, <2>2 DEF GoodShard, FullReport, GoodReplica
    <2> QED
      BY <2>3, <2>4 DEF d
  <1> QED
    BY <1>1, <1>2

(* A record whose replicas were only marked.                                *)
LEMMA MarkedGood ==
    ASSUME NEW s \in ShardIds, NEW c, GoodShard(s, c), NEW d, d.ccid = c.ccid,
           DOMAIN d.replicas = DOMAIN c.replicas,
           \A i \in DOMAIN c.replicas : \A addr :
              GoodReplica(c.replicas[i], addr) => GoodReplica(d.replicas[i], addr)
    PROVE  GoodShard(s, d)
  BY DEF GoodShard, GoodReplica

LEMMA NodeTickGood ==
    ASSUME NEW s \in ShardIds, NEW now, NEW c, GoodShard(s, c), NEW ci
    PROVE  /\ GoodShard(s, UpdateNodeTick(c, ci, now))
           /\ UpdateNodeTick(c, ci, now).ccid = c.ccid
  <1> DEFINE d == UpdateNodeTick(c, ci, now)
  <1>1. /\ d.ccid = c.ccid
        /\ DOMAIN d.replicas = DOMAIN c.replicas
        /\ \A i \in DOMAIN c.replicas :
              \/ d.replicas[i] = [c.replicas[i] EXCEPT !.tick = now]
              \/ d.replicas[i] = c.replicas[i]
    BY DEF UpdateNodeTick
  <1> HIDE DEF d
  <1>2. ASSUME NEW i \in DOMAIN c.replicas, NEW addr, GoodReplica(c.replicas[i], addr)
        PROVE  GoodReplica(d.replicas[i], addr)
    BY <1>1, <1>2 DEF GoodReplica, ReplicaFields
  <1>3. GoodShard(s, d)
    BY <1>1, <1>2, MarkedGood
  <1> QED
    BY <1>1, <1>3 DEF d

LEMMA LeaderInfoGood ==
    ASSUME NEW s \in ShardIds, NEW c, GoodShard(s, c), NEW ci
    PROVE  /\ GoodShard(s, SyncLeaderInfo(c, ci))
           /\ SyncLeaderInfo(c, ci).ccid = c.ccid
  <1>1. CASE c.ccid > ci.ccid \/ ci.replica \notin DOMAIN c.replicas
    BY <1>1 DEF SyncLeaderInfo
  <1>2. CASE ~(c.ccid > ci.ccid \/ ci.replica \notin DOMAIN c.replicas)
    <2> DEFINE newLeader == ci.leader /\ ~c.replicas[ci.replica].leader
               mark(i) == IF i = ci.replica THEN ci.leader
                          ELSE c.replicas[i].leader /\ ~newLeader
               d == SyncLeaderInfo(c, ci)
    <2>1. /\ d.ccid = c.ccid
          /\ DOMAIN d.replicas = DOMAIN c.replicas
          /\ \A i \in DOMAIN c.replicas :
                d.replicas[i] = [c.replicas[i] EXCEPT !.leader = mark(i)]
      BY <1>2, Zenon DEF SyncLeaderInfo
    <2> HIDE DEF d, mark
    <2>2. ASSUME NEW i \in DOMAIN c.replicas, NEW addr, GoodReplica(c.replicas[i], addr)
          PROVE  GoodReplica(d.replicas[i], addr)
      BY <2>1, <2>2 DEF GoodReplica, ReplicaFields
    <2>3. GoodShard(s, d)
      BY <2>1, <2>2, MarkedGood
    <2> QED
      BY <2>1, <2>3 DEF d
  <1> QED
    BY <1>1, <1>2

(* A shard that is new to the image (getShard).                             *)
LEMMA GetShardGood ==
    ASSUME NEW s \in ShardIds, NEW now, NEW ci, FullReport(s, ci)
    PROVE  GoodShard(s, GetShard(ci, now))
  <1> DEFINE d == GetShard(ci, now)
             mark(i) == i = ci.replica /\ ci.leader
  <1>1. /\ d.ccid = ci.ccid
        /\ DOMAIN d.replicas = Ids(s, ci.ccid)
        /\ \A i \in Ids(s, ci.ccid) :
              d.replicas[i] = [NewReplica(conf[s][ci.ccid][i], now)
                                  EXCEPT !.leader = mark(i)]
    BY Zenon DEF GetShard, FullReport, Ids
  <1> HIDE DEF d, mark
  <1>2. \A i \in Ids(s, ci.ccid) : GoodReplica(d.replicas[i], conf[s][ci.ccid][i])
    BY <1>1 DEF NewReplica, GoodReplica, ReplicaFields
  <1>3. GoodShard(s, d)
    BY <1>1, <1>2 DEF GoodShard, FullReport, GoodReplica
  <1> QED
    BY <1>3 DEF d

LEMMA CreateShardGood ==
    ASSUME NEW s \in ShardIds, NEW now, NEW ci, FullReport(s, ci)
    PROVE  GoodShard(s, CreateShard(ci, now))
  BY GetShardGood, NodeTickGood, LeaderInfoGood DEF CreateShard

LEMMA UpdateShardGood ==
    ASSUME GroupInv, NEW s \in ShardIds, NEW now, NEW c, GoodShard(s, c),
           NEW ci, FullInfo(ci) => FullReport(s, ci)
    PROVE  /\ GoodShard(s, UpdateShard(c, ci, now))
           /\ UpdateShard(c, ci, now).ccid >= c.ccid
  <1> DEFINE synced == IF FullInfo(ci) THEN SyncShard(c, ci, now) ELSE c
  <1>1. c.ccid \in Nat
    BY GroupFacts DEF GroupInv, GoodShard
  <1>2. GoodShard(s, synced) /\ synced.ccid >= c.ccid
    BY <1>1, SyncShardGood
  <1>3. UpdateShard(c, ci, now) = SyncLeaderInfo(UpdateNodeTick(synced, ci, now), ci)
    BY DEF UpdateShard
  <1> HIDE DEF synced
  <1> QED
    BY <1>2, <1>3, NodeTickGood, LeaderInfoGood

(* The consistency checks of syncShard hold: a report and an image of one   *)
(* index show one membership, and a later one moves no replica.             *)
LEMMA SyncShardNeverPanics ==
    ASSUME GroupInv, NEW s \in ShardIds, NEW c, GoodShard(s, c), NEW ci, FullReport(s, ci)
    PROVE  ~SyncShardPanics(c, ci)
  <1>1. /\ DOMAIN ci.replicas = Ids(s, ci.ccid)
        /\ DOMAIN c.replicas = Ids(s, c.ccid)
    BY DEF GoodShard, FullReport, Ids
  <1>2. ASSUME NEW i \in DOMAIN c.replicas \cap DOMAIN ci.replicas
        PROVE  c.replicas[i].addr = ci.replicas[i]
    <2>1. c.replicas[i].addr = conf[s][c.ccid][i]
      BY <1>1, <1>2 DEF GoodShard
    <2>2. conf[s][c.ccid][i] = conf[s][ci.ccid][i]
      BY <1>1, <1>2 DEF GoodShard, FullReport, GroupInv, GoodGroup
    <2> QED
      BY <2>1, <2>2 DEF FullReport
  <1>3. \A i, j \in DOMAIN ci.replicas : i # j => ci.replicas[i] # ci.replicas[j]
    BY DEF FullReport, GroupInv, GoodGroup, Distinct
  <1> QED
    BY <1>1, <1>2, <1>3, Zenon DEF SyncShardPanics

(* A replica that the image has moved past is in no later membership.       *)
LEMMA ZombieRemoved ==
    ASSUME GroupInv, NEW s \in ShardIds, s \in DOMAIN shardImage,
           GoodShard(s, shardImage[s]), NEW i, Known(s, i),
           i \notin DOMAIN shardImage[s].replicas
    PROVE  Removed(s, i)
  <1> DEFINE d == shardImage[s].ccid
  <1>1. d \in DOMAIN conf[s] /\ i \notin Ids(s, d)
    BY DEF GoodShard
  <1>2. PICK c \in DOMAIN conf[s] : i \in Ids(s, c) /\ (c = 1 \/ c <= d)
    BY DEF Known
  <1>3. c < d
    BY <1>1, <1>2, GroupFacts DEF GroupInv
  <1> QED
    BY <1>1, <1>2, <1>3 DEF Removed

(* The zombies of a report: finitely many, and all of them removed.         *)
LEMMA ZombiesGood ==
    ASSUME Inv, NEW nhi, GoodReport(nhi)
    PROVE  /\ IsFiniteSet(Zombies(shardImage, nhi))
           /\ \A k \in Zombies(shardImage, nhi) :
                 k.shard \in ShardIds /\ Removed(k.shard, k.replica)
  <1> DEFINE Z == Zombies(shardImage, nhi)
             kill == [s \in ShardIds |-> [shard |-> s, replica |-> nhi.info[s].replica,
                                          addr |-> nhi.addr]]
             T == {s \in ShardIds : kill[s] \in Z}
             f == [s \in T |-> kill[s]]
  <1>1. ASSUME NEW k \in Z
        PROVE  \E s \in ShardIds : /\ s \in DOMAIN nhi.info \cap DOMAIN shardImage
                                   /\ KillRequestRequired(shardImage[s], nhi.info[s])
                                   /\ k = kill[s]
    BY DEF Zombies, GoodReport, GoodInfo
  <1>2. IsFiniteSet(T)
    BY UsersAssumption, FS_Subset
  <1>3. f \in Surjection(T, Z)
    BY <1>1 DEF Surjection
  <1>4. IsFiniteSet(Z)
    BY <1>2, <1>3, FS_Surjection
  <1>5. ASSUME NEW k \in Z
        PROVE  k.shard \in ShardIds /\ Removed(k.shard, k.replica)
    <2>1. PICK s \in ShardIds : /\ s \in DOMAIN nhi.info \cap DOMAIN shardImage
                                /\ KillRequestRequired(shardImage[s], nhi.info[s])
                                /\ k = kill[s]
      BY <1>1, <1>5
    <2>2. k.shard = s /\ k.replica = nhi.info[s].replica
      BY <2>1
    <2>3. /\ Known(s, k.replica)
          /\ k.replica \notin DOMAIN shardImage[s].replicas
      BY <2>1, <2>2 DEF KillRequestRequired, GoodReport, GoodInfo
    <2>4. GroupInv /\ GoodShard(s, shardImage[s])
      BY <2>1 DEF Inv, ImageInv
    <2> QED
      BY <2>1, <2>2, <2>3, <2>4, ZombieRemoved
  <1> QED
    BY <1>4, <1>5

(* Folding one report into the image (multiShard.update).                   *)
LEMMA ImageUpdated ==
    ASSUME Inv, NEW nhi, GoodReport(nhi), NEW image,
           image = UpdateShardImage(shardImage, nhi, tick)
    PROVE  /\ DOMAIN shardImage \subseteq DOMAIN image
           /\ DOMAIN image \subseteq ShardIds
           /\ \A s \in DOMAIN image : GoodShard(s, image[s])
           /\ \A s \in DOMAIN shardImage : image[s].ccid >= shardImage[s].ccid
  <1> DEFINE created == {s \in DOMAIN nhi.info : FullInfo(nhi.info[s])}
  <1>1. /\ DOMAIN image = DOMAIN shardImage \cup created
        /\ \A s \in DOMAIN image :
              image[s] = IF s \notin DOMAIN shardImage
                           THEN CreateShard(nhi.info[s], tick)
                         ELSE IF s \in DOMAIN nhi.info
                           THEN UpdateShard(shardImage[s], nhi.info[s], tick)
                         ELSE shardImage[s]
    BY DEF UpdateShardImage
  <1>2. /\ DOMAIN shardImage \subseteq ShardIds
        /\ GroupInv
        /\ \A s \in DOMAIN shardImage : GoodShard(s, shardImage[s])
    BY DEF Inv, ImageInv
  <1>3. \A s \in DOMAIN nhi.info :
           /\ s \in ShardIds
           /\ FullInfo(nhi.info[s]) => FullReport(s, nhi.info[s])
    BY DEF GoodReport, GoodInfo, FullReport
  <1>4. ASSUME NEW s \in DOMAIN shardImage
        PROVE  GoodShard(s, image[s]) /\ image[s].ccid >= shardImage[s].ccid
    <2>1. s \in DOMAIN image /\ s \in ShardIds
      BY <1>1, <1>2
    <2>2. CASE s \in DOMAIN nhi.info
      BY <1>1, <1>2, <1>3, <2>1, <2>2, UpdateShardGood
    <2>3. CASE s \notin DOMAIN nhi.info
      <3>1. shardImage[s].ccid \in Nat
        BY <1>2, <2>1, GroupFacts DEF GoodShard, GroupInv
      <3> QED
        BY <1>1, <1>2, <2>1, <2>3, <3>1
    <2> QED
      BY <2>2, <2>3
  <1>5. ASSUME NEW s \in created, s \notin DOMAIN shardImage
        PROVE  GoodShard(s, image[s])
    BY <1>1, <1>3, <1>5, CreateShardGood
  <1> QED
    BY <1>1, <1>2, <1>3, <1>4, <1>5

(* The NodeHosts after a report: those of the members of a shard count as   *)
(* hosting it (syncShardInfo).                                              *)
LEMMA HostsUpdated ==
    ASSUME Inv, NEW nhi, nhi.addr \in Hosts, NEW image, NEW hosts,
           hosts = SyncShardInfo(UpdateNodeHostImage(nodeHostImage, nhi, tick), image)
    PROVE  /\ DOMAIN hosts \subseteq Hosts
           /\ \A h \in DOMAIN hosts : DOMAIN hosts[h] = HostFields
           /\ \A s \in DOMAIN image : \A i \in DOMAIN image[s].replicas :
                 \A h \in DOMAIN hosts :
                    image[s].replicas[i].addr = h => s \in hosts[h].shards
  <1> DEFINE before == UpdateNodeHostImage(nodeHostImage, nhi, tick)
             extra(h) == {s \in DOMAIN image : \E i \in DOMAIN image[s].replicas :
                                                  image[s].replicas[i].addr = h}
  <1>1. /\ DOMAIN before = DOMAIN nodeHostImage \cup {nhi.addr}
        /\ \A h \in DOMAIN before : DOMAIN before[h] = HostFields
    <2>1. \A h \in DOMAIN nodeHostImage : DOMAIN nodeHostImage[h] = HostFields
      BY DEF Inv, HostsInv
    <2> QED
      BY <2>1 DEF UpdateNodeHostImage, HostFields
  <1>2. hosts = [h \in DOMAIN before |-> [before[h] EXCEPT !.shards = @ \cup extra(h)]]
    BY DEF SyncShardInfo
  <1> HIDE DEF before, extra
  <1>3. DOMAIN hosts = DOMAIN before
    BY <1>2
  <1>4. ASSUME NEW h \in DOMAIN before
        PROVE  DOMAIN hosts[h] = HostFields /\ extra(h) \subseteq hosts[h].shards
    <2>1. hosts[h] = [before[h] EXCEPT !.shards = @ \cup extra(h)]
      BY <1>2, <1>4
    <2>2. "shards" \in DOMAIN before[h] /\ DOMAIN before[h] = HostFields
      BY <1>1, <1>4 DEF HostFields
    <2> QED
      BY <2>1, <2>2
  <1>5. DOMAIN hosts \subseteq Hosts
    BY <1>1, <1>3 DEF Inv, HostsInv
  <1> QED
    BY <1>3, <1>4, <1>5 DEF extra

(* A report that is applied: no update panics, and the orders that waited   *)
(* for the NodeHost are put where it will look them up.                     *)
LEMMA ReportApplied ==
    ASSUME Inv, NEW nhi, GoodReport(nhi), ApplyNodeHostInfoUpdate(nhi), conf' = conf
    PROVE  /\ Grows /\ ConfType'
           /\ GroupInv' /\ WantedInv' /\ RequestsInv' /\ OutgoingInv'
           /\ ImageInv' /\ HostsInv'
           /\ \A h \in Hosts : GoodQueue(outgoing'[h])
  <1> DEFINE h == nhi.addr
  <1>1. h \in Hosts
    BY DEF GoodReport
  <1>2. ~ReportPanics(shardImage, nhi)
    <2>1. ASSUME NEW s \in DOMAIN nhi.info \cap DOMAIN shardImage,
                 FullInfo(nhi.info[s])
          PROVE  ~SyncShardPanics(shardImage[s], nhi.info[s])
      <3>1. FullReport(s, nhi.info[s]) /\ s \in ShardIds
        BY <2>1 DEF GoodReport, GoodInfo, FullReport
      <3>2. GoodShard(s, shardImage[s]) /\ GroupInv
        BY DEF Inv, ImageInv
      <3> QED
        BY <3>1, <3>2, SyncShardNeverPanics
    <2> QED
      BY <2>1, Zenon DEF ReportPanics
  <1>3. ~panicked'
    BY <1>2 DEF ApplyNodeHostInfoUpdate
  <1>4. /\ shardImage' = UpdateShardImage(shardImage, nhi, tick)
        /\ replicasToKill' = replicasToKill \cup Zombies(shardImage, nhi)
        /\ nodeHostImage' = SyncShardInfo(UpdateNodeHostImage(nodeHostImage, nhi, tick),
                                          shardImage')
        /\ outgoing' = [outgoing EXCEPT ![h] = requests[h]]
        /\ requests' = [requests EXCEPT ![h] = <<>>]
        /\ shards' = shards
    BY <1>3, Zenon DEF ApplyNodeHostInfoUpdate, HandOver
  <1>5. /\ DOMAIN shardImage \subseteq DOMAIN shardImage'
        /\ DOMAIN shardImage' \subseteq ShardIds
        /\ \A s \in DOMAIN shardImage' : GoodShard(s, shardImage'[s])
        /\ \A s \in DOMAIN shardImage : shardImage'[s].ccid >= shardImage[s].ccid
    BY <1>4, ImageUpdated
  <1>6. Grows /\ ConfType /\ ConfType'
    <2>1. ConfType
      BY DEF Inv, GroupInv
    <2>2. ASSUME NEW s \in DOMAIN shardImage, NEW c \in DOMAIN conf[s],
                 c <= shardImage[s].ccid
          PROVE  c <= shardImage'[s].ccid
      <3>1. s \in ShardIds /\ shardImage[s].ccid \in DOMAIN conf[s]
            /\ shardImage'[s].ccid \in DOMAIN conf[s]
        BY <1>5 DEF Inv, ImageInv, GoodShard
      <3>2. c \in Nat /\ shardImage[s].ccid \in Nat /\ shardImage'[s].ccid \in Nat
        BY <2>1, <3>1, GroupFacts
      <3> QED
        BY <1>5, <2>2, <3>2
    <2> QED
      BY <1>4, <1>5, <2>1, <2>2 DEF Grows, ConfType
  <1>7. GroupInv' /\ WantedInv'
    BY <1>4, <1>6, GroupStays, WantedStays
  <1>8. /\ DOMAIN requests' = Hosts /\ DOMAIN outgoing' = Hosts
        /\ \A g \in Hosts : GoodQueue(requests'[g]) /\ GoodQueue(outgoing'[g])
    BY <1>4, EmptyIsGood DEF Inv, RequestsInv, OutgoingInv
  <1>9. RequestsInv' /\ OutgoingInv'
    BY <1>6, <1>8, QueueStays DEF RequestsInv, OutgoingInv
  <1>10. ImageInv'
    <2>1. /\ IsFiniteSet(Zombies(shardImage, nhi))
          /\ \A k \in Zombies(shardImage, nhi) :
                k.shard \in ShardIds /\ Removed(k.shard, k.replica)
      BY ZombiesGood
    <2>2. IsFiniteSet(replicasToKill')
      BY <1>4, <2>1, FS_Union DEF Inv, ImageInv
    <2>3. \A k \in replicasToKill' : k.shard \in ShardIds /\ Removed(k.shard, k.replica)
      BY <1>4, <2>1 DEF Inv, ImageInv
    <2>4. \A k \in replicasToKill' : k.shard \in ShardIds /\ Removed(k.shard, k.replica)'
      BY <1>6, <2>3, RemovedStays
    <2>5. \A s \in DOMAIN shardImage' : GoodShard(s, shardImage[s])'
      BY <1>5, <1>6, ShardStays
    <2> QED
      BY <1>3, <1>5, <2>2, <2>4, <2>5 DEF ImageInv
  <1>11. HostsInv'
    BY <1>1, <1>4, HostsUpdated DEF HostsInv
  <1> QED
    BY <1>6, <1>7, <1>8, <1>9, <1>10, <1>11

(* What a NodeHost says of its shards is what their groups committed.       *)
LEMMA ReportOfGood ==
    ASSUME Inv, NEW h \in Hosts, NEW included
    PROVE  GoodReport(ReportOf(h, included))
  <1> DEFINE nhi == ReportOf(h, included)
  <1>1. /\ nhi.addr = h
        /\ DOMAIN nhi.info = {t \in ShardIds : replica[h][t] # NoReplica}
        /\ \A s \in DOMAIN nhi.info : nhi.info[s] = InfoOf(h, s)
    BY DEF ReportOf
  <1> HIDE DEF nhi
  <1>2. ASSUME NEW s \in ShardIds, replica[h][s] # NoReplica
        PROVE  GoodInfo(s, InfoOf(h, s))
    <2> DEFINE i == replica[h][s]
               c == applied[s][i]
               ci == InfoOf(h, s)
    <2>1. Known(s, i) /\ ConfType /\ NodesInv
      BY <1>2 DEF Inv, GroupInv, NodesInv
    <2>2. i \in ReplicaIds
      BY <2>1, KnownIsReplica
    <2>3. c \in Nat /\ c <= LastIndex(s)
      BY <2>1, <2>2 DEF NodesInv
    <2>4. /\ ci.replica = i
          /\ ci.ccid = c
          /\ ci.pending <=> c = 0
          /\ ~ci.incomplete /\ c # 0 => ci.replicas = conf[s][c]
      BY DEF InfoOf
    <2> HIDE DEF i, c, ci
    <2>5. c # 0 => c \in DOMAIN conf[s]
      BY <2>1, <2>3, GroupFacts
    <2>6. FullInfo(ci) => ci.ccid \in DOMAIN conf[s] /\ ci.replicas = conf[s][ci.ccid]
      BY <2>4, <2>5 DEF FullInfo
    <2>7. GoodInfo(s, ci)
      BY <2>1, <2>3, <2>4, <2>6 DEF GoodInfo
    <2> QED
      BY <2>7 DEF ci
  <1>3. \A s \in DOMAIN nhi.info : GoodInfo(s, nhi.info[s])
    BY <1>1, <1>2
  <1> QED
    BY <1>1, <1>3 DEF GoodReport, nhi

LEMMA ExchangeKeeps ==
    ASSUME Inv, NEW h \in Hosts, Exchange(h)
    PROVE  Inv'
  <1>1. PICK included \in PlogIncluded : ApplyNodeHostInfoUpdate(ReportOf(h, included))
    BY DEF Exchange
  <1>2. /\ UNCHANGED <<conf, applied, replica, changes, reports, batch>>
        /\ queue' = queue \/ queue' = [queue EXCEPT ![h] = Received(h, outgoing'[h])]
    BY Zenon DEF Exchange, wireVars, drummerVars
  <1>3. /\ Grows /\ ConfType'
        /\ GroupInv' /\ WantedInv' /\ RequestsInv' /\ OutgoingInv'
        /\ ImageInv' /\ HostsInv'
        /\ \A g \in Hosts : GoodQueue(outgoing'[g])
    BY <1>1, <1>2, ReportOfGood, ReportApplied
  <1>4. ChangesInv' /\ BatchInv' /\ NodesInv'
    BY <1>2, <1>3, ChangesStay, BatchStays, NodesStay
  <1>5. ReportsInv'
    BY <1>2, <1>3, ReportsStay DEF SameReport
  <1>6. QueuesInv'
    <2>1. CASE queue' = queue
      BY <1>3, <2>1, QueuesStay
    <2>2. CASE queue' = [queue EXCEPT ![h] = Received(h, outgoing'[h])]
      <3>1. PICK orders : orders = outgoing'[h]
        OBVIOUS
      <3>2. GoodQueue(orders) /\ queue' = [queue EXCEPT ![h] = Received(h, orders)]
        BY <1>3, <2>2, <3>1
      <3> QED
        BY <1>3, <3>2, QueuesReceived
    <2> QED
      BY <1>2, <2>1, <2>2
  <1> QED
    BY <1>3, <1>4, <1>5, <1>6 DEF Inv

LEMMA SendReportKeeps ==
    ASSUME Inv, NEW h \in Hosts, SendReport(h)
    PROVE  Inv'
  <1>1. /\ UNCHANGED <<conf, shards, shardImage, requests, outgoing, queue, changes,
                       batch, replicasToKill, panicked, nodeHostImage, replica, applied>>
        /\ \E included \in PlogIncluded :
              reports' = reports \cup {[nhi |-> ReportOf(h, included), awaited |-> TRUE]}
    BY Zenon DEF SendReport, dbVars, nodeVars, drummerVars
  <1>2. PICK included \in PlogIncluded :
           reports' = reports \cup {[nhi |-> ReportOf(h, included), awaited |-> TRUE]}
    BY <1>1
  <1>3. GoodReport(ReportOf(h, included))
    BY ReportOfGood
  <1>4. \A r \in reports' : "nhi" \in DOMAIN r /\ GoodReport(r.nhi)
    BY <1>2, <1>3 DEF Inv, ReportsInv
  <1>5. ReportsInv'
    BY <1>1, <1>4, SameGrows, ReportStays DEF ReportsInv
  <1> QED
    BY <1>1, <1>5, RestStays DEF Inv

LEMMA ApplyReportKeeps ==
    ASSUME Inv, NEW r \in reports, ApplyReport(r)
    PROVE  Inv'
  <1>1. /\ ApplyNodeHostInfoUpdate(r.nhi)
        /\ UNCHANGED <<conf, applied, replica, changes, queue, batch>>
        /\ reports' = reports \ {r}
    BY Zenon DEF ApplyReport, nodeVars, drummerVars
  <1>2. GoodReport(r.nhi)
    BY DEF Inv, ReportsInv
  <1>3. /\ Grows /\ ConfType'
        /\ GroupInv' /\ WantedInv' /\ RequestsInv' /\ OutgoingInv'
        /\ ImageInv' /\ HostsInv'
    BY <1>1, <1>2, ReportApplied
  <1>4. ChangesInv' /\ BatchInv' /\ NodesInv' /\ QueuesInv'
    BY <1>1, <1>3, ChangesStay, BatchStays, NodesStay, QueuesStay
  <1>5. ReportsInv'
    BY <1>1, <1>3, ReportsStay DEF SameReport
  <1> QED
    BY <1>3, <1>4, <1>5 DEF Inv

-----------------------------------------------------------------------------
(* A pass of the scheduler that maintains: restore, repair, kill.           *)

(* A set of orders in any one order is a queue of them.                     *)
LEMMA SetQueue ==
    ASSUME NEW S, IsFiniteSet(S)
    PROVE  Listed(SetToSeq(S)) /\ Elements(SetToSeq(S)) \subseteq S
  BY SetInOrder, ListedSeq

(* A set whose elements come from those of a finite set is finite.          *)
LEMMA FiniteImage ==
    ASSUME NEW A, IsFiniteSet(A), NEW f, NEW S, \A x \in S : \E a \in A : x = f[a]
    PROVE  IsFiniteSet(S)
  <1> DEFINE T == {a \in A : f[a] \in S}
             g == [a \in T |-> f[a]]
  <1>1. IsFiniteSet(T)
    BY FS_Subset
  <1>2. g \in Surjection(T, S)
    BY DEF Surjection
  <1> QED
    BY <1>1, <1>2, FS_Surjection

ContextFacts ==
    /\ Context.tick = tick
    /\ Context.shards = shards
    /\ Context.regions = RegionsLookup
    /\ Context.image = shardImage
    /\ Context.hosts = nodeHostImage
    /\ Context.toKill = replicasToKill

(* The context of a pass is what the DB holds at the time.                  *)
LEMMA ContextIsDB == ContextFacts
  BY DEF ContextFacts, Context, ToKillReplicas

(* A replica in the image is a member that the DB knows.                    *)
LEMMA ImageKnown ==
    ASSUME Inv, NEW s \in DOMAIN shardImage
    PROVE  /\ s \in ShardIds
           /\ s \in DOMAIN shards /\ s \in DOMAIN UserShards
           /\ shards[s] = UserShards[s]
           /\ shardImage[s].ccid \in DOMAIN conf[s]
           /\ DOMAIN shardImage[s].replicas = Ids(s, shardImage[s].ccid)
           /\ \A i \in DOMAIN shardImage[s].replicas :
                 /\ Known(s, i)
                 /\ i \in ReplicaIds
                 /\ shardImage[s].replicas[i].addr = conf[s][shardImage[s].ccid][i]
  <1> DEFINE c == shardImage[s].ccid
  <1>1. s \in ShardIds /\ GoodShard(s, shardImage[s])
    BY DEF Inv, ImageInv
  <1>2. c \in DOMAIN conf[s] /\ DOMAIN shardImage[s].replicas = Ids(s, c)
    BY <1>1 DEF GoodShard
  <1>3. c \in Nat /\ Ids(s, c) \subseteq ReplicaIds /\ LaunchedGroup(s)
    BY <1>1, <1>2, GroupFacts DEF Inv, GroupInv, LaunchedGroup
  <1>4. s \in DOMAIN shards /\ s \in DOMAIN UserShards /\ shards[s] = UserShards[s]
    BY <1>1, <1>3 DEF Inv, GroupInv, GoodGroup, WantedInv
  <1>5. \A i \in Ids(s, c) : Known(s, i) /\ shardImage[s].replicas[i].addr = conf[s][c][i]
    BY <1>1, <1>2, <1>3 DEF Known, GoodShard
  <1> QED
    BY <1>1, <1>2, <1>3, <1>4, <1>5

(* The replicas in the image: those that failed, those that are OK, and     *)
(* those that are awaited.                                                  *)
LEMMA ReplicaSets ==
    ASSUME NEW c, IsFiniteSet(DOMAIN c.replicas), NEW now
    PROVE  /\ Cardinality(FailedReplicas(c, now)) + Cardinality(OkReplicas(c, now)) \in Nat
           /\ Cardinality(FailedReplicas(c, now)) + Cardinality(OkReplicas(c, now))
                 <= Cardinality(DOMAIN c.replicas)
           /\ ReplicasToStart(c, now) = {} =>
                 Cardinality(FailedReplicas(c, now)) + Cardinality(OkReplicas(c, now))
                    = Cardinality(DOMAIN c.replicas)
  <1> DEFINE F == FailedReplicas(c, now)
             O == OkReplicas(c, now)
             W == ReplicasToStart(c, now)
             D == DOMAIN c.replicas
  <1>1. /\ F \subseteq D /\ O \subseteq D
        /\ F \cap O = {}
        /\ W = {} => F \cup O = D
    BY DEF FailedReplicas, OkReplicas, ReplicasToStart
  <1> HIDE DEF F, O, W, D
  <1>2. /\ IsFiniteSet(F) /\ IsFiniteSet(O) /\ F \cup O \in SUBSET D
        /\ Cardinality(F) \in Nat /\ Cardinality(O) \in Nat /\ Cardinality(D) \in Nat
    BY <1>1, FS_Subset, FS_CardinalityType DEF D
  <1>3. Cardinality(F \cup O) = Cardinality(F) + Cardinality(O)
    <2>1. Cardinality(F \cup O) = Cardinality(F) + Cardinality(O) - Cardinality(F \cap O)
      BY <1>2, FS_Union
    <2>2. Cardinality(F \cap O) = 0
      BY <1>1, FS_EmptySet
    <2> QED
      BY <1>2, <2>1, <2>2
  <1>4. Cardinality(F \cup O) <= Cardinality(D)
    BY <1>2, FS_Subset DEF D
  <1> QED
    BY <1>1, <1>2, <1>3, <1>4 DEF F, O, W, D

(* The orders to start the replicas whose NodeHost came back.               *)
LEMMA RestoreOrdersGood ==
    ASSUME Inv, NEW s \in DOMAIN shardImage, NEW r \in RestoreOrders(Context, s)
    PROVE  /\ GoodOrder(r) /\ ~IsLaunchRequest(r)
           /\ \E i \in ReplicaIds : r = RestoreOrder(s, i, shardImage[s].replicas[i].addr)
  <1>1. PICK i \in CanBeRestored(s, shardImage[s], nodeHostImage, tick) :
           r = RestoreOrder(s, i, shardImage[s].replicas[i].addr)
    BY ContextIsDB DEF ContextFacts, RestoreOrders
  <1>2. i \in DOMAIN shardImage[s].replicas
    BY <1>1 DEF CanBeRestored, FailedReplicas
  <1>3. i \in ReplicaIds /\ Known(s, i) /\ s \in ShardIds
    BY <1>2, ImageKnown
  <1>4. /\ r.type = "CREATE" /\ r.restore /\ r.shard = s /\ r.replica = i
    BY <1>1 DEF RestoreOrder
  <1> QED
    BY <1>1, <1>3, <1>4 DEF GoodOrder, GoodStart, IsLaunchRequest

(* The order that repairs a shard: one more member for a group of the size  *)
(* its user wants, one less for a larger one, or a member to start.         *)
LEMMA RepairOrderGood ==
    ASSUME Inv, NEW s \in InRepair(Context), NEW newId \in NewReplicaIds,
           NEW r \in RepairChoices(Context, s, newId)
    PROVE  GoodOrder(r) /\ ~IsLaunchRequest(r)
  <1> DEFINE c == shardImage[s]
             n == Cardinality(DOMAIN c.replicas)
             F == FailedReplicas(c, tick)
             O == OkReplicas(c, tick)
  <1>1. s \in DOMAIN shardImage
    BY ContextIsDB DEF ContextFacts, InRepair, ToRepair
  <1>2. /\ s \in ShardIds
        /\ Len(shards[s]) = WantedSize(s) /\ WantedSize(s) \in Nat
        /\ c.ccid \in DOMAIN conf[s]
        /\ DOMAIN c.replicas = Ids(s, c.ccid)
        /\ \A i \in DOMAIN c.replicas : /\ Known(s, i)
                                        /\ c.replicas[i].addr = conf[s][c.ccid][i]
    BY <1>1, ImageKnown, UserMembers DEF WantedSize
  <1>3. /\ IsFiniteSet(DOMAIN c.replicas)
        /\ n \in {WantedSize(s), WantedSize(s) + 1}
    BY <1>2, GroupFacts DEF Inv, GroupInv, GoodGroup
  <1>4. /\ Cardinality(F) + Cardinality(O) \in Nat
        /\ Cardinality(F) + Cardinality(O) <= n
        /\ ReplicasToStart(c, tick) = {} => Cardinality(F) + Cardinality(O) = n
    BY <1>3, ReplicaSets
  <1>5. CASE NeedsDelete(Context, s)
    <2>1. PICK i \in F, h \in Helpers(Context, s) : r = DeleteOrder(s, i, c.ccid, h)
      BY <1>5, ContextIsDB DEF ContextFacts, RepairChoices
    <2>2. /\ r.type = "DELETE" /\ r.shard = s /\ r.replica = i /\ r.ccid = c.ccid
      BY <2>1 DEF DeleteOrder
    <2>3. Cardinality(F) + Cardinality(O) > WantedSize(s)
      BY <1>2, <1>5, ContextIsDB DEF ContextFacts, NeedsDelete, DeleteRequired
    <2>4. n = WantedSize(s) + 1
      BY <1>2, <1>3, <1>4, <2>3
    <2>5. i \in DOMAIN c.replicas
      BY <2>1 DEF FailedReplicas
    <2>6. GoodDelete(r)
      BY <1>2, <2>2, <2>4, <2>5 DEF GoodDelete
    <2> QED
      BY <2>2, <2>6 DEF GoodOrder, IsLaunchRequest
  <1>6. CASE ~NeedsDelete(Context, s) /\ NeedsCreate(Context, s)
    <2>1. PICK i \in ReplicasToStart(c, tick) : r = JoinOrder(s, i, c.replicas[i].addr)
      BY <1>6, ContextIsDB DEF ContextFacts, RepairChoices
    <2>2. /\ r.type = "CREATE" /\ r.join /\ r.shard = s /\ r.replica = i
      BY <2>1 DEF JoinOrder
    <2>3. i \in DOMAIN c.replicas
      BY <2>1 DEF ReplicasToStart
    <2> QED
      BY <1>2, <2>2, <2>3 DEF GoodOrder, GoodStart, IsLaunchRequest
  <1>7. CASE ~NeedsDelete(Context, s) /\ ~NeedsCreate(Context, s)
    <2>1. NeedsAdd(Context, s)
      BY <1>7 DEF InRepair
    <2>2. AddRequired(c, tick)
      BY <2>1, ContextIsDB DEF ContextFacts, NeedsAdd
    <2>3. ~(Cardinality(F) + Cardinality(O) > WantedSize(s))
      BY <1>2, <1>7, <2>2, ContextIsDB
         DEF ContextFacts, NeedsDelete, DeleteRequired, AddRequired
    <2>4. n = WantedSize(s)
      BY <1>2, <1>3, <1>4, <2>2, <2>3 DEF AddRequired
    <2>5. PICK i \in F :
             \E addr \in ReplacementHosts(Context, s, i), h \in Helpers(Context, s) :
                r = AddOrder(s, newId, addr, c.ccid, h)
      BY <1>7, ContextIsDB DEF ContextFacts, RepairChoices
    <2>12. PICK addr \in ReplacementHosts(Context, s, i), h \in Helpers(Context, s) :
             r = AddOrder(s, newId, addr, c.ccid, h)
      BY <2>5
    <2>6. /\ r.type = "ADD" /\ r.shard = s /\ r.replica = newId /\ r.addr = addr
          /\ r.ccid = c.ccid
      BY <2>12 DEF AddOrder
    <2>7. addr \in Suitable(Context, s)
      BY <2>12 DEF ReplacementHosts, SuitableIn
    <2>8. /\ addr \in DOMAIN nodeHostImage /\ addr \in Hosts
          /\ s \notin nodeHostImage[addr].shards
      BY <2>7, ContextIsDB DEF ContextFacts, Suitable, Inv, HostsInv
    <2>9. \A j \in DOMAIN c.replicas : c.replicas[j].addr # addr
      BY <1>1, <2>8 DEF Inv, HostsInv
    <2>10. newId \in ReplicaIds /\ \A d \in DOMAIN conf[s] : newId \notin Ids(s, d)
      BY <1>2 DEF NewReplicaIds, Ids
    <2>11. GoodAdd(r)
      BY <1>2, <2>4, <2>6, <2>8, <2>9, <2>10 DEF GoodAdd
    <2> QED
      BY <2>6, <2>11 DEF GoodOrder, IsLaunchRequest
  <1> QED
    BY <1>5, <1>6, <1>7

(* Orders none of which launches a shard.                                   *)
Upkeep(q) == GoodQueue(q) /\ \A r \in Elements(q) : ~IsLaunchRequest(r)

LEMMA UpkeepOfSet ==
    ASSUME NEW S, IsFiniteSet(S), \A r \in S : GoodOrder(r) /\ ~IsLaunchRequest(r)
    PROVE  Upkeep(SetToSeq(S))
  BY SetQueue DEF Upkeep, GoodQueue

LEMMA UpkeepJoined ==
    ASSUME NEW p, Upkeep(p), NEW q, Upkeep(q)
    PROVE  Upkeep(p \o q)
  BY JoinedQueues DEF Upkeep, GoodQueue

LEMMA UpkeepIsNotMixed ==
    ASSUME NEW q, Upkeep(q)
    PROVE  GoodQueue(q) /\ ~MixedRequests(q)
  BY DEF Upkeep, MixedRequests, IsLaunchRequests, Elements

(* The orders to kill are for replicas that were removed.                   *)
LEMMA KillOrdersGood ==
    ASSUME Inv
    PROVE  Upkeep(SetToSeq({KillOrder(k) : k \in replicasToKill}))
  <1> DEFINE S == {KillOrder(k) : k \in replicasToKill}
             f == [k \in replicasToKill |-> KillOrder(k)]
  <1>1. IsFiniteSet(S)
    <2>1. IsFiniteSet(replicasToKill)
      BY DEF Inv, ImageInv
    <2>2. \A r \in S : \E k \in replicasToKill : r = f[k]
      OBVIOUS
    <2> HIDE DEF S, f
    <2> QED
      BY <2>1, <2>2, FiniteImage
  <1>2. ASSUME NEW k \in replicasToKill
        PROVE  GoodOrder(KillOrder(k)) /\ ~IsLaunchRequest(KillOrder(k))
    <2>1. k.shard \in ShardIds /\ Removed(k.shard, k.replica)
      BY DEF Inv, ImageInv
    <2>2. /\ KillOrder(k).type = "KILL"
          /\ KillOrder(k).shard = k.shard
          /\ KillOrder(k).replica = k.replica
      BY DEF KillOrder
    <2>3. GoodKill(KillOrder(k))
      BY <2>1, <2>2 DEF GoodKill
    <2> QED
      BY <2>2, <2>3 DEF GoodOrder, IsLaunchRequest
  <1>3. \A r \in S : GoodOrder(r) /\ ~IsLaunchRequest(r)
    BY <1>2
  <1> HIDE DEF S
  <1>4. Upkeep(SetToSeq(S))
    BY <1>1, <1>3, UpkeepOfSet
  <1> QED
    BY <1>4 DEF S

(* The orders to restore, for all shards that need repair.                  *)
LEMMA AllRestoreOrdersGood ==
    ASSUME Inv
    PROVE  Upkeep(SetToSeq(UNION {RestoreOrders(Context, s) : s \in ToRepair(Context)}))
  <1> DEFINE S == UNION {RestoreOrders(Context, s) : s \in ToRepair(Context)}
             A == ShardIds \X ReplicaIds
             f == [p \in A |-> RestoreOrder(p[1], p[2], shardImage[p[1]].replicas[p[2]].addr)]
  <1>1. ASSUME NEW r, r \in S
        PROVE  GoodOrder(r) /\ ~IsLaunchRequest(r) /\ \E p \in A : r = f[p]
    <2>1. PICK s \in ToRepair(Context) : r \in RestoreOrders(Context, s)
      BY <1>1
    <2>2. s \in DOMAIN shardImage
      BY <2>1, ContextIsDB DEF ContextFacts, ToRepair
    <2>3. /\ GoodOrder(r) /\ ~IsLaunchRequest(r)
          /\ \E i \in ReplicaIds : r = RestoreOrder(s, i, shardImage[s].replicas[i].addr)
      BY <2>1, <2>2, RestoreOrdersGood
    <2>4. PICK i \in ReplicaIds : r = RestoreOrder(s, i, shardImage[s].replicas[i].addr)
      BY <2>3
    <2>5. s \in ShardIds
      BY <2>2, ImageKnown
    <2>6. <<s, i>> \in A /\ r = f[<<s, i>>]
      BY <2>4, <2>5
    <2> QED
      BY <2>3, <2>6
  <1>2. IsFiniteSet(A)
    BY UsersAssumption, DrummerDBAssumption, FS_Product
  <1> HIDE DEF S, A, f
  <1>3. IsFiniteSet(S)
    BY <1>1, <1>2, FiniteImage
  <1>4. Upkeep(SetToSeq(S))
    BY <1>1, <1>3, UpkeepOfSet
  <1> QED
    BY <1>4 DEF S

(* What a pass of the scheduler orders for shards that run (maintainShards). *)
LEMMA MaintainGood ==
    ASSUME Inv, NEW newId \in NewReplicaIds, NEW reqs \in MaintainChoices(Context, newId)
    PROVE  Upkeep(reqs) /\ ~MixedRequests(reqs)
  <1> DEFINE restore == UNION {RestoreOrders(Context, s) : s \in ToRepair(Context)}
             kill == {KillOrder(k) : k \in Context.toKill}
             R == InRepair(Context)
             All == UNION {RepairChoices(Context, s, newId) : s \in R}
             repair(f) == {f[s] : s \in DOMAIN f}
  <1>1. \E f \in [R -> All] :
           /\ \A s \in R : f[s] \in RepairChoices(Context, s, newId)
           /\ reqs = SetToSeq(restore) \o SetToSeq(repair(f)) \o SetToSeq(kill)
    BY DEF MaintainChoices
  <1>2. PICK f \in [R -> All] :
           /\ \A s \in R : f[s] \in RepairChoices(Context, s, newId)
           /\ reqs = SetToSeq(restore) \o SetToSeq(repair(f)) \o SetToSeq(kill)
    BY <1>1
  <1>3. IsFiniteSet(R)
    <2>1. R \subseteq ShardIds
      <3>1. R \subseteq DOMAIN shardImage
        BY ContextIsDB DEF ContextFacts, InRepair, ToRepair
      <3> QED
        BY <3>1, ImageKnown
    <2> QED
      BY <2>1, UsersAssumption, FS_Subset
  <1>4. DOMAIN f = R
    OBVIOUS
  <1> HIDE DEF R, All
  <1>5. IsFiniteSet(repair(f))
    <2> DEFINE S == repair(f)
    <2>1. \A x \in S : \E s \in R : x = f[s]
      BY <1>4
    <2> HIDE DEF S
    <2>2. IsFiniteSet(S)
      BY <1>3, <2>1, FiniteImage
    <2> QED
      BY <2>2 DEF S
  <1>6. \A r \in repair(f) : GoodOrder(r) /\ ~IsLaunchRequest(r)
    BY <1>2, <1>4, RepairOrderGood DEF R
  <1>7. Upkeep(SetToSeq(repair(f)))
    <2> HIDE DEF repair
    <2> QED
      BY <1>5, <1>6, UpkeepOfSet
  <1>8. Upkeep(SetToSeq(restore))
    BY AllRestoreOrdersGood
  <1>9. Upkeep(SetToSeq(kill))
    BY KillOrdersGood, ContextIsDB DEF ContextFacts
  <1> HIDE DEF restore, kill, repair
  <1>10. Upkeep(reqs)
    BY <1>2, <1>7, <1>8, <1>9, UpkeepJoined
  <1> QED
    BY <1>10, UpkeepIsNotMixed

-----------------------------------------------------------------------------
(* A pass of the scheduler that launches.                                   *)

(* The regions are set once and for all.                                    *)
RegionsInv ==
    RegionsKey \in DOMAIN kvMap =>
        kvMap[RegionsKey].finalized /\ kvMap[RegionsKey].value = UserRegions

(* The counts of the regions add up, one after the other.                   *)
LEMMA RegionsAddUp ==
    /\ Len(UserRegions) \in Nat \ {0}
    /\ DOMAIN UserRegions = 1..Len(UserRegions)
    /\ RegionTotal[0] = 0
    /\ \A k \in 1..Len(UserRegions) :
          /\ UserRegions[k].count \in Nat
          /\ RegionTotal[k] = RegionTotal[k - 1] + UserRegions[k].count
    /\ \A k \in 0..Len(UserRegions) : RegionTotal[k] \in Nat
  <1> DEFINE n == Len(UserRegions)
             count(k) == UserRegions[k].count
             def(f) == [k \in 0..n |-> IF k = 0 THEN 0 ELSE f[k - 1] + count(k)]
             total == CHOOSE f : f = def(f)
             step == [p \in Nat \X Nat |-> IF p[1] + 1 \in 1..n THEN p[2] + count(p[1] + 1) ELSE p[2]]
  <1>1. n \in Nat \ {0} /\ DOMAIN UserRegions = 1..n
    BY UsersAssumption
  <1>2. \A k \in 1..n : count(k) \in Nat
    <2> DEFINE R == {UserRegions[k].region : k \in DOMAIN UserRegions}
    <2> DEFINE S == [region : R, count : Nat]
    <2>1. UserRegions \in Seq(S)
      BY UsersAssumption, Zenon
    <2> HIDE DEF S
    <2>2. \A k \in 1..n : UserRegions[k] \in S
      BY <1>1, <2>1
    <2> QED
      BY <2>2 DEF S
  <1> HIDE DEF count
  <1>3. PICK g \in [Nat -> Nat] : g[0] = 0 /\ \A k \in Nat : g[k + 1] = step[<<k, g[k]>>]
    <2>1. StaysIn(Nat, step)
      BY <1>2 DEF StaysIn
    <2> HIDE DEF step
    <2>2. \E g \in [Nat -> Nat] : Iterates(g, 0, step)
      BY <2>1, Recursion
    <2> QED
      BY <2>2, Zenon DEF Iterates
  <1> DEFINE h == [k \in 0..n |-> g[k]]
  <1>4. h = def(h)
    <2>1. ASSUME NEW k \in 0..n PROVE h[k] = IF k = 0 THEN 0 ELSE h[k - 1] + count(k)
      <3>1. CASE k = 0
        BY <1>1, <1>3, <3>1
      <3>2. CASE k # 0
        <4>1. k - 1 \in Nat /\ (k - 1) + 1 = k /\ k \in 1..n /\ k - 1 \in 0..n
          BY <1>1, <3>2
        <4>2. g[k] = step[<<k - 1, g[k - 1]>>]
          BY <4>1, <1>3
        <4>3. step[<<k - 1, g[k - 1]>>] = g[k - 1] + count(k)
          BY <4>1
        <4> QED
          BY <3>2, <4>1, <4>2, <4>3
      <3> QED
        BY <3>1, <3>2
    <2>2. h = [k \in 0..n |-> h[k]]
      OBVIOUS
    <2> HIDE DEF h
    <2> QED
      BY <2>1, <2>2
  <1>5. total = def(total)
    <2> HIDE DEF def, h
    <2> QED
      BY <1>4
  <1>6. RegionTotal = total
    BY DEF RegionTotal, count
  <1> HIDE DEF total
  <1>7. \A k \in 0..n : total[k] = IF k = 0 THEN 0 ELSE total[k - 1] + count(k)
    BY <1>5, Zenon
  <1>8. total[0] = 0 /\ \A k \in 1..n : total[k] = total[k - 1] + count(k)
    BY <1>1, <1>7
  <1>9. \A k \in 0..n : total[k] \in Nat
    <2> DEFINE S == {k \in Nat : k <= n => total[k] \in Nat}
    <2>1. 0 \in S
      BY <1>8
    <2>2. ASSUME NEW k \in Nat, k \in S PROVE k + 1 \in S
      <3>1. CASE k + 1 <= n
        <4>1. k + 1 \in 1..n /\ (k + 1) - 1 = k /\ k <= n
          BY <1>1, <3>1
        <4>2. total[k + 1] = total[k] + count(k + 1)
          BY <1>8, <4>1
        <4>3. total[k] \in Nat
          BY <2>2, <4>1
        <4>4. count(k + 1) \in Nat
          BY <1>2, <4>1
        <4>5. total[k + 1] \in Nat
          BY <4>2, <4>3, <4>4
        <4> QED
          BY <4>5
      <3> QED
        BY <3>1
    <2>3. Nat \subseteq S
      <3> HIDE DEF S
      <3> QED
        BY <2>1, <2>2, NumberInduction
    <2> QED
      BY <2>3
  <1> QED
    BY <1>1, <1>2, <1>6, <1>8, <1>9, Zenon DEF count

(* A selection: hosts of the region, each once, no more than were asked for. *)
LEMMA SelectionGood ==
    ASSUME NEW C, NEW count \in Nat, NEW g \in Selections(C, count)
    PROVE  /\ g \in Seq(C)
           /\ Len(g) \in Nat /\ Len(g) <= count
           /\ IsInjective(g)
  <1>1. CASE g = <<>>
    BY <1>1 DEF IsInjective
  <1>2. CASE g \in [1..count -> C] /\ \A i, j \in 1..count : i # j => g[i] # g[j]
    BY <1>2 DEF IsInjective
  <1> QED
    BY <1>1, <1>2 DEF Selections

(* Two lists that have nothing in common and no element twice.              *)
LEMMA JoinedInjective ==
    ASSUME NEW T, NEW p \in Seq(T), NEW q \in Seq(T), IsInjective(p), IsInjective(q),
           \A j \in DOMAIN p, k \in DOMAIN q : p[j] # q[k]
    PROVE  IsInjective(p \o q)
  <1>1. /\ Len(p) \in Nat /\ DOMAIN p = 1..Len(p)
        /\ Len(q) \in Nat /\ DOMAIN q = 1..Len(q)
        /\ DOMAIN (p \o q) = 1..(Len(p) + Len(q))
    OBVIOUS
  <1>2. ASSUME NEW k \in 1..(Len(p) + Len(q))
        PROVE  IF k <= Len(p) THEN k \in DOMAIN p /\ (p \o q)[k] = p[k]
               ELSE k - Len(p) \in DOMAIN q /\ (p \o q)[k] = q[k - Len(p)]
    BY <1>1
  <1>3. ASSUME NEW j \in 1..(Len(p) + Len(q)), NEW k \in 1..(Len(p) + Len(q)),
               (p \o q)[j] = (p \o q)[k]
        PROVE  j = k
    <2>1. CASE j <= Len(p) /\ k <= Len(p)
      BY <1>2, <1>3, <2>1 DEF IsInjective
    <2>2. CASE j <= Len(p) /\ ~(k <= Len(p))
      BY <1>2, <1>3, <2>2
    <2>3. CASE ~(j <= Len(p)) /\ k <= Len(p)
      BY <1>2, <1>3, <2>3
    <2>4. CASE ~(j <= Len(p)) /\ ~(k <= Len(p))
      <3>1. j - Len(p) = k - Len(p)
        BY <1>2, <1>3, <2>4 DEF IsInjective
      <3> QED
        BY <1>1, <3>1
    <2> QED
      BY <2>1, <2>2, <2>3, <2>4
  <1> QED
    BY <1>1, <1>3 DEF IsInjective

(* Where the first members of a shard are placed: on distinct NodeHosts     *)
(* without the shard, at most as many as the regions ask for.               *)
LEMMA PlacementGood ==
    ASSUME Context.regions = UserRegions, NEW s, NEW sel \in Placements(Context, s)
    PROVE  /\ sel \in Seq(Suitable(Context, s))
           /\ IsInjective(sel)
           /\ Len(sel) <= RegionTotal[Len(UserRegions)]
  <1> DEFINE n == Len(UserRegions)
             T == Suitable(Context, s)
             C(k) == SuitableIn(Context, s, UserRegions[k].region)
             area(h) == Context.hosts[h].region
             total(k) == RegionTotal[k]
             count(k) == UserRegions[k].count
  <1>1. /\ n \in Nat \ {0} /\ DOMAIN UserRegions = 1..n
        /\ total(0) = 0
        /\ \A k \in 1..n : count(k) \in Nat /\ total(k) = total(k - 1) + count(k)
        /\ \A k \in 0..n : total(k) \in Nat
    BY RegionsAddUp, Zenon
  <1>2. \E g : /\ DOMAIN g = DOMAIN UserRegions
               /\ g = [k \in DOMAIN UserRegions |-> g[k]]
               /\ \A k \in DOMAIN UserRegions : g[k] \in Selections(C(k), count(k))
               /\ sel = FlattenSeq(g)
    BY DEF Placements
  <1>3. PICK g : /\ g = [k \in 1..n |-> g[k]]
                 /\ \A k \in 1..n : g[k] \in Selections(C(k), count(k))
                 /\ sel = FlattenSeq(g)
    BY <1>1, <1>2
  <1>4. \A k \in 1..n : C(k) \subseteq T /\ \A h \in C(k) : area(h) = UserRegions[k].region
    BY DEF SuitableIn
  <1>5. \A j, k \in 1..n : UserRegions[j].region = UserRegions[k].region => j = k
    BY <1>1, UsersAssumption
  <1> HIDE DEF n, T, C, area, total, count
  <1>6. ASSUME NEW k \in 1..n
        PROVE  /\ g[k] \in Seq(T) /\ g[k] \in Seq(C(k))
               /\ Len(g[k]) \in Nat /\ Len(g[k]) <= count(k)
               /\ IsInjective(g[k])
               /\ \A x \in DOMAIN g[k] : area(g[k][x]) = UserRegions[k].region
    <2>1. /\ g[k] \in Seq(C(k))
          /\ Len(g[k]) \in Nat /\ Len(g[k]) <= count(k)
          /\ IsInjective(g[k])
      <3>1. count(k) \in Nat /\ g[k] \in Selections(C(k), count(k))
        BY <1>1, <1>3
      <3> QED
        BY <3>1, SelectionGood
    <2>2. g[k] \in Seq(T)
      BY <1>4, <2>1, SeqMonotonic
    <2>3. \A x \in DOMAIN g[k] : g[k][x] \in C(k)
      BY <2>1
    <2> QED
      BY <1>4, <2>1, <2>2, <2>3
  <1>7. g \in Seq(Seq(T)) /\ Len(g) = n /\ g # <<>>
    <2> DEFINE U == Seq(T)
    <2>1. \A k \in 1..n : g[k] \in U
      BY <1>6
    <2> HIDE DEF U
    <2>2. g \in Seq(U)
      BY <1>1, <1>3, <2>1, IsSeq
    <2>3. DOMAIN g = 1..n
      BY <1>3
    <2>4. Len(g) = n /\ g # <<>>
      BY <1>1, <2>2, <2>3
    <2> QED
      BY <2>2, <2>4 DEF U
  <1>8. PICK f \in [1..n -> Seq(T)] :
           /\ f[1] = g[1]
           /\ \A i \in 2..n : f[i] = f[i - 1] \o g[i]
           /\ sel = f[n]
    BY <1>3, <1>7, Joining
  <1> DEFINE Fits(k) == /\ f[k] \in Seq(T)
                        /\ Len(f[k]) <= total(k)
                        /\ IsInjective(f[k])
                        /\ \A x \in DOMAIN f[k] : \E j \in 1..k :
                              area(f[k][x]) = UserRegions[j].region
             S == {k \in 1..n : Fits(k)}
  <1>9. 1 \in S
    <2>1. 1 \in 1..n /\ total(1) = count(1)
      <3>1. 1 \in 1..n /\ 1 - 1 = 0
        BY <1>1
      <3>2. total(1) = total(0) + count(1) /\ count(1) \in Nat
        BY <1>1, <3>1
      <3> QED
        BY <1>1, <3>1, <3>2
    <2>2. 1 \in 1..1
      OBVIOUS
    <2>3. /\ f[1] \in Seq(T)
          /\ Len(f[1]) <= total(1)
          /\ IsInjective(f[1])
          /\ \A x \in DOMAIN f[1] : area(f[1][x]) = UserRegions[1].region
      BY <1>6, <1>8, <2>1
    <2>4. Fits(1)
      BY <2>2, <2>3
    <2> HIDE DEF Fits
    <2> QED
      BY <2>1, <2>4
  <1>10. ASSUME NEW k \in 1..n, k \in S, k < n PROVE k + 1 \in S
    <2>1. k + 1 \in 2..n /\ k + 1 \in 1..n /\ (k + 1) - 1 = k /\ k \in 0..n
      BY <1>1, <1>10
    <2>2. /\ f[k] \in Seq(T) /\ Len(f[k]) <= total(k) /\ IsInjective(f[k])
          /\ \A x \in DOMAIN f[k] : \E j \in 1..k : area(f[k][x]) = UserRegions[j].region
      BY <1>10
    <2> DEFINE p == f[k]
               q == g[k + 1]
    <2>3. f[k + 1] = p \o q
      BY <1>8, <2>1
    <2>4. /\ q \in Seq(T) /\ Len(q) \in Nat /\ Len(q) <= count(k + 1)
          /\ IsInjective(q)
          /\ \A x \in DOMAIN q : area(q[x]) = UserRegions[k + 1].region
      BY <1>6, <2>1
    <2>5. total(k + 1) = total(k) + count(k + 1) /\ total(k) \in Nat /\ count(k + 1) \in Nat
      <3>1. total(k + 1) = total((k + 1) - 1) + count(k + 1) /\ count(k + 1) \in Nat
        BY <1>1, <2>1
      <3> QED
        BY <1>1, <2>1, <3>1
    <2> HIDE DEF p, q
    <2>6. p \in Seq(T) /\ Len(p) <= total(k) /\ IsInjective(p)
      BY <2>2 DEF p
    <2>7. \A x \in DOMAIN p : \E j \in 1..k : area(p[x]) = UserRegions[j].region
      BY <2>2 DEF p
    <2>8. \A x \in DOMAIN p, y \in DOMAIN q : p[x] # q[y]
      <3> SUFFICES ASSUME NEW x \in DOMAIN p, NEW y \in DOMAIN q, p[x] = q[y] PROVE FALSE
        OBVIOUS
      <3>1. PICK j \in 1..k : area(p[x]) = UserRegions[j].region
        BY <2>7
      <3>2. UserRegions[j].region = UserRegions[k + 1].region
        BY <2>4, <3>1
      <3>3. j \in 1..n /\ j # k + 1
        BY <1>1, <1>10, <2>1
      <3> QED
        BY <1>5, <2>1, <3>2, <3>3
    <2>9. IsInjective(p \o q)
      BY <2>4, <2>6, <2>8, JoinedInjective
    <2>10. p \o q \in Seq(T) /\ Len(p \o q) = Len(p) + Len(q) /\ Len(p) \in Nat
      BY <2>4, <2>6
    <2>11. Len(p \o q) <= total(k + 1)
      BY <2>4, <2>5, <2>6, <2>10
    <2>12. ASSUME NEW x \in DOMAIN (p \o q)
           PROVE  \E j \in 1..(k + 1) : area((p \o q)[x]) = UserRegions[j].region
      <3>1. x \in 1..(Len(p) + Len(q)) /\ DOMAIN p = 1..Len(p) /\ DOMAIN q = 1..Len(q)
        BY <2>4, <2>6
      <3>2. CASE x <= Len(p)
        <4>1. x \in DOMAIN p /\ (p \o q)[x] = p[x]
          BY <2>4, <2>6, <3>1, <3>2
        <4>2. PICK j \in 1..k : area(p[x]) = UserRegions[j].region
          BY <2>7, <4>1
        <4>3. j \in 1..(k + 1)
          OBVIOUS
        <4> QED
          BY <4>1, <4>2, <4>3
      <3>3. CASE ~(x <= Len(p))
        <4>1. x - Len(p) \in DOMAIN q /\ (p \o q)[x] = q[x - Len(p)]
          BY <2>4, <2>6, <2>10, <3>1, <3>3
        <4>2. k + 1 \in 1..(k + 1)
          OBVIOUS
        <4> QED
          BY <2>4, <4>1, <4>2
      <3> QED
        BY <3>2, <3>3
    <2>13. Fits(k + 1)
      BY <2>3, <2>9, <2>10, <2>11, <2>12
    <2> HIDE DEF Fits
    <2> QED
      BY <2>1, <2>13
  <1>11. Fits(n)
    <2>1. n \in 1..n /\ n \in Nat
      BY <1>1
    <2>2. 1..n \subseteq S
      <3> HIDE DEF S
      <3> QED
        BY <1>9, <1>10, <2>1, BoundedInduction
    <2> HIDE DEF Fits
    <2> QED
      BY <2>1, <2>2
  <1> QED
    BY <1>8, <1>11, Zenon DEF T, n, total

(* The members of a shard, each on the NodeHost selected for it.            *)
PeersOn(s, selected) ==
    [i \in ToSet(UserShards[s]) |->
        selected[CHOOSE k \in DOMAIN UserShards[s] : UserShards[s][k] = i]]

LEMMA PeersGood ==
    ASSUME NEW s \in DOMAIN UserShards, NEW T, NEW sel \in Seq(T), IsInjective(sel),
           Len(sel) >= Len(UserShards[s])
    PROVE  /\ PeersOn(s, sel) \in [ToSet(UserShards[s]) -> T]
           /\ Distinct(PeersOn(s, sel))
  <1> DEFINE q == UserShards[s]
             at(i) == CHOOSE k \in DOMAIN q : q[k] = i
  <1>1. DOMAIN q = 1..Len(q) /\ Len(q) \in Nat
    BY UserMembers, UsersAssumption
  <1>2. \A i \in ToSet(q) : at(i) \in DOMAIN q /\ q[at(i)] = i
    BY DEF ToSet
  <1>3. PeersOn(s, sel) = [i \in ToSet(q) |-> sel[at(i)]]
    BY DEF PeersOn
  <1>4. Len(sel) >= Len(q)
    OBVIOUS
  <1> HIDE DEF q, at
  <1>5. \A i \in ToSet(q) : at(i) \in DOMAIN sel /\ sel[at(i)] \in T
    BY <1>1, <1>2, <1>4
  <1>6. PeersOn(s, sel) \in [ToSet(q) -> T]
    BY <1>3, <1>5
  <1>7. ASSUME NEW i \in ToSet(q), NEW j \in ToSet(q), sel[at(i)] = sel[at(j)]
        PROVE  i = j
    <2>1. at(i) = at(j)
      BY <1>5, <1>7 DEF IsInjective
    <2> QED
      BY <1>2, <2>1
  <1>8. Distinct(PeersOn(s, sel))
    BY <1>3, <1>7 DEF Distinct
  <1> QED
    BY <1>6, <1>8 DEF q

(* The orders of a launch come from one plan, and no two are the same.      *)
OnePlan(reqs, plan) ==
    \A r \in Elements(reqs) : r = LaunchOrder(r.shard, r.replica, plan[r.shard])

NoRepetition(reqs) == \A j, k \in DOMAIN reqs : reqs[j] = reqs[k] => j = k

(* The scheduler reads the regions that the user set, or none.              *)
LEMMA RegionsRead ==
    ASSUME RegionsInv, Context.regions # <<>>
    PROVE  Context.regions = UserRegions
  BY ContextIsDB DEF ContextFacts, RegionsInv, RegionsLookup

LEMMA LaunchGood ==
    ASSUME Inv, RegionsInv, ~LaunchFails(Context), ~LaunchPanics(Context),
           NEW reqs \in LaunchChoices(Context)
    PROVE  /\ Listed(reqs)
           /\ \A r \in Elements(reqs) : GoodLaunch(r)
           /\ \E plan : OnePlan(reqs, plan)
           /\ NoRepetition(reqs)
  <1> DEFINE D == DOMAIN shards
             orders(g) == UNION {LaunchOrders(s, shards[s], g[s]) : s \in D}
  <1>1. /\ D \subseteq ShardIds /\ D \subseteq DOMAIN UserShards
        /\ \A s \in D : shards[s] = UserShards[s]
    BY UsersAssumption DEF Inv, WantedInv
  <1>2. \E g : /\ \A s \in D : g[s] \in Placements(Context, s)
               /\ reqs = SetToSeq(orders(g))
    BY ContextIsDB DEF ContextFacts, LaunchChoices
  <1>3. PICK g : /\ \A s \in D : g[s] \in Placements(Context, s)
                 /\ reqs = SetToSeq(orders(g))
    BY <1>2
  <1> DEFINE plan == [s \in D |-> PeersOn(s, g[s])]
             S == orders(g)
  <1>4. ASSUME NEW s \in D
        PROVE  /\ plan[s] \in [ToSet(UserShards[s]) -> Hosts]
               /\ Distinct(plan[s])
    <2>0. Context.regions = UserRegions
      <3>1. Context.shards # [t \in {} |-> t]
        BY ContextIsDB DEF ContextFacts
      <3> QED
        BY <3>1, RegionsRead DEF LaunchPanics
    <2>1. g[s] \in Seq(Suitable(Context, s)) /\ IsInjective(g[s])
      BY <1>3, <2>0, PlacementGood
    <2>2. Suitable(Context, s) \subseteq Hosts
      BY ContextIsDB DEF ContextFacts, Suitable, Inv, HostsInv
    <2>3. g[s] \in Seq(Hosts)
      BY <2>1, <2>2, SeqMonotonic
    <2>4. ~(Len(g[s]) < Len(shards[s]))
      BY <1>3, ContextIsDB DEF ContextFacts, LaunchFails
    <2>5. shards[s] = UserShards[s] /\ s \in DOMAIN UserShards
      BY <1>1
    <2>6. Len(UserShards[s]) \in Nat
      BY <2>5, UsersAssumption
    <2>7. Len(g[s]) >= Len(UserShards[s])
      BY <2>3, <2>4, <2>5, <2>6
    <2> QED
      BY <2>1, <2>3, <2>5, <2>7, PeersGood
  <1>5. ASSUME NEW r, r \in S
        PROVE  /\ r.shard \in D
               /\ r.replica \in ToSet(UserShards[r.shard])
               /\ r = LaunchOrder(r.shard, r.replica, plan[r.shard])
    <2>1. PICK s \in D : r \in LaunchOrders(s, shards[s], g[s])
      BY <1>5
    <2>2. LaunchOrders(s, shards[s], g[s]) =
             {LaunchOrder(s, i, plan[s]) : i \in ToSet(UserShards[s])}
      <3>1. shards[s] = UserShards[s]
        BY <1>1
      <3>2. plan[s] = [i \in ToSet(UserShards[s]) |->
                         g[s][CHOOSE k \in DOMAIN UserShards[s] : UserShards[s][k] = i]]
        BY DEF PeersOn
      <3> HIDE DEF plan
      <3> QED
        BY <3>1, <3>2 DEF LaunchOrders
    <2>3. PICK i \in ToSet(UserShards[s]) : r = LaunchOrder(s, i, plan[s])
      BY <2>1, <2>2
    <2>4. r.shard = s /\ r.replica = i
      BY <2>3 DEF LaunchOrder
    <2> QED
      BY <2>3, <2>4
  <1>6. ASSUME NEW r, r \in S PROVE GoodLaunch(r)
    <2> DEFINE s == r.shard
               i == r.replica
    <2>1. s \in D /\ i \in ToSet(UserShards[s]) /\ r = LaunchOrder(s, i, plan[s])
      BY <1>5, <1>6
    <2>2. plan[s] \in [ToSet(UserShards[s]) -> Hosts] /\ Distinct(plan[s])
      BY <1>4, <2>1
    <2> HIDE DEF plan
    <2>3. /\ r.type = "CREATE" /\ ~r.join /\ ~r.restore
          /\ r.peers = plan[s] /\ r.to = plan[s][i]
      BY <2>1 DEF LaunchOrder
    <2> QED
      BY <2>1, <2>2, <2>3 DEF GoodLaunch, IsLaunchRequest
  <1>7. IsFiniteSet(S)
    <2> DEFINE A == ShardIds \X ReplicaIds
               f == [p \in A |-> LaunchOrder(p[1], p[2], plan[p[1]])]
    <2>1. ASSUME NEW r, r \in S PROVE \E p \in A : r = f[p]
      <3>1. r.shard \in D /\ r.replica \in ToSet(UserShards[r.shard])
            /\ r = LaunchOrder(r.shard, r.replica, plan[r.shard])
        BY <1>5, <2>1
      <3>2. r.shard \in ShardIds /\ r.replica \in ReplicaIds
        BY <1>1, <3>1, UserMembers
      <3> HIDE DEF plan, S
      <3>3. <<r.shard, r.replica>> \in A
        BY <3>2
      <3>4. f[<<r.shard, r.replica>>] = LaunchOrder(r.shard, r.replica, plan[r.shard])
        BY <3>3
      <3> QED
        BY <3>1, <3>3, <3>4
    <2>2. IsFiniteSet(A)
      BY UsersAssumption, DrummerDBAssumption, FS_Product
    <2> HIDE DEF S, A, f
    <2> QED
      BY <2>1, <2>2, FiniteImage
  <1>8. reqs = SetToSeq(S)
    BY <1>3
  <1> HIDE DEF S, plan
  <1>9. Listed(reqs) /\ Elements(reqs) \subseteq S
    BY <1>7, <1>8, SetQueue
  <1>10. NoRepetition(reqs)
    <2>1. DOMAIN reqs = 1..Cardinality(S)
      BY <1>7, <1>8, SetInOrder
    <2> QED
      BY <1>7, <1>8, <2>1, SetInOrder DEF NoRepetition
  <1>11. OnePlan(reqs, plan)
    BY <1>5, <1>9 DEF OnePlan
  <1> QED
    BY <1>6, <1>9, <1>10, <1>11

(* A pass computes a batch from the DB as it is (schedule).                 *)
LEMMA ScheduleKeeps ==
    ASSUME Inv, RegionsInv, NEW d \in Drummers, Schedule(d)
    PROVE  Inv'
  <1>1. UNCHANGED <<dbVars, nodeVars, wireVars>>
    BY Zenon DEF Schedule
  <1>2. PICK reqs : /\ batch' = [batch EXCEPT ![d] = reqs]
                    /\ \/ ~LaunchFails(Context) /\ ~LaunchPanics(Context) /\ reqs \in LaunchChoices(Context)
                       \/ \E newId \in NewReplicaIds : reqs \in MaintainChoices(Context, newId)
    BY DEF Schedule
  <1>3. GoodQueue(reqs) /\ ~MixedRequests(reqs)
    <2>1. CASE ~LaunchFails(Context) /\ ~LaunchPanics(Context) /\ reqs \in LaunchChoices(Context)
      <3>1. Listed(reqs) /\ \A r \in Elements(reqs) : GoodLaunch(r)
        BY <1>1, <2>1, LaunchGood
      <3>2. GoodQueue(reqs)
        BY <3>1 DEF GoodQueue, GoodOrder
      <3>3. \A k \in DOMAIN reqs : IsLaunchRequest(reqs[k])
        BY <3>1 DEF Elements, GoodLaunch
      <3> QED
        BY <3>2, <3>3 DEF MixedRequests
    <2>2. CASE \E newId \in NewReplicaIds : reqs \in MaintainChoices(Context, newId)
      BY <2>2, MaintainGood DEF Upkeep
    <2> QED
      BY <1>2, <2>1, <2>2
  <1>4. /\ UNCHANGED <<conf, shards, shardImage, requests, outgoing, queue, changes,
                       replicasToKill, panicked, nodeHostImage, replica, applied, reports>>
    BY <1>1, Zenon DEF dbVars, nodeVars, wireVars
  <1>5. Grows /\ ConfType /\ ConfType'
    BY <1>4, RestStays
  <1>6. BatchInv'
    <2>1. /\ DOMAIN batch' = Drummers
          /\ \A e \in Drummers : batch'[e] = batch[e] \/ batch'[e] = reqs
      BY <1>2 DEF Inv, BatchInv
    <2>2. \A e \in Drummers : GoodQueue(batch'[e]) /\ ~MixedRequests(batch'[e])
      BY <1>3, <2>1 DEF Inv, BatchInv
    <2> QED
      BY <1>5, <2>1, <2>2, QueueStays
         DEF BatchInv, MixedRequests, IsLaunchRequests, IsLaunchRequest
  <1> QED
    BY <1>4, <1>6, RestStays DEF Inv, SameReport

-----------------------------------------------------------------------------
(* The records of the DB: who changes them, and how.                        *)

LEMMA RecordsUpdated ==
    ASSUME NEW m, NEW kv
    PROVE  /\ DOMAIN UpdateKV(m, kv) = DOMAIN m \cup {kv.key}
           /\ \A k \in DOMAIN m :
                 k # kv.key \/ m[k].finalized => UpdateKV(m, kv)[k] = m[k]
           /\ kv.key \notin DOMAIN m => UpdateKV(m, kv)[kv.key] = KVRecord(kv)
  <1>1. DBKVUpdated # DBKVFinalized
    BY DEF DBKVUpdated, DBKVFinalized
  <1>2. CASE KVResult(m, kv) # DBKVUpdated
    <2>1. kv.key \in DOMAIN m
      BY <1>2 DEF KVResult
    <2> QED
      BY <1>2, <2>1 DEF UpdateKV
  <1>3. CASE KVResult(m, kv) = DBKVUpdated
    <2>1. UpdateKV(m, kv) = [k \in DOMAIN m \cup {kv.key} |->
             IF k = kv.key THEN KVRecord(kv) ELSE m[k]]
      BY <1>3 DEF UpdateKV
    <2>2. kv.key \in DOMAIN m => ~m[kv.key].finalized
      BY <1>1, <1>3 DEF KVResult
    <2> QED
      BY <2>1, <2>2
  <1> QED
    BY <1>2, <1>3

LEMMA RecordsStep ==
    ASSUME [Next]_clusterVars
    PROVE  \/ kvMap' = kvMap
           \/ kvMap' = UpdateKV(kvMap, FinalKV(RegionsKey, UserRegions))
           \/ kvMap' = UpdateKV(kvMap, FinalKV(BootstrappedKey, "true"))
           \/ kvMap' = UpdateKV(kvMap, FinalKV(LaunchedKey, "true"))
  <1>1. CASE SubmitChange
    BY <1>1 DEF SubmitChange, TryCreateShard
  <1>2. CASE SetRegions
    BY <1>2 DEF SetRegions, ApplyKVUpdate
  <1>3. CASE SetBootstrapped
    BY <1>3 DEF SetBootstrapped, ApplyKVUpdate
  <1>4. CASE DrummerTick
    BY <1>4 DEF DrummerTick, ApplyTickUpdate
  <1>5. CASE \E d \in Drummers : Schedule(d) \/ UpdateRequests(d) \/ LoseBatch(d)
    <2>1. ASSUME NEW d \in Drummers, UpdateRequests(d)
          PROVE  kvMap' = kvMap \/ kvMap' = UpdateKV(kvMap, FinalKV(LaunchedKey, "true"))
      BY <2>1 DEF UpdateRequests, ApplyRequestsUpdate
    <2>2. ASSUME NEW d \in Drummers, Schedule(d) \/ LoseBatch(d) PROVE kvMap' = kvMap
      <3>1. UNCHANGED dbVars
        BY <2>2, Zenon DEF Schedule, LoseBatch
      <3> QED
        BY <3>1 DEF dbVars
    <2> QED
      BY <1>5, <2>1, <2>2
  <1>6. CASE \E h \in Hosts : Exchange(h)
    BY <1>6 DEF Exchange, ApplyNodeHostInfoUpdate
  <1>7. CASE \E r \in reports : ApplyReport(r)
    BY <1>7 DEF ApplyReport, ApplyNodeHostInfoUpdate
  <1>8. CASE UNCHANGED dbVars
    BY <1>8 DEF dbVars
  <1>9. \/ SubmitChange \/ SetRegions \/ SetBootstrapped \/ DrummerTick
        \/ \E d \in Drummers : Schedule(d) \/ UpdateRequests(d) \/ LoseBatch(d)
        \/ \E h \in Hosts : Exchange(h)
        \/ \E r \in reports : ApplyReport(r)
        \/ UNCHANGED dbVars
    <2>1. ASSUME NEW h \in Hosts, SendReport(h) \/ GiveUp(h) \/ FetchRequests(h) \/ Crash(h) \/ Restart(h)
          PROVE  UNCHANGED dbVars
      BY <2>1, Zenon DEF SendReport, GiveUp, FetchRequests, Crash, Restart
    <2>2. ASSUME NEW r, LoseReport(r) \/ CommitChange(r) \/ DropChange(r)
          PROVE  UNCHANGED dbVars
      BY <2>2, Zenon DEF LoseReport, CommitChange, DropChange
    <2>3. ASSUME NEW h \in Hosts, NEW s \in ShardIds, Handle(h, s)
          PROVE  UNCHANGED dbVars
      BY <2>3, Zenon DEF Handle, HandleLaunch, HandleStart, HandleKill, HandleAddDelete
    <2>4. ASSUME NEW h \in Hosts, NEW s \in ShardIds, NEW c, CatchUp(h, s, c)
          PROVE  UNCHANGED dbVars
      BY <2>4, Zenon DEF CatchUp
    <2>5. UNCHANGED clusterVars => UNCHANGED dbVars
      BY Zenon DEF clusterVars
    <2> QED
      BY <2>1, <2>2, <2>3, <2>4, <2>5, Zenon DEF Next
  <1> QED
    BY <1>1, <1>2, <1>3, <1>4, <1>5, <1>6, <1>7, <1>8, <1>9, Zenon

LEMMA RegionsInvNext ==
    ASSUME RegionsInv, [Next]_clusterVars
    PROVE  RegionsInv'
  <1>1. /\ RegionsKey # BootstrappedKey /\ RegionsKey # LaunchedKey
        /\ BootstrappedKey # LaunchedKey
    BY DEF RegionsKey, BootstrappedKey, LaunchedKey
  <1>2. ASSUME NEW key, NEW value PROVE FinalKV(key, value).key = key
    BY DEF FinalKV
  <1>3. CASE kvMap' = kvMap
    BY <1>3 DEF RegionsInv
  <1>4. CASE kvMap' = UpdateKV(kvMap, FinalKV(RegionsKey, UserRegions))
    <2> DEFINE kv == FinalKV(RegionsKey, UserRegions)
    <2>1. /\ kv.key = RegionsKey
          /\ KVRecord(kv).finalized /\ KVRecord(kv).value = UserRegions
      BY DEF FinalKV, KVRecord
    <2>5. kvMap' = UpdateKV(kvMap, kv)
      BY <1>4
    <2> HIDE DEF kv
    <2>6. DOMAIN kvMap' = DOMAIN kvMap \cup {kv.key}
      BY <2>5, RecordsUpdated
    <2>2. RegionsKey \in DOMAIN kvMap'
      BY <2>1, <2>6, Zenon
    <2>3. CASE RegionsKey \in DOMAIN kvMap
      <3>1. kvMap'[RegionsKey] = kvMap[RegionsKey]
        BY <1>4, <2>3, RecordsUpdated DEF RegionsInv
      <3> QED
        BY <2>2, <2>3, <3>1 DEF RegionsInv
    <2>4. CASE RegionsKey \notin DOMAIN kvMap
      <3>1. kvMap'[RegionsKey] = KVRecord(kv)
        BY <2>1, <2>4, <2>5, RecordsUpdated
      <3> QED
        BY <2>1, <2>2, <3>1 DEF RegionsInv
    <2> QED
      BY <2>3, <2>4
  <1>5. ASSUME NEW key, key # RegionsKey, NEW value,
               kvMap' = UpdateKV(kvMap, FinalKV(key, value))
        PROVE  RegionsInv'
    <2> DEFINE kv == FinalKV(key, value)
    <2>3. kvMap' = UpdateKV(kvMap, kv) /\ kv.key = key
      BY <1>2, <1>5
    <2> HIDE DEF kv
    <2>1. DOMAIN kvMap' = DOMAIN kvMap \cup {key}
      BY <2>3, RecordsUpdated
    <2>2. \A k \in DOMAIN kvMap : k # key => kvMap'[k] = kvMap[k]
      BY <2>3, RecordsUpdated
    <2> QED
      BY <1>5, <2>1, <2>2 DEF RegionsInv
  <1> QED
    BY <1>1, <1>3, <1>4, <1>5, RecordsStep

-----------------------------------------------------------------------------
(* The induction.                                                           *)

LEMMA InvInit == Init => Inv /\ RegionsInv
  <1> SUFFICES ASSUME Init PROVE Inv /\ RegionsInv
    OBVIOUS
  <1>1. /\ shards = EmptyMap /\ kvMap = EmptyMap /\ shardImage = EmptyMap
        /\ replicasToKill = {} /\ nodeHostImage = EmptyMap
        /\ requests = [h \in Hosts |-> <<>>] /\ outgoing = [h \in Hosts |-> <<>>]
        /\ panicked = FALSE
    BY DEF Init, Init_DB
  <1>2. /\ conf = [s \in ShardIds |-> <<>>]
        /\ applied = [s \in ShardIds |-> [i \in ReplicaIds |-> 0]]
        /\ replica = [h \in Hosts |-> [s \in ShardIds |-> NoReplica]]
        /\ queue = [h \in Hosts |-> [s \in ShardIds |-> <<>>]]
        /\ changes = {} /\ reports = {}
        /\ batch = [d \in Drummers |-> <<>>]
    BY DEF Init, Init_Nodes, NoBatch
  <1>3. DOMAIN EmptyMap = {}
    BY DEF EmptyMap
  <1>4. GroupInv
    BY <1>2 DEF GroupInv, ConfType, GoodGroup, LaunchedGroup
  <1>5. WantedInv
    BY <1>1, <1>3 DEF WantedInv
  <1>6. RequestsInv /\ OutgoingInv
    BY <1>1, EmptyIsGood DEF RequestsInv, OutgoingInv
  <1>7. QueuesInv
    BY <1>2, EmptyIsGood, EmptyQueue DEF QueuesInv
  <1>8. ChangesInv /\ ReportsInv
    BY <1>2 DEF ChangesInv, ReportsInv
  <1>9. BatchInv
    BY <1>2, EmptyIsGood DEF BatchInv
  <1>10. ImageInv /\ HostsInv
    BY <1>1, <1>3, FS_EmptySet DEF ImageInv, HostsInv
  <1>11. NodesInv
    BY <1>2 DEF NodesInv, LastIndex
  <1>12. RegionsInv
    BY <1>1, <1>3 DEF RegionsInv
  <1> QED
    BY <1>4, <1>5, <1>6, <1>7, <1>8, <1>9, <1>10, <1>11, <1>12 DEF Inv

LEMMA InvNext ==
    ASSUME Inv, RegionsInv, [Next]_clusterVars
    PROVE  Inv'
  <1>1. CASE SubmitChange \/ SetRegions \/ SetBootstrapped \/ DrummerTick
    BY <1>1, SubmitChangeKeeps, SettingsKeep
  <1>2. ASSUME NEW d \in Drummers, Schedule(d) \/ UpdateRequests(d) \/ LoseBatch(d)
        PROVE  Inv'
    BY <1>2, ScheduleKeeps, UpdateRequestsKeeps, LoseBatchKeeps
  <1>3. ASSUME NEW h \in Hosts,
               \/ Exchange(h) \/ SendReport(h) \/ GiveUp(h) \/ FetchRequests(h)
               \/ Crash(h) \/ Restart(h)
        PROVE  Inv'
    BY <1>3, ExchangeKeeps, SendReportKeeps, GiveUpKeeps, FetchRequestsKeeps,
       CrashKeeps, RestartKeeps
  <1>4. ASSUME NEW r \in reports, ApplyReport(r) \/ LoseReport(r)
        PROVE  Inv'
    BY <1>4, ApplyReportKeeps, LoseReportKeeps
  <1>5. ASSUME NEW h \in Hosts, NEW s \in ShardIds, Handle(h, s)
        PROVE  Inv'
    BY <1>5, HandleLaunchKeeps, HandleStartKeeps, HandleKillKeeps, HandleAddDeleteKeeps
       DEF Handle
  <1>6. ASSUME NEW r \in changes, CommitChange(r) \/ DropChange(r)
        PROVE  Inv'
    BY <1>6, CommitChangeKeeps, DropChangeKeeps
  <1>7. ASSUME NEW h \in Hosts, NEW s \in ShardIds, NEW c \in DOMAIN conf[s],
               CatchUp(h, s, c)
        PROVE  Inv'
    BY <1>7, CatchUpKeeps
  <1>8. CASE UNCHANGED clusterVars
    BY <1>8, StutterKeeps
  <1> QED
    BY <1>1, <1>2, <1>3, <1>4, <1>5, <1>6, <1>7, <1>8, Zenon DEF Next

(* The invariant of repair: what groups, orders, images, replicas and       *)
(* reports have to do with each other, whatever is late, lost or repeated.  *)
THEOREM RepairIsSafe == Spec => [](Inv /\ RegionsInv)
  <1>1. Inv /\ RegionsInv /\ [Next]_clusterVars => (Inv /\ RegionsInv)'
    BY InvNext, RegionsInvNext
  <1> QED
    BY <1>1, InvInit, PTL DEF Spec

(* A group never has fewer members than its user asked for, nor two more,   *)
(* although repair works from old states of the DB and its orders arrive    *)
(* late (addRequired and deleteRequired of scheduler.go, the ConfChangeId   *)
(* that the orders carry).                                                  *)
THEOREM MembershipSizeHolds == Spec => []MembershipSize
  <1>1. Inv => MembershipSize
    BY DEF Inv, GroupInv, GoodGroup, MembershipSize, Ids
  <1> QED
    BY <1>1, RepairIsSafe, PTL

(* No NodeHost is ever given two members of a shard, although the filter    *)
(* that chooses them looks at an image that may be behind (basicFilter of   *)
(* filter.go; drummer panics when it sees two).                             *)
THEOREM OneReplicaPerHostHolds == Spec => []OneReplicaPerHost
  <1>1. Inv => OneReplicaPerHost
    BY DEF Inv, GroupInv, GoodGroup, Distinct, OneReplicaPerHost, Ids
  <1> QED
    BY <1>1, RepairIsSafe, PTL

(* What the DB believes of a group is a membership that the group committed,*)
(* and no report makes the DB panic (syncShard of shardimage.go).           *)
THEOREM ImageIsCommittedHolds == Spec => []ImageIsCommitted
  <1>1. ASSUME Inv PROVE ImageIsCommitted
    <2>1. ASSUME NEW s \in DOMAIN shardImage
          PROVE  /\ shardImage[s].ccid \in DOMAIN conf[s]
                 /\ Addresses(shardImage[s]) = conf[s][shardImage[s].ccid]
      <3> DEFINE c == shardImage[s].ccid
      <3>1. /\ s \in ShardIds
            /\ c \in DOMAIN conf[s]
            /\ DOMAIN shardImage[s].replicas = Ids(s, c)
            /\ \A i \in Ids(s, c) : shardImage[s].replicas[i].addr = conf[s][c][i]
        BY <1>1, ImageKnown
      <3>2. conf[s][c] \in [Ids(s, c) -> Hosts]
        BY <1>1, <3>1, GroupFacts DEF Inv, GroupInv
      <3> HIDE DEF c
      <3>3. Addresses(shardImage[s]) = conf[s][c]
        BY <3>1, <3>2 DEF Addresses
      <3> QED
        BY <3>1, <3>3 DEF c
    <2> QED
      BY <1>1, <2>1 DEF Inv, ImageInv, ImageIsCommitted
  <1> QED
    BY <1>1, RepairIsSafe, PTL

(* A replica that was removed is not a member and never will be.            *)
LEMMA RemovedIsGone ==
    ASSUME Inv, NEW s \in ShardIds, NEW i, Removed(s, i)
    PROVE  LaunchedGroup(s) /\ i \notin DOMAIN Current(s)
  <1>1. PICK c \in DOMAIN conf[s], d \in DOMAIN conf[s] :
           c < d /\ i \in Ids(s, c) /\ i \notin Ids(s, d)
    BY DEF Removed
  <1>2. /\ LastIndex(s) \in Nat /\ DOMAIN conf[s] = 1..LastIndex(s)
    BY GroupFacts DEF Inv, GroupInv
  <1>3. LastIndex(s) \in DOMAIN conf[s] /\ c <= d /\ d <= LastIndex(s)
    BY <1>1, <1>2
  <1>4. Ids(s, c) \cap Ids(s, LastIndex(s)) \subseteq Ids(s, d)
    BY <1>3 DEF Inv, GroupInv, GoodGroup
  <1>5. conf[s] # <<>>
    BY <1>1
  <1> QED
    BY <1>1, <1>4, <1>5 DEF LaunchedGroup, Current, Ids

(* An order to kill a replica, and with it its data, is only ever for one   *)
(* that its group has removed, wherever the order is and however late it    *)
(* arrives (the zombies of shardimage.go, killZombieReplicas of             *)
(* scheduler.go).                                                           *)
THEOREM KillsOnlyRemovedHolds == Spec => []KillsOnlyRemoved
  <1>1. ASSUME Inv PROVE KillsOnlyRemoved
    <2>1. ASSUME NEW r \in AllOrders, r.type = "KILL"
          PROVE  LaunchedGroup(r.shard) /\ r.replica \notin DOMAIN Current(r.shard)
      <3>1. r \in changes \/ GoodOrder(r)
        <4>1. ASSUME NEW h \in Hosts, r \in Elements(requests[h]) \/ r \in Elements(outgoing[h])
              PROVE  GoodOrder(r)
          BY <1>1, <4>1 DEF Inv, RequestsInv, OutgoingInv, GoodQueue
        <4>2. ASSUME NEW h \in Hosts, NEW s \in ShardIds, r \in Elements(queue[h][s])
              PROVE  GoodOrder(r)
          BY <1>1, <4>2 DEF Inv, QueuesInv, GoodQueue
        <4>3. ASSUME NEW d \in Drummers, r \in Elements(batch[d])
              PROVE  GoodOrder(r)
          BY <1>1, <4>3 DEF Inv, BatchInv, GoodQueue
        <4>4. r \in AcceptedOrders \/ \E d \in Drummers : r \in Elements(batch[d])
          BY Zenon DEF AllOrders
        <4>5. r \in AcceptedOrders =>
                 \/ r \in changes
                 \/ \E h \in Hosts :
                      \/ r \in Elements(requests[h]) \/ r \in Elements(outgoing[h])
                      \/ \E s \in ShardIds : r \in Elements(queue[h][s])
          BY DEF AcceptedOrders
        <4> QED
          BY <4>1, <4>2, <4>3, <4>4, <4>5, Zenon
      <3>2. r \notin changes
        BY <1>1, <2>1 DEF Inv, ChangesInv, GoodAdd, GoodDelete
      <3>3. GoodKill(r)
        BY <2>1, <3>1, <3>2
           DEF GoodOrder, GoodLaunch, GoodStart, GoodAdd, GoodDelete, IsLaunchRequest
      <3> QED
        BY <1>1, <3>3, RemovedIsGone DEF GoodKill
    <2>2. ASSUME NEW k \in replicasToKill
          PROVE  k.replica \notin DOMAIN Current(k.shard)
      BY <1>1, RemovedIsGone DEF Inv, ImageInv
    <2> QED
      BY <2>1, <2>2 DEF KillsOnlyRemoved
  <1> QED
    BY <1>1, RepairIsSafe, PTL

-----------------------------------------------------------------------------
(***************************************************************************)
(* The launch of the shards happens once and from one plan, although       *)
(* several Drummers may compute one, and no NodeHost is told to launch a   *)
(* replica it has.                                                         *)
(***************************************************************************)
(* The launch orders of a queue: the same members for the orders of one     *)
(* shard, and no order for a shard besides the one that launches it.        *)

SamePlan(q) ==
    \A j, k \in DOMAIN q :
        IsLaunchRequest(q[j]) /\ IsLaunchRequest(q[k]) /\ q[j].shard = q[k].shard
           => q[j].peers = q[k].peers

OneEach(q) ==
    \A j, k \in DOMAIN q :
        IsLaunchRequest(q[j]) /\ q[j].shard = q[k].shard => j = k

OneEachTo(q) ==
    \A j, k \in DOMAIN q :
        IsLaunchRequest(q[j]) /\ q[j].shard = q[k].shard /\ q[j].to = q[k].to => j = k

(* A NodeHost: what waits for it, what it can look up, what it fetched and  *)
(* what is on its disk.  Launch orders reach it before any other order, and *)
(* one at most for each shard.                                              *)
Untouched(fetched, dk) == dk = {} /\ \A s \in ShardIds : fetched[s] = <<>>

GoodHost(waiting, handed, fetched, dk, ph) ==
    /\ OneEach(waiting) /\ OneEach(handed)
    /\ IsLaunchRequests(waiting) => handed = <<>> /\ Untouched(fetched, dk)
    /\ ph = "applied" /\ IsLaunchRequests(handed) => Untouched(fetched, dk)
    /\ \A s \in ShardIds : \A k \in DOMAIN fetched[s] :
          IsLaunchRequest(fetched[s][k]) => k = 1 /\ \A p \in dk : p[1] # s

HostPlan ==
    \A h \in Hosts : GoodHost(requests[h], outgoing[h], queue[h], disk[h], phase[h])

(* Before the launch nothing is ordered and nothing runs.                   *)
EarlyInv ==
    ~Launched => /\ \A s \in ShardIds : conf[s] = <<>>
                 /\ \A h \in Hosts : /\ requests[h] = <<>> /\ outgoing[h] = <<>>
                                     /\ Untouched(queue[h], disk[h])
                 /\ changes = {}

BatchPlan ==
    \A d \in Drummers :
        /\ SamePlan(batch[d]) /\ OneEachTo(batch[d])
        /\ batch[d] # NoBatch /\ ~IsLaunchRequests(batch[d]) => Launched

(* A NodeHost waits for an answer only if its reports may be slow.          *)
WireInv ==
    /\ DOMAIN phase = Hosts /\ DOMAIN disk = Hosts
    /\ \A h \in Hosts : phase[h] # "idle" => h \in SlowHosts
    /\ \A r \in reports : r.nhi.addr \in SlowHosts

PlanInv ==
    /\ EarlyInv /\ BatchPlan /\ HostPlan /\ WireInv
    /\ LaunchedFromOnePlan
    /\ ~hostPanic

-----------------------------------------------------------------------------
(* One NodeHost.                                                            *)

LEMMA NothingToLaunch == OneEach(<<>>) /\ ~IsLaunchRequests(<<>>)
  BY DEF OneEach, IsLaunchRequests

(* It waits for no answer any more, or for one that has not come.           *)
LEMMA PhaseGood ==
    ASSUME NEW w, NEW o, NEW f, NEW d, NEW p, GoodHost(w, o, f, d, p),
           NEW q, q = "applied" => p = "applied"
    PROVE  GoodHost(w, o, f, d, q)
  BY DEF GoodHost

(* Orders wait for it, after none or instead of others.                     *)
LEMMA WaitingGood ==
    ASSUME NEW w, NEW o, NEW f, NEW d, NEW p, GoodHost(w, o, f, d, p),
           NEW v, OneEach(v), IsLaunchRequests(v) => o = <<>> /\ Untouched(f, d)
    PROVE  GoodHost(v, o, f, d, p)
  BY DEF GoodHost

(* What waits is handed over.                                               *)
LEMMA HandOverGood ==
    ASSUME NEW w, NEW o, NEW f, NEW d, NEW p, GoodHost(w, o, f, d, p), NEW q
    PROVE  GoodHost(<<>>, w, f, d, q)
  BY NothingToLaunch DEF GoodHost

(* It crashed.                                                              *)
LEMMA CrashGood ==
    ASSUME NEW w, NEW o, NEW f, NEW d, NEW p, GoodHost(w, o, f, d, p),
           NEW g, \A s \in ShardIds : g[s] = <<>>, NEW q, q # "applied"
    PROVE  GoodHost(w, o, g, d, q)
  BY DEF GoodHost, Untouched

(* It carries an order out, and what is on its disk is of that shard.       *)
LEMMA TakenGood ==
    ASSUME NEW w, NEW o, NEW f, NEW d, NEW p, GoodHost(w, o, f, d, p),
           NEW s \in ShardIds, f[s] # <<>>, Listed(f[s]),
           NEW g, g[s] = Tail(f[s]), \A t \in ShardIds \ {s} : g[t] = f[t],
           NEW e, \A x \in e : x \in d \/ x[1] = s
    PROVE  GoodHost(w, o, g, e, p)
  <1>1. ~Untouched(f, d)
    BY DEF Untouched
  <1>2. /\ OneEach(w) /\ OneEach(o)
        /\ ~IsLaunchRequests(w)
        /\ ~(p = "applied" /\ IsLaunchRequests(o))
    BY <1>1 DEF GoodHost
  <1>3. ASSUME NEW k \in DOMAIN g[s] PROVE ~IsLaunchRequest(g[s][k])
    <2> DEFINE q == f[s]
               S == Elements(q)
    <2>1. q \in Seq(S) /\ q # <<>>
      BY DEF Listed
    <2> HIDE DEF q, S
    <2>2. /\ Len(q) \in Nat /\ Len(q) > 0
          /\ DOMAIN q = 1..Len(q)
          /\ DOMAIN Tail(q) = 1..(Len(q) - 1)
          /\ \A j \in 1..(Len(q) - 1) : Tail(q)[j] = q[j + 1]
      BY <2>1
    <2>3. g[s] = Tail(q)
      BY DEF q
    <2>4. k \in 1..(Len(q) - 1) /\ g[s][k] = q[k + 1]
      BY <2>2, <2>3
    <2>5. k + 1 \in DOMAIN q /\ k + 1 # 1
      BY <2>2, <2>4
    <2> QED
      BY <2>4, <2>5 DEF GoodHost, q
  <1>4. ASSUME NEW t \in ShardIds \ {s}, NEW k \in DOMAIN g[t], IsLaunchRequest(g[t][k])
        PROVE  k = 1 /\ \A x \in e : x[1] # t
    BY <1>4 DEF GoodHost
  <1> QED
    BY <1>2, <1>3, <1>4 DEF GoodHost

\* Where the orders for one shard are.
OrdersFor(orders, s) == {k \in DOMAIN orders : orders[k].shard = s}

\* It fetched o: its queue was f and is g.
Fetched(o, f, g) ==
    /\ Listed(o) /\ \A s \in ShardIds : Listed(f[s])
    /\ \A s \in ShardIds : g[s] = f[s] \o Subsequence(o, OrdersFor(o, s))

NoneBut(o, f, g) ==
    \A s \in ShardIds : Elements(g[s]) \subseteq Elements(f[s]) \cup Elements(o)

(* It fetches what was handed over.                                         *)
LEMMA FetchedGood ==
    ASSUME NEW w, NEW o, NEW f, NEW d, GoodHost(w, o, f, d, "applied"),
           NEW g, Fetched(o, f, g),
           NEW q, q # "applied"
    PROVE  /\ GoodHost(w, o, g, d, q)
           /\ NoneBut(o, f, g)
           /\ o = <<>> /\ Untouched(f, d) => Untouched(g, d)
  <1> USE DEF Fetched, NoneBut
  <1> DEFINE P(s) == OrdersFor(o, s)
             p(s) == Subsequence(o, P(s))
  <1>1. ASSUME NEW s \in ShardIds
        PROVE  /\ Listed(p(s))
               /\ Elements(p(s)) \subseteq Elements(o)
               /\ (\E k \in DOMAIN p(s) : IsLaunchRequest(p(s)[k]))
                     => /\ IsLaunchRequests(o)
                        /\ \A j, k \in DOMAIN p(s) : j = k
    <2> DEFINE x == p(s)
    <2>1. P(s) \subseteq DOMAIN o /\ \A k \in P(s) : o[k].shard = s
      BY DEF OrdersFor
    <2> HIDE DEF P
    <2>2. /\ Listed(x)
          /\ \E at \in [DOMAIN x -> P(s)] :
                /\ \A j, k \in DOMAIN x : at[j] = at[k] => j = k
                /\ \A k \in DOMAIN x : x[k] = o[at[k]]
          /\ \A r \in Elements(x) : \E k \in P(s) : r = o[k]
      BY <2>1, PartOfQueue
    <2> HIDE DEF p, x
    <2>3. PICK at \in [DOMAIN x -> P(s)] :
             /\ \A j, k \in DOMAIN x : at[j] = at[k] => j = k
             /\ \A k \in DOMAIN x : x[k] = o[at[k]]
      BY <2>2
    <2>4. Elements(x) \subseteq Elements(o)
      BY <2>1, <2>2 DEF Elements
    <2>5. ASSUME NEW i \in DOMAIN x, IsLaunchRequest(x[i])
          PROVE  IsLaunchRequests(o) /\ \A j, k \in DOMAIN x : j = k
      <3>1. at[i] \in P(s) /\ IsLaunchRequest(o[at[i]])
        BY <2>3, <2>5
      <3>2. IsLaunchRequests(o)
        BY <2>1, <3>1 DEF IsLaunchRequests
      <3>3. OneEach(o)
        BY DEF GoodHost
      <3>4. ASSUME NEW j \in DOMAIN x PROVE i = j
        <4>1. at[j] \in P(s)
          BY <2>3
        <4>2. at[i] = at[j]
          BY <2>1, <3>1, <3>3, <4>1 DEF OneEach
        <4> QED
          BY <2>3, <4>2
      <3> QED
        BY <3>2, <3>4
    <2> QED
      BY <2>2, <2>4, <2>5 DEF x
  <1>2. \A s \in ShardIds : g[s] = f[s] \o p(s)
    OBVIOUS
  <1>3. o = <<>> => \A s \in ShardIds : p(s) = <<>>
    <2> SUFFICES ASSUME o = <<>>, NEW s \in ShardIds PROVE p(s) = <<>>
      OBVIOUS
    <2>1. Elements(p(s)) = {} /\ Listed(p(s))
      BY <1>1, EmptyQueue
    <2> HIDE DEF p
    <2> QED
      BY <2>1 DEF Listed, Elements
  <1> HIDE DEF p
  <1>4. ASSUME NEW s \in ShardIds
        PROVE  /\ Elements(g[s]) \subseteq Elements(f[s]) \cup Elements(o)
               /\ Len(f[s]) \in Nat /\ DOMAIN f[s] = 1..Len(f[s])
               /\ Len(p(s)) \in Nat /\ DOMAIN p(s) = 1..Len(p(s))
               /\ DOMAIN g[s] = 1..(Len(f[s]) + Len(p(s)))
               /\ \A k \in DOMAIN g[s] :
                     IF k <= Len(f[s]) THEN k \in DOMAIN f[s] /\ g[s][k] = f[s][k]
                     ELSE k - Len(f[s]) \in DOMAIN p(s) /\ g[s][k] = p(s)[k - Len(f[s])]
    <2> DEFINE a == f[s]
               b == p(s)
               S == Elements(a) \cup Elements(b)
    <2>1. Listed(a) /\ Listed(b) /\ g[s] = a \o b /\ Elements(b) \subseteq Elements(o)
      BY <1>1, <1>2
    <2>2. a \in Seq(S) /\ b \in Seq(S)
      BY <2>1, ListedSeq, SeqMonotonic DEF Listed
    <2>3. Elements(a \o b) \subseteq Elements(a) \cup Elements(b)
      BY <2>1, JoinedQueues
    <2> HIDE DEF S, a, b
    <2>4. /\ Len(a) \in Nat /\ DOMAIN a = 1..Len(a)
          /\ Len(b) \in Nat /\ DOMAIN b = 1..Len(b)
          /\ DOMAIN (a \o b) = 1..(Len(a) + Len(b))
          /\ \A k \in 1..(Len(a) + Len(b)) :
                IF k <= Len(a) THEN k \in 1..Len(a) /\ (a \o b)[k] = a[k]
                ELSE k - Len(a) \in 1..Len(b) /\ (a \o b)[k] = b[k - Len(a)]
      BY <2>2
    <2>5. Elements(g[s]) \subseteq Elements(f[s]) \cup Elements(o)
      BY <2>1, <2>3 DEF a
    <2> QED
      BY <2>1, <2>4, <2>5 DEF a, b
  <1>5. ASSUME NEW s \in ShardIds, NEW k \in DOMAIN g[s], IsLaunchRequest(g[s][k])
        PROVE  k = 1 /\ \A x \in d : x[1] # s
    <2>1. CASE k <= Len(f[s])
      BY <1>4, <1>5, <2>1 DEF GoodHost
    <2>2. CASE ~(k <= Len(f[s]))
      <3>1. k - Len(f[s]) \in DOMAIN p(s) /\ IsLaunchRequest(p(s)[k - Len(f[s])])
        BY <1>4, <1>5, <2>2
      <3>2. IsLaunchRequests(o) /\ \A i, j \in DOMAIN p(s) : i = j
        BY <1>1, <3>1
      <3>3. d = {} /\ f[s] = <<>>
        BY <3>2 DEF GoodHost, Untouched
      <3>4. Len(f[s]) = 0
        BY <3>3
      <3>5. k \in 1..Len(p(s)) /\ 1 \in 1..Len(p(s))
        BY <1>4, <3>1, <3>4
      <3>6. k = 1
        BY <1>4, <3>2, <3>5
      <3> QED
        BY <3>3, <3>6
    <2> QED
      BY <2>1, <2>2
  <1>6. o = <<>> /\ Untouched(f, d) => Untouched(g, d)
    BY <1>2, <1>3 DEF Untouched
  <1>7. GoodHost(w, o, g, d, q)
    BY <1>5, <1>6 DEF GoodHost
  <1> QED
    BY <1>4, <1>6, <1>7

-----------------------------------------------------------------------------
(* Where the launch orders are.                                             *)

OnItsWay(r) ==
    \/ r \in changes
    \/ \E h \in Hosts : \/ r \in Elements(requests[h]) \/ r \in Elements(outgoing[h])
                        \/ \E s \in ShardIds : r \in Elements(queue[h][s])

LEMMA AcceptedOnItsWay ==
    ASSUME NEW r
    PROVE  /\ r \in AcceptedOrders <=> OnItsWay(r)
           /\ r \in AcceptedOrders' <=> OnItsWay(r)'
  <1>1. r \in AcceptedOrders <=> OnItsWay(r)
    BY DEF AcceptedOrders, OnItsWay
  <1>2. r \in AcceptedOrders' <=> OnItsWay(r)'
    BY DEF AcceptedOrders, OnItsWay
  <1> QED
    BY <1>1, <1>2

(* All of them come from one plan, the one that is carried out.             *)
LEMMA PlanOfAll ==
    LaunchedFromOnePlan <=>
        \A r : OnItsWay(r) /\ IsLaunchRequest(r) =>
            /\ LaunchedGroup(r.shard) => r.peers = conf[r.shard][1]
            /\ \A q : OnItsWay(q) /\ IsLaunchRequest(q) /\ q.shard = r.shard
                        => q.peers = r.peers
  BY AcceptedOnItsWay DEF LaunchedFromOnePlan

LEMMA PlanOfAllNext ==
    LaunchedFromOnePlan' <=>
        \A r : OnItsWay(r)' /\ IsLaunchRequest(r) =>
            /\ LaunchedGroup(r.shard)' => r.peers = conf'[r.shard][1]
            /\ \A q : OnItsWay(q)' /\ IsLaunchRequest(q) /\ q.shard = r.shard
                        => q.peers = r.peers
  <1>1. \A r : IsLaunchRequest(r)' <=> IsLaunchRequest(r)
    BY DEF IsLaunchRequest
  <1> QED
    BY <1>1, AcceptedOnItsWay DEF LaunchedFromOnePlan

LEMMA LaunchesAreGood ==
    ASSUME Inv, NEW r, OnItsWay(r), IsLaunchRequest(r)
    PROVE  GoodLaunch(r) /\ r.shard \in ShardIds
  <1>1. r \in changes \/ GoodOrder(r)
    BY DEF OnItsWay, Inv, RequestsInv, OutgoingInv, QueuesInv, GoodQueue
  <1>2. GoodLaunch(r)
    BY <1>1 DEF Inv, ChangesInv, GoodOrder, GoodStart, GoodAdd, GoodDelete, GoodKill,
                IsLaunchRequest
  <1> QED
    BY <1>2, UsersAssumption DEF GoodLaunch, Inv, WantedInv

(* No new launch order, and a group that starts starts as one of them says. *)
LEMMA PlanStays ==
    ASSUME Inv, LaunchedFromOnePlan,
           \A r : OnItsWay(r)' /\ IsLaunchRequest(r) => OnItsWay(r),
           \A s \in ShardIds : conf'[s] # <<>> =>
              \/ conf[s] # <<>> /\ conf'[s][1] = conf[s][1]
              \/ \E q : /\ OnItsWay(q) /\ IsLaunchRequest(q) /\ q.shard = s
                        /\ conf'[s][1] = q.peers
    PROVE  LaunchedFromOnePlan'
  <1> SUFFICES ASSUME NEW r, OnItsWay(r)', IsLaunchRequest(r)
               PROVE  /\ LaunchedGroup(r.shard)' => r.peers = conf'[r.shard][1]
                      /\ \A q : OnItsWay(q)' /\ IsLaunchRequest(q) /\ q.shard = r.shard
                                  => q.peers = r.peers
    BY PlanOfAllNext
  <1>1. OnItsWay(r)
    OBVIOUS
  <1>2. r.shard \in ShardIds
    BY <1>1, LaunchesAreGood
  <1>3. LaunchedGroup(r.shard)' => conf'[r.shard] # <<>>
    BY DEF LaunchedGroup
  <1>4. conf[r.shard] # <<>> => LaunchedGroup(r.shard)
    BY DEF LaunchedGroup
  <1>5. /\ LaunchedGroup(r.shard) => r.peers = conf[r.shard][1]
        /\ \A q : OnItsWay(q) /\ IsLaunchRequest(q) /\ q.shard = r.shard
                     => q.peers = r.peers
    BY <1>1, PlanOfAll
  <1>6. \A q : OnItsWay(q)' /\ IsLaunchRequest(q) => OnItsWay(q)
    OBVIOUS
  <1>7. ASSUME LaunchedGroup(r.shard)' PROVE r.peers = conf'[r.shard][1]
    <2>1. \/ conf[r.shard] # <<>> /\ conf'[r.shard][1] = conf[r.shard][1]
          \/ \E q : /\ OnItsWay(q) /\ IsLaunchRequest(q) /\ q.shard = r.shard
                    /\ conf'[r.shard][1] = q.peers
      BY <1>2, <1>3, <1>7
    <2> QED
      BY <1>4, <1>5, <2>1
  <1> QED
    BY <1>5, <1>6, <1>7

-----------------------------------------------------------------------------
(* What a step leaves alone.                                                *)

LEMMA PlanRests ==
    ASSUME Inv, PlanInv, Launched => Launched'
    PROVE  /\ UNCHANGED <<conf, requests, outgoing, queue, disk>> /\ changes' \subseteq changes
                 => EarlyInv'
           /\ batch' = batch => BatchPlan'
           /\ (/\ UNCHANGED <<requests, outgoing, queue, disk>>
               /\ \A h \in Hosts : phase'[h] = "applied" => phase[h] = "applied")
                 => HostPlan'
           /\ UNCHANGED <<conf, requests, outgoing, queue>> /\ changes' \subseteq changes
                 => LaunchedFromOnePlan'
           /\ UNCHANGED <<phase, disk, reports>> => WireInv'
           /\ (hostPanic' => hostPanic) => ~hostPanic'
  <1>1. ASSUME UNCHANGED <<conf, requests, outgoing, queue, disk>>, changes' \subseteq changes
        PROVE  EarlyInv'
    BY <1>1 DEF PlanInv, EarlyInv, Untouched
  <1>2. ASSUME batch' = batch PROVE BatchPlan'
    BY <1>2 DEF PlanInv, BatchPlan, SamePlan, OneEachTo, IsLaunchRequests, IsLaunchRequest
  <1>3. ASSUME UNCHANGED <<requests, outgoing, queue, disk>>,
               \A h \in Hosts : phase'[h] = "applied" => phase[h] = "applied"
        PROVE  HostPlan'
    <2>1. \A h \in Hosts : GoodHost(requests[h], outgoing[h], queue[h], disk[h], phase'[h])
      BY <1>3, PhaseGood DEF PlanInv, HostPlan
    <2> QED
      BY <1>3, <2>1 DEF HostPlan
  <1>4. ASSUME UNCHANGED <<conf, requests, outgoing, queue>>, changes' \subseteq changes
        PROVE  LaunchedFromOnePlan'
    <2>1. \A r : OnItsWay(r)' => OnItsWay(r)
      BY <1>4 DEF OnItsWay
    <2> QED
      BY <1>4, <2>1, PlanStays DEF PlanInv
  <1>5. ASSUME UNCHANGED <<phase, disk, reports>> PROVE WireInv'
    BY <1>5 DEF PlanInv, WireInv
  <1>6. (hostPanic' => hostPanic) => ~hostPanic'
    BY Zenon DEF PlanInv
  <1> QED
    BY <1>1, <1>2, <1>3, <1>4, <1>5, <1>6

-----------------------------------------------------------------------------
(* Steps that are not about orders.                                         *)

(* Users, the clock, a replica that catches up, a NodeHost that comes back, *)
(* and a change that its group drops.                                       *)
LEMMA QuietPlan ==
    ASSUME Inv, PlanInv, Launched => Launched',
           UNCHANGED <<conf, requests, outgoing, queue, disk, batch, phase, reports, hostPanic>>,
           changes' \subseteq changes
    PROVE  PlanInv'
  <1>1. hostPanic' => hostPanic
    OBVIOUS
  <1>2. \A h \in Hosts : phase'[h] = "applied" => phase[h] = "applied"
    OBVIOUS
  <1> QED
    BY <1>1, <1>2, PlanRests DEF PlanInv

LEMMA SettingsPlan ==
    ASSUME Inv, PlanInv, Launched => Launched',
           SubmitChange \/ SetRegions \/ SetBootstrapped \/ DrummerTick
    PROVE  PlanInv'
  <1>1. UNCHANGED <<nodeVars, wireVars, drummerVars>>
    BY Zenon DEF SubmitChange, SetRegions, SetBootstrapped, DrummerTick
  <1>2. UNCHANGED <<requests, outgoing>>
    BY DEF SubmitChange, SetRegions, SetBootstrapped, DrummerTick,
           TryCreateShard, ApplyKVUpdate, ApplyTickUpdate
  <1>3. /\ UNCHANGED <<conf, queue, disk, batch, phase, reports, hostPanic>>
        /\ changes' \subseteq changes
    BY <1>1 DEF nodeVars, wireVars, drummerVars
  <1> QED
    BY <1>2, <1>3, QuietPlan

LEMMA NodePlan ==
    ASSUME Inv, PlanInv, Launched => Launched', NEW h, NEW s, NEW c, NEW r,
           Restart(h) \/ CatchUp(h, s, c) \/ DropChange(r)
    PROVE  PlanInv'
  <1>1. /\ UNCHANGED <<dbVars, wireVars, drummerVars, conf, queue, disk, hostPanic>>
        /\ changes' \subseteq changes
    BY DEF Restart, CatchUp, DropChange
  <1>2. UNCHANGED <<conf, requests, outgoing, queue, disk, batch, phase, reports, hostPanic>>
    BY <1>1 DEF dbVars, wireVars, drummerVars
  <1> QED
    BY <1>1, <1>2, QuietPlan

(* Reports that are sent, lost or given up.                                 *)
LEMMA WirePlan ==
    ASSUME Inv, PlanInv, Launched => Launched', WireInv',
           UNCHANGED <<conf, requests, outgoing, queue, disk, batch, changes, hostPanic>>,
           \A h \in Hosts : phase'[h] = "applied" => phase[h] = "applied"
    PROVE  PlanInv'
  <1>1. /\ hostPanic' => hostPanic
        /\ changes' \subseteq changes
    OBVIOUS
  <1> QED
    BY <1>1, PlanRests DEF PlanInv

LEMMA SendReportPlan ==
    ASSUME Inv, PlanInv, Launched => Launched', NEW h \in Hosts, SendReport(h)
    PROVE  PlanInv'
  <1>1. /\ UNCHANGED <<dbVars, nodeVars, drummerVars>>
        /\ h \in SlowHosts
        /\ phase' = [phase EXCEPT ![h] = "sent"]
        /\ \E included \in PlogIncluded :
              reports' = reports \cup {[nhi |-> ReportOf(h, included), awaited |-> TRUE]}
    BY Zenon DEF SendReport
  <1>2. UNCHANGED <<conf, requests, outgoing, queue, disk, batch, changes, hostPanic>>
    BY <1>1 DEF dbVars, nodeVars, drummerVars
  <1>3. WireInv'
    <2>1. \A r \in reports' : r.nhi.addr \in SlowHosts
      <3>1. PICK included \in PlogIncluded :
               reports' = reports \cup {[nhi |-> ReportOf(h, included), awaited |-> TRUE]}
        BY <1>1
      <3>2. ReportOf(h, included).addr = h
        BY DEF ReportOf
      <3> QED
        BY <1>1, <3>1, <3>2 DEF PlanInv, WireInv
    <2>2. /\ DOMAIN phase' = Hosts /\ DOMAIN disk' = Hosts
          /\ \A g \in Hosts : phase'[g] # "idle" => g \in SlowHosts
      BY <1>1, <1>2 DEF PlanInv, WireInv
    <2> QED
      BY <2>1, <2>2 DEF WireInv
  <1>4. \A g \in Hosts : phase'[g] = "applied" => phase[g] = "applied"
    BY <1>1 DEF PlanInv, WireInv
  <1> QED
    BY <1>2, <1>3, <1>4, WirePlan

LEMMA LoseReportPlan ==
    ASSUME Inv, PlanInv, Launched => Launched', NEW r \in reports, LoseReport(r)
    PROVE  PlanInv'
  <1>1. /\ UNCHANGED <<dbVars, nodeVars, drummerVars>>
        /\ reports' = reports \ {r}
        /\ phase' = phase \/ phase' = [phase EXCEPT ![r.nhi.addr] = "idle"]
    BY Zenon DEF LoseReport
  <1>2. UNCHANGED <<conf, requests, outgoing, queue, disk, batch, changes, hostPanic>>
    BY <1>1 DEF dbVars, nodeVars, drummerVars
  <1>3. /\ DOMAIN phase' = Hosts
        /\ \A g \in Hosts : phase'[g] = phase[g] \/ phase'[g] = "idle"
    BY <1>1 DEF PlanInv, WireInv
  <1>4. WireInv'
    BY <1>1, <1>2, <1>3 DEF PlanInv, WireInv
  <1>5. \A g \in Hosts : phase'[g] = "applied" => phase[g] = "applied"
    BY <1>3
  <1> QED
    BY <1>2, <1>4, <1>5, WirePlan

(* A report that nobody waits for any more has the same address.            *)
LEMMA NotAwaitedPlan ==
    ASSUME ReportsInv, WireInv, NEW h,
           reports' = {IF r.nhi.addr = h THEN [r EXCEPT !.awaited = FALSE] ELSE r : r \in reports}
    PROVE  \A r \in reports' : r.nhi.addr \in SlowHosts
  <1>1. \A r \in reports' : \E q \in reports : SameReport(r, q)
    BY NotAwaited
  <1> QED
    BY <1>1 DEF WireInv, SameReport

LEMMA GiveUpPlan ==
    ASSUME Inv, PlanInv, Launched => Launched', NEW h \in Hosts, GiveUp(h)
    PROVE  PlanInv'
  <1>1. /\ UNCHANGED <<dbVars, nodeVars, drummerVars>>
        /\ phase' = [phase EXCEPT ![h] = "idle"]
        /\ reports' = {IF r.nhi.addr = h THEN [r EXCEPT !.awaited = FALSE] ELSE r : r \in reports}
    BY Zenon DEF GiveUp
  <1>2. UNCHANGED <<conf, requests, outgoing, queue, disk, batch, changes, hostPanic>>
    BY <1>1 DEF dbVars, nodeVars, drummerVars
  <1>3. /\ DOMAIN phase' = Hosts
        /\ \A g \in Hosts : phase'[g] = phase[g] \/ phase'[g] = "idle"
    BY <1>1 DEF PlanInv, WireInv
  <1>4. \A r \in reports' : r.nhi.addr \in SlowHosts
    BY <1>1, NotAwaitedPlan DEF Inv, PlanInv
  <1>5. WireInv'
    BY <1>2, <1>3, <1>4 DEF PlanInv, WireInv
  <1>6. \A g \in Hosts : phase'[g] = "applied" => phase[g] = "applied"
    BY <1>3
  <1> QED
    BY <1>2, <1>5, <1>6, WirePlan

(* A NodeHost that crashes loses the orders it fetched.                     *)
LEMMA CrashPlan ==
    ASSUME Inv, PlanInv, Launched => Launched', NEW h \in Hosts, Crash(h)
    PROVE  PlanInv'
  <1>1. /\ UNCHANGED <<dbVars, conf, applied, disk, changes, hostPanic, drummerVars>>
        /\ queue' = [queue EXCEPT ![h] = [s \in ShardIds |-> <<>>]]
        /\ phase' = [phase EXCEPT ![h] = "idle"]
        /\ reports' = {IF r.nhi.addr = h THEN [r EXCEPT !.awaited = FALSE] ELSE r : r \in reports}
    BY Zenon DEF Crash
  <1>2. UNCHANGED <<conf, requests, outgoing, disk, changes, hostPanic, batch>>
    BY <1>1 DEF dbVars, drummerVars
  <1>3. /\ DOMAIN phase' = Hosts
        /\ \A g \in Hosts : phase'[g] = phase[g] \/ phase'[g] = "idle"
        /\ phase'[h] = "idle"
    BY <1>1 DEF PlanInv, WireInv
  <1>4. WireInv'
    <2>1. \A r \in reports' : r.nhi.addr \in SlowHosts
      BY <1>1, NotAwaitedPlan DEF Inv, PlanInv
    <2> QED
      BY <1>2, <1>3, <2>1 DEF PlanInv, WireInv
  <1>5. /\ DOMAIN queue' = Hosts
        /\ \A g \in Hosts : g # h => queue'[g] = queue[g]
        /\ \A s \in ShardIds : queue'[h][s] = <<>>
    BY <1>1 DEF Inv, QueuesInv
  <1>6. HostPlan'
    <2>1. ASSUME NEW g \in Hosts
          PROVE  GoodHost(requests[g], outgoing[g], queue'[g], disk[g], phase'[g])
      <3>1. GoodHost(requests[g], outgoing[g], queue[g], disk[g], phase[g])
        BY DEF PlanInv, HostPlan
      <3>2. CASE g = h
        BY <1>3, <1>5, <3>1, <3>2, CrashGood
      <3>3. CASE g # h
        <4>1. phase'[g] = "applied" => phase[g] = "applied"
          BY <1>3
        <4>2. queue'[g] = queue[g]
          BY <1>5, <3>3
        <4> QED
          BY <3>1, <4>1, <4>2, PhaseGood
      <3> QED
        BY <3>2, <3>3
    <2> QED
      BY <1>2, <2>1 DEF HostPlan
  <1>7. EarlyInv'
    <2>1. \A g \in Hosts : Untouched(queue[g], disk[g]) => Untouched(queue'[g], disk'[g])
      BY <1>2, <1>5 DEF Untouched
    <2> QED
      BY <1>2, <2>1 DEF PlanInv, EarlyInv, Untouched
  <1>8. LaunchedFromOnePlan'
    <2>1. \A g \in Hosts, s \in ShardIds : Elements(queue'[g][s]) \subseteq Elements(queue[g][s])
      BY <1>5, EmptyQueue
    <2>2. \A r : OnItsWay(r)' => OnItsWay(r)
      BY <1>2, <2>1 DEF OnItsWay, Elements
    <2> QED
      BY <1>2, <2>2, PlanStays DEF PlanInv
  <1>9. BatchPlan' /\ ~hostPanic'
    <2>1. hostPanic' => hostPanic
      BY <1>2
    <2> QED
      BY <1>2, <2>1, PlanRests
  <1> QED
    BY <1>4, <1>6, <1>7, <1>8, <1>9 DEF PlanInv

-----------------------------------------------------------------------------
(* Batches: computed, lost, and taken over by the DB.                       *)

LEMMA BatchStepPlan ==
    ASSUME Inv, PlanInv, Launched => Launched', BatchPlan',
           UNCHANGED <<conf, requests, outgoing, queue, disk, changes, phase, reports, hostPanic>>
    PROVE  PlanInv'
  <1>1. /\ hostPanic' => hostPanic
        /\ changes' \subseteq changes
        /\ \A h \in Hosts : phase'[h] = "applied" => phase[h] = "applied"
    OBVIOUS
  <1> QED
    BY <1>1, PlanRests DEF PlanInv

\* What is asked of a batch.
GoodPlan(q) ==
    /\ SamePlan(q) /\ OneEachTo(q)
    /\ q # NoBatch /\ ~IsLaunchRequests(q) => Launched

LEMMA NoBatchPlan == GoodPlan(NoBatch)
  BY DEF GoodPlan, SamePlan, OneEachTo, NoBatch

LEMMA BatchOf ==
    ASSUME Inv, PlanInv, Launched => Launched', NEW d \in Drummers, NEW reqs, GoodPlan(reqs),
           batch' = [batch EXCEPT ![d] = reqs]
    PROVE  BatchPlan'
  <1>1. \A e \in Drummers : batch'[e] = batch[e] \/ batch'[e] = reqs
    BY DEF Inv, BatchInv
  <1>2. \A e \in Drummers : GoodPlan(batch'[e])
    BY <1>1 DEF PlanInv, BatchPlan, GoodPlan
  <1> QED
    BY <1>2 DEF BatchPlan, GoodPlan, SamePlan, OneEachTo, IsLaunchRequests, IsLaunchRequest

(* One plan puts each replica of a shard on a NodeHost of its own.          *)
LEMMA PlanOfLaunch ==
    ASSUME NEW reqs, \A r \in Elements(reqs) : GoodLaunch(r),
           NEW plan, OnePlan(reqs, plan), NoRepetition(reqs)
    PROVE  SamePlan(reqs) /\ OneEachTo(reqs)
  <1>1. ASSUME NEW k \in DOMAIN reqs
        PROVE  /\ GoodLaunch(reqs[k])
               /\ reqs[k] = LaunchOrder(reqs[k].shard, reqs[k].replica, plan[reqs[k].shard])
               /\ reqs[k].peers = plan[reqs[k].shard]
    <2>1. reqs[k] \in Elements(reqs)
      BY DEF Elements
    <2>2. reqs[k] = LaunchOrder(reqs[k].shard, reqs[k].replica, plan[reqs[k].shard])
      BY <2>1 DEF OnePlan
    <2>3. reqs[k].peers = plan[reqs[k].shard]
      <3>1. \A s, i, p : LaunchOrder(s, i, p).peers = p
        BY DEF LaunchOrder
      <3> QED
        BY <2>2, <3>1
    <2> QED
      BY <2>1, <2>2, <2>3
  <1>2. SamePlan(reqs)
    BY <1>1 DEF SamePlan
  <1>3. ASSUME NEW j \in DOMAIN reqs, NEW k \in DOMAIN reqs,
               reqs[j].shard = reqs[k].shard, reqs[j].to = reqs[k].to
        PROVE  j = k
    <2>1. reqs[j].peers = reqs[k].peers
      BY <1>1, <1>3
    <2>2. /\ Distinct(reqs[j].peers)
          /\ reqs[j].replica \in DOMAIN reqs[j].peers
          /\ reqs[k].replica \in DOMAIN reqs[k].peers
          /\ reqs[j].to = reqs[j].peers[reqs[j].replica]
          /\ reqs[k].to = reqs[k].peers[reqs[k].replica]
      BY <1>1 DEF GoodLaunch
    <2>3. reqs[j].replica = reqs[k].replica
      BY <1>3, <2>1, <2>2 DEF Distinct
    <2>4. reqs[j] = reqs[k]
      BY <1>1, <1>3, <2>3
    <2> QED
      BY <2>4 DEF NoRepetition
  <1>4. OneEachTo(reqs)
    BY <1>3 DEF OneEachTo
  <1> QED
    BY <1>2, <1>4

LEMMA SchedulePlan ==
    ASSUME Inv, RegionsInv, PlanInv, Launched => Launched', NEW d \in Drummers, Schedule(d)
    PROVE  PlanInv'
  <1>1. UNCHANGED <<dbVars, nodeVars, wireVars>>
    BY Zenon DEF Schedule
  <1>2. UNCHANGED <<conf, requests, outgoing, queue, disk, changes, phase, reports, hostPanic>>
    BY <1>1 DEF dbVars, nodeVars, wireVars
  <1>3. PICK reqs :
           /\ batch' = [batch EXCEPT ![d] = reqs]
           /\ \/ ~LaunchFails(Context) /\ ~LaunchPanics(Context) /\ reqs \in LaunchChoices(Context)
              \/ /\ Launched \/ DOMAIN shardImage # {}
                 /\ \E newId \in NewReplicaIds : reqs \in MaintainChoices(Context, newId)
    <2>1. PICK launchedSeen \in GetLaunched :
             IF ~launchedSeen /\ DOMAIN shardImage = {}
               THEN /\ ~LaunchFails(Context) /\ ~LaunchPanics(Context)
                    /\ \E reqs \in LaunchChoices(Context) : batch' = [batch EXCEPT ![d] = reqs]
               ELSE /\ ~MaintainPanics(Context)
                    /\ \E newId \in NewReplicaIds :
                       \E reqs \in MaintainChoices(Context, newId) :
                          batch' = [batch EXCEPT ![d] = reqs]
      BY Zenon DEF Schedule
    <2>2. launchedSeen => Launched
      BY DEF GetLaunched
    <2>3. CASE ~launchedSeen /\ DOMAIN shardImage = {}
      BY <2>1, <2>3
    <2>4. CASE ~(~launchedSeen /\ DOMAIN shardImage = {})
      <3>1. Launched \/ DOMAIN shardImage # {}
        BY <2>2, <2>4
      <3>2. \E newId \in NewReplicaIds :
            \E reqs \in MaintainChoices(Context, newId) :
               batch' = [batch EXCEPT ![d] = reqs]
        BY <2>1, <2>4
      <3> QED
        BY <3>1, <3>2
    <2> QED
      BY <2>3, <2>4
  <1>4. GoodPlan(reqs)
    <2>1. CASE ~LaunchFails(Context) /\ ~LaunchPanics(Context) /\ reqs \in LaunchChoices(Context)
      <3>1. /\ Listed(reqs)
            /\ \A r \in Elements(reqs) : GoodLaunch(r)
            /\ \E plan : OnePlan(reqs, plan)
            /\ NoRepetition(reqs)
        BY <1>1, <2>1, LaunchGood
      <3>2. SamePlan(reqs) /\ OneEachTo(reqs)
        BY <3>1, PlanOfLaunch
      <3>3. ASSUME reqs # NoBatch PROVE IsLaunchRequests(reqs)
        <4>1. Elements(reqs) # {}
          BY <3>1, <3>3 DEF Listed, NoBatch
        <4>2. PICK k \in DOMAIN reqs : reqs[k] \in Elements(reqs)
          BY <4>1 DEF Elements
        <4> QED
          BY <3>1, <4>2 DEF IsLaunchRequests, GoodLaunch
      <3> QED
        BY <3>2, <3>3 DEF GoodPlan
    <2>2. CASE /\ Launched \/ DOMAIN shardImage # {}
               /\ \E newId \in NewReplicaIds : reqs \in MaintainChoices(Context, newId)
      <3>1. Upkeep(reqs)
        BY <2>2, MaintainGood
      <3>2. \A k \in DOMAIN reqs : ~IsLaunchRequest(reqs[k])
        BY <3>1 DEF Upkeep, Elements
      <3>3. Launched
        <4>1. ASSUME NEW s \in DOMAIN shardImage PROVE s \in ShardIds /\ conf[s] # <<>>
          <5>1. s \in ShardIds /\ shardImage[s].ccid \in DOMAIN conf[s]
            BY ImageKnown
          <5> QED
            BY <5>1
        <4> QED
          BY <2>2, <4>1 DEF PlanInv, EarlyInv
      <3> QED
        BY <3>2, <3>3 DEF GoodPlan, SamePlan, OneEachTo
    <2> QED
      BY <1>3, <2>1, <2>2
  <1>5. BatchPlan'
    BY <1>3, <1>4, BatchOf
  <1> QED
    BY <1>2, <1>5, BatchStepPlan

LEMMA LoseBatchPlan ==
    ASSUME Inv, PlanInv, Launched => Launched', NEW d \in Drummers, LoseBatch(d)
    PROVE  PlanInv'
  <1>1. /\ batch' = [batch EXCEPT ![d] = NoBatch]
        /\ UNCHANGED <<dbVars, nodeVars, wireVars>>
    BY Zenon DEF LoseBatch
  <1>2. UNCHANGED <<conf, requests, outgoing, queue, disk, changes, phase, reports, hostPanic>>
    BY <1>1 DEF dbVars, nodeVars, wireVars
  <1>3. BatchPlan'
    BY <1>1, NoBatchPlan, BatchOf
  <1> QED
    BY <1>2, <1>3, BatchStepPlan

(* The orders of a batch for one NodeHost.                                  *)
LEMMA RequestsToPlan ==
    ASSUME NEW reqs, Listed(reqs), OneEachTo(reqs), NEW h
    PROVE  /\ OneEach(RequestsTo(reqs, h))
           /\ Elements(RequestsTo(reqs, h)) \subseteq Elements(reqs)
           /\ IsLaunchRequests(RequestsTo(reqs, h)) => IsLaunchRequests(reqs)
  <1> DEFINE P == {k \in DOMAIN reqs : reqs[k].to = h}
             q == Subsequence(reqs, P)
  <1>1. P \subseteq DOMAIN reqs /\ \A k \in P : reqs[k].to = h
    OBVIOUS
  <1>2. RequestsTo(reqs, h) = q
    BY DEF RequestsTo
  <1> HIDE DEF P
  <1>3. /\ Listed(q)
        /\ \E at \in [DOMAIN q -> P] :
              /\ \A j, k \in DOMAIN q : at[j] = at[k] => j = k
              /\ \A k \in DOMAIN q : q[k] = reqs[at[k]]
        /\ \A r \in Elements(q) : \E k \in P : r = reqs[k]
    BY <1>1, PartOfQueue
  <1> HIDE DEF q
  <1>4. PICK at \in [DOMAIN q -> P] :
           /\ \A j, k \in DOMAIN q : at[j] = at[k] => j = k
           /\ \A k \in DOMAIN q : q[k] = reqs[at[k]]
    BY <1>3
  <1>5. ASSUME NEW j \in DOMAIN q, NEW k \in DOMAIN q,
               IsLaunchRequest(q[j]), q[j].shard = q[k].shard
        PROVE  j = k
    <2>1. at[j] \in DOMAIN reqs /\ at[k] \in DOMAIN reqs
      BY <1>1, <1>4
    <2>2. reqs[at[j]].to = h /\ reqs[at[k]].to = h
      BY <1>1, <1>4
    <2>3. at[j] = at[k]
      BY <1>4, <1>5, <2>1, <2>2 DEF OneEachTo
    <2> QED
      BY <1>4, <2>3
  <1>6. IsLaunchRequests(q) => IsLaunchRequests(reqs)
    BY <1>1, <1>4 DEF IsLaunchRequests
  <1>7. Elements(q) \subseteq Elements(reqs)
    BY <1>1, <1>3 DEF Elements
  <1> QED
    BY <1>2, <1>5, <1>6, <1>7 DEF OneEach

(* The steps that change what one NodeHost has to do.                       *)
LEMMA OneHostPlan ==
    ASSUME Inv, PlanInv, NEW h \in Hosts,
           GoodHost(requests'[h], outgoing'[h], queue'[h], disk'[h], phase'[h]),
           \A g \in Hosts \ {h} :
              /\ requests'[g] = requests[g] /\ outgoing'[g] = outgoing[g]
              /\ queue'[g] = queue[g] /\ disk'[g] = disk[g]
              /\ phase'[g] = "applied" => phase[g] = "applied"
    PROVE  HostPlan'
  <1>1. ASSUME NEW g \in Hosts \ {h}
        PROVE  GoodHost(requests'[g], outgoing'[g], queue'[g], disk'[g], phase'[g])
    <2>1. GoodHost(requests[g], outgoing[g], queue[g], disk[g], phase[g])
      BY DEF PlanInv, HostPlan
    <2>2. GoodHost(requests[g], outgoing[g], queue[g], disk[g], phase'[g])
      BY <2>1, PhaseGood
    <2> QED
      BY <2>2
  <1>2. \A g \in Hosts : GoodHost(requests'[g], outgoing'[g], queue'[g], disk'[g], phase'[g])
    BY <1>1
  <1> QED
    BY <1>2 DEF HostPlan

LEMMA UpdateRequestsPlan ==
    ASSUME Inv, Inv', PlanInv, Launched => Launched', NEW d \in Drummers, UpdateRequests(d)
    PROVE  PlanInv'
  <1> DEFINE reqs == batch[d]
             launch == IsLaunchRequests(reqs)
  <1>1. /\ ApplyRequestsUpdate(reqs)
        /\ reqs # NoBatch
        /\ batch' = [batch EXCEPT ![d] = NoBatch]
        /\ UNCHANGED <<nodeVars, wireVars>>
    BY Zenon DEF UpdateRequests
  <1>2. UNCHANGED <<conf, queue, disk, changes, phase, reports, hostPanic>>
    BY <1>1 DEF nodeVars, wireVars
  <1>3. BatchPlan'
    BY <1>1, NoBatchPlan, BatchOf
  <1>4. UNCHANGED outgoing
    BY <1>1 DEF ApplyRequestsUpdate
  <1>5. /\ Listed(reqs) /\ SamePlan(reqs) /\ OneEachTo(reqs)
        /\ launch \/ Launched
    BY <1>1 DEF PlanInv, BatchPlan, Inv, BatchInv, GoodQueue
  <1>6. CASE requests' = requests
    BY <1>2, <1>3, <1>4, <1>6, BatchStepPlan
  <1>7. CASE requests' # requests
    <2>1. /\ requests' = Queued(reqs)
          /\ ~SecondLaunch(reqs)
          /\ kvMap' = IF launch THEN UpdateKV(kvMap, FinalKV(LaunchedKey, "true")) ELSE kvMap
      <3>1. ~(panicked' \/ SecondLaunch(reqs))
        BY <1>1, <1>7 DEF ApplyRequestsUpdate
      <3> QED
        BY <1>1, <3>1 DEF ApplyRequestsUpdate
    <2>2. \A h \in Hosts : requests'[h] = RequestsTo(reqs, h) \/ requests'[h] = requests[h]
      BY <2>1 DEF Queued
    <2>3. Launched'
      <3>1. CASE launch
        <4> DEFINE kv == FinalKV(LaunchedKey, "true")
        <4>1. kvMap' = UpdateKV(kvMap, kv) /\ kv.key = LaunchedKey
          BY <2>1, <3>1 DEF FinalKV
        <4> HIDE DEF kv
        <4>2. DOMAIN kvMap' = DOMAIN kvMap \cup {kv.key}
          BY <4>1, RecordsUpdated
        <4> QED
          BY <4>1, <4>2, Zenon DEF Launched
      <3> QED
        BY <1>5, <3>1
    <2>4. launch => ~Launched
      BY <2>1 DEF SecondLaunch
    <2>5. EarlyInv'
      BY <2>3 DEF EarlyInv
    <2>6. HostPlan'
      <3>1. ASSUME NEW h \in Hosts
            PROVE  GoodHost(requests'[h], outgoing[h], queue[h], disk[h], phase[h])
        <4>1. GoodHost(requests[h], outgoing[h], queue[h], disk[h], phase[h])
          BY DEF PlanInv, HostPlan
        <4>2. CASE requests'[h] = requests[h]
          BY <4>1, <4>2
        <4>3. CASE requests'[h] = RequestsTo(reqs, h)
          <5>1. /\ OneEach(RequestsTo(reqs, h))
                /\ IsLaunchRequests(RequestsTo(reqs, h)) => launch
            BY <1>5, RequestsToPlan
          <5>2. launch => outgoing[h] = <<>> /\ Untouched(queue[h], disk[h])
            BY <2>4 DEF PlanInv, EarlyInv
          <5> HIDE DEF launch
          <5> QED
            BY <4>1, <4>3, <5>1, <5>2, WaitingGood
        <4> QED
          BY <2>2, <4>2, <4>3
      <3> QED
        BY <1>2, <1>4, <3>1 DEF HostPlan
    <2>7. ASSUME NEW r, OnItsWay(r)' PROVE OnItsWay(r) \/ r \in Elements(reqs)
      <3>1. \A h \in Hosts : Elements(RequestsTo(reqs, h)) \subseteq Elements(reqs)
        BY <1>5, RequestsToPlan
      <3>2. \A h \in Hosts : r \in Elements(requests'[h]) =>
               r \in Elements(requests[h]) \/ r \in Elements(reqs)
        BY <2>2, <3>1
      <3> HIDE DEF reqs
      <3> QED
        BY <1>2, <1>4, <2>7, <3>2 DEF OnItsWay, Elements
    <2>8. LaunchedFromOnePlan'
      <3>1. CASE launch
        <4>1. ASSUME NEW r PROVE ~OnItsWay(r)
          BY <2>4, <3>1, EmptyQueue DEF PlanInv, EarlyInv, OnItsWay, Untouched
        <4>2. \A r : OnItsWay(r)' => r \in Elements(reqs)
          BY <2>7, <4>1
        <4>3. \A r \in Elements(reqs), q \in Elements(reqs) :
                 IsLaunchRequest(r) /\ IsLaunchRequest(q) /\ q.shard = r.shard => q.peers = r.peers
          BY <1>5 DEF SamePlan, Elements
        <4>4. ASSUME NEW r \in Elements(reqs), IsLaunchRequest(r) PROVE ~LaunchedGroup(r.shard)'
          <5>1. GoodLaunch(r)
            BY <4>4 DEF Inv, BatchInv, GoodQueue, GoodOrder, GoodStart, GoodAdd, GoodDelete,
                        GoodKill, IsLaunchRequest
          <5>2. r.shard \in ShardIds
            BY <5>1, UsersAssumption DEF GoodLaunch, Inv, WantedInv
          <5> QED
            BY <1>2, <2>4, <3>1, <5>2 DEF PlanInv, EarlyInv, LaunchedGroup
        <4> HIDE DEF reqs, launch
        <4> QED
          BY <4>2, <4>3, <4>4, PlanOfAllNext
      <3>2. CASE ~launch
        <4>1. \A r \in Elements(reqs) : ~IsLaunchRequest(r)
          BY <3>2 DEF IsLaunchRequests, Elements
        <4>2. \A r : OnItsWay(r)' /\ IsLaunchRequest(r) => OnItsWay(r)
          BY <2>7, <4>1
        <4> QED
          BY <1>2, <4>2, PlanStays DEF PlanInv
      <3> QED
        BY <3>1, <3>2
    <2>9. WireInv' /\ ~hostPanic'
      <3>1. hostPanic' => hostPanic
        BY <1>2
      <3> QED
        BY <1>2, <3>1, PlanRests
    <2> QED
      BY <1>3, <2>5, <2>6, <2>8, <2>9 DEF PlanInv
  <1> QED
    BY <1>6, <1>7

-----------------------------------------------------------------------------
(* Orders handed over and fetched.                                          *)

LEMMA HandedOver ==
    ASSUME Inv', NEW nhi, ApplyNodeHostInfoUpdate(nhi)
    PROVE  /\ outgoing' = [outgoing EXCEPT ![nhi.addr] = requests[nhi.addr]]
           /\ requests' = [requests EXCEPT ![nhi.addr] = <<>>]
           /\ kvMap' = kvMap
  <1>1. ~panicked'
    BY DEF Inv, ImageInv
  <1>2. HandOver(nhi.addr) /\ kvMap' = kvMap
    BY <1>1 DEF ApplyNodeHostInfoUpdate
  <1> QED
    BY <1>2 DEF HandOver

LEMMA ApplyReportPlan ==
    ASSUME Inv, Inv', PlanInv, Launched => Launched', NEW r \in reports, ApplyReport(r)
    PROVE  PlanInv'
  <1> DEFINE h == r.nhi.addr
  <1>1. /\ ApplyNodeHostInfoUpdate(r.nhi)
        /\ reports' = reports \ {r}
        /\ phase' = phase \/ phase' = [phase EXCEPT ![h] = "applied"]
        /\ UNCHANGED <<nodeVars, drummerVars>>
    BY Zenon DEF ApplyReport
  <1>2. h \in Hosts /\ h \in SlowHosts
    BY DEF Inv, ReportsInv, GoodReport, PlanInv, WireInv
  <1>3. /\ outgoing' = [outgoing EXCEPT ![h] = requests[h]]
        /\ requests' = [requests EXCEPT ![h] = <<>>]
        /\ kvMap' = kvMap
    BY <1>1, HandedOver
  <1>4. UNCHANGED <<conf, queue, disk, changes, batch, hostPanic>>
    BY <1>1 DEF nodeVars, drummerVars
  <1> HIDE DEF h
  <1>5. /\ requests'[h] = <<>> /\ outgoing'[h] = requests[h]
        /\ \A g \in Hosts \ {h} : requests'[g] = requests[g] /\ outgoing'[g] = outgoing[g]
    BY <1>2, <1>3 DEF Inv, RequestsInv, OutgoingInv
  <1>6. /\ DOMAIN phase' = Hosts
        /\ \A g \in Hosts \ {h} : phase'[g] = phase[g]
    BY <1>1 DEF PlanInv, WireInv, h
  <1>7. HostPlan'
    <2>1. GoodHost(requests[h], outgoing[h], queue[h], disk[h], phase[h])
      BY <1>2 DEF PlanInv, HostPlan
    <2>2. GoodHost(<<>>, requests[h], queue[h], disk[h], phase'[h])
      BY <2>1, HandOverGood
    <2>3. GoodHost(requests'[h], outgoing'[h], queue'[h], disk'[h], phase'[h])
      BY <1>4, <1>5, <2>2
    <2> QED
      BY <1>2, <1>4, <1>5, <1>6, <2>3, OneHostPlan
  <1>8. EarlyInv'
    BY <1>3, <1>4, <1>5 DEF PlanInv, EarlyInv, Untouched, Launched
  <1>9. LaunchedFromOnePlan'
    <2>1. \A g \in Hosts : /\ Elements(requests'[g]) \subseteq Elements(requests[g])
                           /\ \A q \in Elements(outgoing'[g]) :
                                 q \in Elements(requests[g]) \/ q \in Elements(outgoing[g])
      BY <1>5, EmptyQueue
    <2>2. \A q : OnItsWay(q)' => OnItsWay(q)
      BY <1>4, <2>1 DEF OnItsWay, Elements
    <2> QED
      BY <1>4, <2>2, PlanStays DEF PlanInv
  <1>10. WireInv'
    BY <1>1, <1>2, <1>4, <1>6 DEF PlanInv, WireInv
  <1>11. BatchPlan' /\ ~hostPanic'
    <2>1. hostPanic' => hostPanic
      BY <1>4
    <2> QED
      BY <1>4, <2>1, PlanRests
  <1> QED
    BY <1>7, <1>8, <1>9, <1>10, <1>11 DEF PlanInv

(* The queue of a NodeHost that fetched orders.                             *)
LEMMA ReceivedIs ==
    ASSUME NEW h, NEW orders
    PROVE  \A s \in ShardIds :
              Received(h, orders)[s] = queue[h][s] \o Subsequence(orders, OrdersFor(orders, s))
  BY DEF Received, OrdersFor

LEMMA ExchangePlan ==
    ASSUME Inv, Inv', PlanInv, Launched => Launched', NEW h \in Hosts, Exchange(h)
    PROVE  PlanInv'
  <1>1. PICK included \in PlogIncluded : ApplyNodeHostInfoUpdate(ReportOf(h, included))
    BY DEF Exchange
  <1>2. /\ h \notin SlowHosts
        /\ queue' = queue \/ queue' = [queue EXCEPT ![h] = Received(h, outgoing'[h])]
        /\ UNCHANGED <<conf, disk, changes, hostPanic, wireVars, drummerVars>>
    BY DEF Exchange
  <1>3. UNCHANGED <<conf, disk, changes, hostPanic, phase, reports, batch>>
    BY <1>2 DEF wireVars, drummerVars
  <1>4. ReportOf(h, included).addr = h
    BY DEF ReportOf
  <1>5. /\ outgoing' = [outgoing EXCEPT ![h] = requests[h]]
        /\ requests' = [requests EXCEPT ![h] = <<>>]
        /\ kvMap' = kvMap
    BY <1>1, <1>4, HandedOver
  <1>6. /\ requests'[h] = <<>> /\ outgoing'[h] = requests[h]
        /\ \A g \in Hosts \ {h} : requests'[g] = requests[g] /\ outgoing'[g] = outgoing[g]
    BY <1>5 DEF Inv, RequestsInv, OutgoingInv
  <1>7. phase[h] = "idle"
    BY <1>2 DEF PlanInv, WireInv
  <1>8. \A g \in Hosts \ {h} : queue'[g] = queue[g]
    BY <1>2 DEF Inv, QueuesInv
  <1>9. /\ Listed(requests[h]) /\ \A s \in ShardIds : Listed(queue[h][s])
    BY DEF Inv, RequestsInv, QueuesInv, GoodQueue
  <1>10. GoodHost(<<>>, requests[h], queue[h], disk[h], "applied")
    <2>1. GoodHost(requests[h], outgoing[h], queue[h], disk[h], phase[h])
      BY DEF PlanInv, HostPlan
    <2> QED
      BY <2>1, HandOverGood
  <1>11. /\ GoodHost(<<>>, requests[h], queue'[h], disk[h], "idle")
         /\ \A s \in ShardIds : \A r \in Elements(queue'[h][s]) :
               r \in Elements(queue[h][s]) \/ r \in Elements(requests[h])
         /\ requests[h] = <<>> /\ Untouched(queue[h], disk[h]) => Untouched(queue'[h], disk[h])
    <2>1. CASE queue' = queue
      BY <1>10, <2>1, PhaseGood
    <2>2. CASE queue' = [queue EXCEPT ![h] = Received(h, outgoing'[h])]
      <3> DEFINE g == queue'[h]
      <3>1. g = Received(h, requests[h])
        BY <1>6, <2>2 DEF Inv, QueuesInv
      <3> HIDE DEF g
      <3>2. \A s \in ShardIds :
               g[s] = queue[h][s] \o Subsequence(requests[h], OrdersFor(requests[h], s))
        BY <3>1, ReceivedIs, Zenon
      <3> DEFINE w == <<>>
                 o == requests[h]
                 f == queue[h]
                 d == disk[h]
                 q == "idle"
      <3>3. /\ GoodHost(w, o, f, d, "applied")
            /\ Fetched(o, f, g)
            /\ q # "applied"
        BY <1>9, <1>10, <3>2 DEF Fetched
      <3> HIDE DEF w, o, f, d, q
      <3>4. /\ GoodHost(w, o, g, d, q)
            /\ NoneBut(o, f, g)
            /\ o = <<>> /\ Untouched(f, d) => Untouched(g, d)
        BY <3>3, FetchedGood
      <3> QED
        BY <3>4 DEF g, w, o, f, d, q, NoneBut
    <2> QED
      BY <1>2, <2>1, <2>2
  <1>12. HostPlan'
    <2>1. GoodHost(requests'[h], outgoing'[h], queue'[h], disk'[h], phase'[h])
      BY <1>3, <1>6, <1>7, <1>11
    <2> QED
      BY <1>3, <1>6, <1>8, <2>1, OneHostPlan
  <1>13. EarlyInv'
    <2>1. ~Launched' => ~Launched
      BY <1>5 DEF Launched
    <2>2. ASSUME ~Launched, NEW g \in Hosts
          PROVE  requests'[g] = <<>> /\ outgoing'[g] = <<>> /\ Untouched(queue'[g], disk'[g])
      <3>1. requests[g] = <<>> /\ outgoing[g] = <<>> /\ Untouched(queue[g], disk[g])
        BY <2>2 DEF PlanInv, EarlyInv
      <3> QED
        BY <1>3, <1>6, <1>8, <1>11, <3>1
    <2> QED
      BY <1>3, <2>1, <2>2 DEF PlanInv, EarlyInv, Untouched
  <1>14. LaunchedFromOnePlan'
    <2>1. \A g \in Hosts : /\ Elements(requests'[g]) \subseteq Elements(requests[g])
                           /\ \A q \in Elements(outgoing'[g]) :
                                 q \in Elements(requests[g]) \/ q \in Elements(outgoing[g])
      BY <1>6, EmptyQueue
    <2>2. \A g \in Hosts, s \in ShardIds : \A r \in Elements(queue'[g][s]) :
             r \in Elements(queue[g][s]) \/ r \in Elements(requests[g])
      BY <1>8, <1>11
    <2>3. \A q : OnItsWay(q)' => OnItsWay(q)
      BY <1>3, <2>1, <2>2 DEF OnItsWay, Elements
    <2> QED
      BY <1>3, <2>3, PlanStays DEF PlanInv
  <1>15. BatchPlan' /\ WireInv' /\ ~hostPanic'
    <2>1. hostPanic' => hostPanic
      BY <1>3
    <2> QED
      BY <1>3, <2>1, PlanRests
  <1> QED
    BY <1>12, <1>13, <1>14, <1>15 DEF PlanInv

LEMMA FetchRequestsPlan ==
    ASSUME Inv, PlanInv, Launched => Launched', NEW h \in Hosts, FetchRequests(h)
    PROVE  PlanInv'
  <1>1. /\ phase[h] = "applied"
        /\ phase' = [phase EXCEPT ![h] = "idle"]
        /\ queue' = [queue EXCEPT ![h] = Received(h, outgoing[h])]
        /\ UNCHANGED <<dbVars, conf, disk, changes, hostPanic, reports, drummerVars>>
    BY Zenon DEF FetchRequests, RequestsLookup
  <1>2. UNCHANGED <<requests, outgoing, conf, disk, changes, hostPanic, reports, batch>>
    BY <1>1 DEF dbVars, drummerVars
  <1>3. /\ DOMAIN phase' = Hosts
        /\ \A g \in Hosts : phase'[g] = phase[g] \/ phase'[g] = "idle"
        /\ phase'[h] = "idle"
    BY <1>1 DEF PlanInv, WireInv
  <1>4. \A g \in Hosts \ {h} : queue'[g] = queue[g]
    BY <1>1 DEF Inv, QueuesInv
  <1>5. /\ Listed(outgoing[h]) /\ \A s \in ShardIds : Listed(queue[h][s])
    BY DEF Inv, OutgoingInv, QueuesInv, GoodQueue
  <1>6. GoodHost(requests[h], outgoing[h], queue[h], disk[h], "applied")
    BY <1>1 DEF PlanInv, HostPlan
  <1>7. /\ GoodHost(requests[h], outgoing[h], queue'[h], disk[h], "idle")
        /\ \A s \in ShardIds : Elements(queue'[h][s]) \subseteq Elements(queue[h][s]) \cup Elements(outgoing[h])
        /\ outgoing[h] = <<>> /\ Untouched(queue[h], disk[h]) => Untouched(queue'[h], disk[h])
    <2> DEFINE g == queue'[h]
    <2>1. g = Received(h, outgoing[h])
      BY <1>1 DEF Inv, QueuesInv
    <2> HIDE DEF g
    <2>2. \A s \in ShardIds :
             g[s] = queue[h][s] \o Subsequence(outgoing[h], OrdersFor(outgoing[h], s))
      BY <2>1, ReceivedIs, Zenon
    <2> DEFINE w == requests[h]
               o == outgoing[h]
               f == queue[h]
               d == disk[h]
               q == "idle"
    <2>3. /\ GoodHost(w, o, f, d, "applied")
          /\ Fetched(o, f, g)
          /\ q # "applied"
      BY <1>5, <1>6, <2>2 DEF Fetched
    <2> HIDE DEF w, o, f, d, q
    <2>4. /\ GoodHost(w, o, g, d, q)
          /\ NoneBut(o, f, g)
          /\ o = <<>> /\ Untouched(f, d) => Untouched(g, d)
      BY <2>3, FetchedGood
    <2> QED
      BY <2>4 DEF g, w, o, f, d, q, NoneBut
  <1>8. HostPlan'
    <2>1. GoodHost(requests'[h], outgoing'[h], queue'[h], disk'[h], phase'[h])
      BY <1>2, <1>3, <1>7
    <2>2. \A g \in Hosts : phase'[g] = "applied" => phase[g] = "applied"
      BY <1>3
    <2> QED
      BY <1>2, <1>4, <2>1, <2>2, OneHostPlan
  <1>9. EarlyInv'
    <2>1. \A g \in Hosts : outgoing[g] = <<>> /\ Untouched(queue[g], disk[g])
                              => Untouched(queue'[g], disk'[g])
      BY <1>2, <1>4, <1>7
    <2> QED
      BY <1>2, <2>1 DEF PlanInv, EarlyInv, Untouched
  <1>10. LaunchedFromOnePlan'
    <2>1. \A g \in Hosts, s \in ShardIds : \A r \in Elements(queue'[g][s]) :
             r \in Elements(queue[g][s]) \/ r \in Elements(outgoing[g])
      BY <1>4, <1>7
    <2>2. \A q : OnItsWay(q)' => OnItsWay(q)
      BY <1>2, <2>1 DEF OnItsWay, Elements
    <2> QED
      BY <1>2, <2>2, PlanStays DEF PlanInv
  <1>11. WireInv'
    BY <1>2, <1>3 DEF PlanInv, WireInv
  <1>12. BatchPlan' /\ ~hostPanic'
    <2>1. hostPanic' => hostPanic
      BY <1>2
    <2> QED
      BY <1>2, <2>1, PlanRests
  <1> QED
    BY <1>8, <1>9, <1>10, <1>11, <1>12 DEF PlanInv

-----------------------------------------------------------------------------
(* Orders carried out.                                                      *)

\* The order that the worker of a shard carries out next.
NextOrder(h, s) == Head(queue[h][s])

LEMMA OrderTaken ==
    ASSUME Inv, NEW h \in Hosts, NEW s \in ShardIds, Take(h, s)
    PROVE  /\ queue[h][s] # <<>> /\ Listed(queue[h][s])
           /\ DOMAIN queue' = Hosts
           /\ queue'[h][s] = Tail(queue[h][s])
           /\ \A t \in ShardIds \ {s} : queue'[h][t] = queue[h][t]
           /\ \A g \in Hosts \ {h} : queue'[g] = queue[g]
           /\ OnItsWay(NextOrder(h, s))
           /\ \A g \in Hosts, t \in ShardIds : Elements(queue'[g][t]) \subseteq Elements(queue[g][t])
  <1> DEFINE q == queue[h][s]
  <1>1. q # <<>> /\ queue' = [queue EXCEPT ![h][s] = Tail(q)]
    BY DEF Take
  <1>2. DOMAIN queue = Hosts /\ \A g \in Hosts : DOMAIN queue[g] = ShardIds
    BY DEF Inv, QueuesInv
  <1>3. Listed(q)
    BY DEF Inv, QueuesInv, GoodQueue
  <1>4. /\ DOMAIN queue' = Hosts
        /\ queue'[h][s] = Tail(q)
        /\ \A t \in ShardIds \ {s} : queue'[h][t] = queue[h][t]
        /\ \A g \in Hosts \ {h} : queue'[g] = queue[g]
    BY <1>1, <1>2
  <1>5. Head(q) \in Elements(q) /\ Elements(Tail(q)) \subseteq Elements(q)
    BY <1>1, <1>3, TailOfQueue
  <1>6. OnItsWay(Head(q))
    BY <1>5 DEF OnItsWay
  <1>7. ASSUME NEW g \in Hosts, NEW t \in ShardIds
        PROVE  Elements(queue'[g][t]) \subseteq Elements(queue[g][t])
    <2>1. CASE g = h /\ t = s
      BY <1>4, <1>5, <2>1
    <2>2. CASE ~(g = h /\ t = s)
      <3>1. queue'[g][t] = queue[g][t]
        BY <1>4, <2>2
      <3> QED
        BY <3>1
    <2> QED
      BY <2>1, <2>2
  <1> QED
    BY <1>1, <1>3, <1>4, <1>6, <1>7 DEF NextOrder

(* One order is carried out, on one NodeHost.                               *)
LEMMA TakenPlan ==
    ASSUME Inv, PlanInv, Launched => Launched', NEW h \in Hosts, NEW s \in ShardIds, Take(h, s),
           UNCHANGED <<requests, outgoing, batch, reports, phase>>,
           DOMAIN disk' = Hosts,
           \A g \in Hosts \ {h} : disk'[g] = disk[g],
           \A x \in disk'[h] : x \in disk[h] \/ x[1] = s,
           changes' \subseteq changes \cup {NextOrder(h, s)},
           \A t \in ShardIds :
              \/ conf'[t] = conf[t]
              \/ /\ conf[t] = <<>> /\ t = s
                 /\ IsLaunchRequest(NextOrder(h, s))
                 /\ conf'[t] = <<NextOrder(h, s).peers>>,
           hostPanic' => hostPanic
    PROVE  PlanInv'
  <1>1. /\ queue[h][s] # <<>> /\ Listed(queue[h][s])
        /\ DOMAIN queue' = Hosts
        /\ queue'[h][s] = Tail(queue[h][s])
        /\ \A t \in ShardIds \ {s} : queue'[h][t] = queue[h][t]
        /\ \A g \in Hosts \ {h} : queue'[g] = queue[g]
        /\ OnItsWay(NextOrder(h, s))
        /\ \A g \in Hosts, t \in ShardIds : Elements(queue'[g][t]) \subseteq Elements(queue[g][t])
    BY OrderTaken
  <1>2. EarlyInv'
    <2>1. Launched
      BY <1>1 DEF PlanInv, EarlyInv, Untouched
    <2> QED
      BY <2>1 DEF EarlyInv
  <1>3. HostPlan'
    <2> DEFINE w == requests[h]
               o == outgoing[h]
               f == queue[h]
               d == disk[h]
               p == phase[h]
               g == queue'[h]
               e == disk'[h]
    <2>1. GoodHost(w, o, f, d, p)
      BY DEF PlanInv, HostPlan
    <2>2. /\ f[s] # <<>> /\ Listed(f[s]) /\ g[s] = Tail(f[s])
          /\ \A t \in ShardIds \ {s} : g[t] = f[t]
          /\ \A x \in e : x \in d \/ x[1] = s
      BY <1>1
    <2> HIDE DEF w, o, f, d, p, g, e
    <2>3. GoodHost(w, o, g, e, p)
      BY <2>1, <2>2, TakenGood
    <2>4. GoodHost(requests'[h], outgoing'[h], queue'[h], disk'[h], phase'[h])
      BY <2>3 DEF w, o, g, e, p
    <2> QED
      BY <1>1, <2>4, OneHostPlan
  <1>4. LaunchedFromOnePlan'
    <2>1. NextOrder(h, s).shard = s
      BY TakeGood DEF NextOrder
    <2>2. ASSUME NEW r, OnItsWay(r)' PROVE OnItsWay(r)
      <3>1. CASE r \in changes'
        <4>1. r \in changes \/ r = NextOrder(h, s)
          BY <3>1
        <4> QED
          BY <1>1, <4>1 DEF OnItsWay
      <3>2. CASE r \notin changes'
        <4>1. PICK g \in Hosts : \/ r \in Elements(requests'[g]) \/ r \in Elements(outgoing'[g])
                                 \/ \E t \in ShardIds : r \in Elements(queue'[g][t])
          BY <2>2, <3>2 DEF OnItsWay, Elements
        <4>2. \/ r \in Elements(requests[g]) \/ r \in Elements(outgoing[g])
              \/ \E t \in ShardIds : r \in Elements(queue[g][t])
          BY <1>1, <4>1
        <4> QED
          BY <4>2 DEF OnItsWay
      <3> QED
        BY <3>1, <3>2
    <2>3. ASSUME NEW t \in ShardIds, conf'[t] # <<>>
          PROVE  \/ conf[t] # <<>> /\ conf'[t][1] = conf[t][1]
                 \/ \E q : /\ OnItsWay(q) /\ IsLaunchRequest(q) /\ q.shard = t
                           /\ conf'[t][1] = q.peers
      <3>1. CASE conf'[t] = conf[t]
        BY <2>3, <3>1
      <3>2. CASE conf'[t] # conf[t]
        <4> DEFINE q == NextOrder(h, s)
        <4>1. t = s /\ IsLaunchRequest(q) /\ conf'[t] = <<q.peers>>
          BY <3>2
        <4>2. OnItsWay(q) /\ q.shard = t
          BY <1>1, <2>1, <4>1
        <4> HIDE DEF q
        <4>3. conf'[t][1] = q.peers
          BY <4>1
        <4> QED
          BY <4>1, <4>2, <4>3
      <3> QED
        BY <3>1, <3>2
    <2> QED
      BY <2>2, <2>3, PlanStays DEF PlanInv
  <1>5. WireInv'
    BY DEF PlanInv, WireInv
  <1>6. BatchPlan' /\ ~hostPanic'
    BY PlanRests
  <1> QED
    BY <1>2, <1>3, <1>4, <1>5, <1>6 DEF PlanInv

LEMMA DiskAfterStart ==
    ASSUME WireInv, NEW h \in Hosts, NEW s, NEW i,
           disk' = disk \/ disk' = [disk EXCEPT ![h] = disk[h] \cup {<<s, i>>}]
    PROVE  /\ DOMAIN disk' = Hosts
           /\ \A g \in Hosts \ {h} : disk'[g] = disk[g]
           /\ \A x \in disk'[h] : x \in disk[h] \/ x[1] = s
  BY DEF WireInv

LEMMA HandlePlan ==
    ASSUME Inv, PlanInv, Launched => Launched', NEW h \in Hosts, NEW s \in ShardIds, Handle(h, s)
    PROVE  PlanInv'
  <1> DEFINE r == NextOrder(h, s)
  <1>1. CASE HandleLaunch(h, s)
    <2>1. /\ Take(h, s)
          /\ IsLaunchRequest(r)
          /\ hostPanic' = (hostPanic \/ <<s, r.replica>> \in disk[h])
          /\ UNCHANGED <<dbVars, changes, wireVars, drummerVars>>
          /\ disk' = disk \/ disk' = [disk EXCEPT ![h] = disk[h] \cup {<<s, r.replica>>}]
          /\ conf' = conf \/ conf' = IF LaunchedGroup(s) THEN conf
                                     ELSE [conf EXCEPT ![s] = <<r.peers>>]
      BY <1>1, Zenon DEF HandleLaunch, StartReplica, NextOrder
    <2>2. UNCHANGED <<requests, outgoing, batch, reports, phase, changes>>
      BY <2>1 DEF dbVars, wireVars, drummerVars
    <2>3. WireInv
      BY DEF PlanInv
    <2>4. <<s, r.replica>> \notin disk[h]
      <3> DEFINE q == queue[h][s]
      <3>1. q # <<>> /\ Listed(q)
        BY <2>1, OrderTaken
      <3>2. GoodHost(requests[h], outgoing[h], queue[h], disk[h], phase[h])
        BY DEF PlanInv, HostPlan
      <3>3. \A k \in DOMAIN q : IsLaunchRequest(q[k]) => \A p \in disk[h] : p[1] # s
        BY <3>2 DEF GoodHost
      <3> HIDE DEF q
      <3>4. 1 \in DOMAIN q /\ Head(q) = q[1]
        BY <3>1 DEF Listed
      <3>5. IsLaunchRequest(Head(q))
        BY <2>1 DEF NextOrder, q
      <3>6. \A p \in disk[h] : p[1] # s
        BY <3>3, <3>4, <3>5
      <3>7. <<s, r.replica>>[1] = s
        OBVIOUS
      <3> QED
        BY <3>6, <3>7
    <2>5. \A t \in ShardIds :
              \/ conf'[t] = conf[t]
              \/ /\ conf[t] = <<>> /\ t = s
                 /\ IsLaunchRequest(r)
                 /\ conf'[t] = <<r.peers>>
      BY <2>1 DEF Inv, GroupInv, ConfType, LaunchedGroup
    <2>6. hostPanic' => hostPanic
      BY <2>1, <2>4
    <2>7. /\ DOMAIN disk' = Hosts
          /\ \A g \in Hosts \ {h} : disk'[g] = disk[g]
          /\ \A x \in disk'[h] : x \in disk[h] \/ x[1] = s
      BY <2>1, <2>3, DiskAfterStart
    <2> QED
      BY <2>1, <2>2, <2>5, <2>6, <2>7, TakenPlan
  <1>2. CASE HandleStart(h, s)
    <2>1. /\ Take(h, s)
          /\ UNCHANGED <<dbVars, conf, changes, hostPanic, wireVars, drummerVars>>
          /\ disk' = disk \/ disk' = [disk EXCEPT ![h] = disk[h] \cup {<<s, r.replica>>}]
      BY <1>2, Zenon DEF HandleStart, StartReplica, NextOrder
    <2>2. /\ UNCHANGED <<requests, outgoing, batch, reports, phase, changes, conf>>
          /\ hostPanic' => hostPanic
      BY <2>1 DEF dbVars, wireVars, drummerVars
    <2>3. /\ DOMAIN disk' = Hosts
          /\ \A g \in Hosts \ {h} : disk'[g] = disk[g]
          /\ \A x \in disk'[h] : x \in disk[h] \/ x[1] = s
      BY <2>1, DiskAfterStart DEF PlanInv
    <2> QED
      BY <2>1, <2>2, <2>3, TakenPlan
  <1>3. CASE HandleKill(h, s)
    <2>1. /\ Take(h, s)
          /\ UNCHANGED <<dbVars, conf, changes, hostPanic, wireVars, drummerVars>>
          /\ disk' = disk \/ disk' = [disk EXCEPT ![h] = disk[h] \ {<<s, r.replica>>}]
      BY <1>3, Zenon DEF HandleKill, NextOrder
    <2>2. /\ UNCHANGED <<requests, outgoing, batch, reports, phase, changes, conf>>
          /\ hostPanic' => hostPanic
      BY <2>1 DEF dbVars, wireVars, drummerVars
    <2>3. /\ DOMAIN disk' = Hosts
          /\ \A g \in Hosts \ {h} : disk'[g] = disk[g]
          /\ \A x \in disk'[h] : x \in disk[h] \/ x[1] = s
      BY <2>1 DEF PlanInv, WireInv
    <2> QED
      BY <2>1, <2>2, <2>3, TakenPlan
  <1>4. CASE HandleAddDelete(h, s)
    <2>1. /\ Take(h, s)
          /\ UNCHANGED <<dbVars, conf, disk, hostPanic, wireVars, drummerVars>>
          /\ changes' = changes \/ changes' = changes \cup {r}
      BY <1>4, Zenon DEF HandleAddDelete, NextOrder
    <2>2. /\ UNCHANGED <<requests, outgoing, batch, reports, phase, conf, disk>>
          /\ hostPanic' => hostPanic
          /\ changes' \subseteq changes \cup {r}
      BY <2>1 DEF dbVars, wireVars, drummerVars
    <2>3. /\ DOMAIN disk' = Hosts
          /\ \A g \in Hosts \ {h} : disk'[g] = disk[g]
          /\ \A x \in disk'[h] : x \in disk[h] \/ x[1] = s
      BY <2>2 DEF PlanInv, WireInv
    <2> QED
      BY <2>1, <2>2, <2>3, TakenPlan
  <1> QED
    BY <1>1, <1>2, <1>3, <1>4 DEF Handle

(* A group that commits a change keeps the memberships it had.              *)
LEMMA CommitChangePlan ==
    ASSUME Inv, PlanInv, Launched => Launched', NEW r \in changes, CommitChange(r)
    PROVE  PlanInv'
  <1> DEFINE s == r.shard
             m == NewMembership(Current(s), r)
  <1>1. /\ LaunchedGroup(s)
        /\ conf' = [conf EXCEPT ![s] = Append(conf[s], m)]
        /\ changes' = changes \ {r}
        /\ UNCHANGED <<dbVars, disk, queue, hostPanic, wireVars, drummerVars>>
    BY DEF CommitChange, HasQuorum
  <1>2. UNCHANGED <<requests, outgoing, queue, disk, batch, phase, reports, hostPanic>>
    BY <1>1 DEF dbVars, wireVars, drummerVars
  <1> HIDE DEF s, m
  <1>3. EarlyInv'
    <2>1. Launched
      BY DEF PlanInv, EarlyInv
    <2> QED
      BY <2>1 DEF EarlyInv
  <1>4. LaunchedFromOnePlan'
    <2>1. \A q : OnItsWay(q)' => OnItsWay(q)
      BY <1>1, <1>2 DEF OnItsWay
    <2>2. ASSUME NEW t \in ShardIds, conf'[t] # <<>>
          PROVE  conf[t] # <<>> /\ conf'[t][1] = conf[t][1]
      <3>1. CASE t # s
        BY <1>1, <2>2, <3>1 DEF Inv, GroupInv, ConfType
      <3>2. CASE t = s
        <4> DEFINE q == conf[s]
        <4>1. q \in Seq(Memberships) /\ q # <<>> /\ conf'[s] = Append(q, m)
          BY <1>1, <3>2 DEF Inv, GroupInv, ConfType, LaunchedGroup
        <4> HIDE DEF q
        <4>2. 1 \in 1..Len(q) /\ Append(q, m)[1] = q[1]
          BY <4>1
        <4> QED
          BY <3>2, <4>1, <4>2 DEF q
      <3> QED
        BY <3>1, <3>2
    <2> QED
      BY <2>1, <2>2, PlanStays DEF PlanInv
  <1>5. BatchPlan' /\ HostPlan' /\ WireInv' /\ ~hostPanic'
    <2>1. hostPanic' => hostPanic
      BY <1>2
    <2>2. \A h \in Hosts : phase'[h] = "applied" => phase[h] = "applied"
      BY <1>2
    <2> QED
      BY <1>2, <2>1, <2>2, PlanRests
  <1> QED
    BY <1>3, <1>4, <1>5 DEF PlanInv

-----------------------------------------------------------------------------
(* The induction.                                                           *)

(* The launched flag is never taken back.                                   *)
LEMMA LaunchedStays == [Next]_clusterVars => (Launched => Launched')
  <1> SUFFICES ASSUME [Next]_clusterVars, Launched PROVE Launched'
    OBVIOUS
  <1>1. ASSUME NEW kv, kvMap' = UpdateKV(kvMap, kv) PROVE Launched'
    <2>1. DOMAIN kvMap' = DOMAIN kvMap \cup {kv.key}
      BY <1>1, RecordsUpdated
    <2> QED
      BY <2>1 DEF Launched
  <1>2. kvMap' = kvMap => Launched'
    BY DEF Launched
  <1> QED
    BY <1>1, <1>2, RecordsStep

LEMMA PlanInit == Init => PlanInv
  <1> SUFFICES ASSUME Init PROVE PlanInv
    OBVIOUS
  <1>1. requests = [h \in Hosts |-> <<>>] /\ outgoing = [h \in Hosts |-> <<>>]
    BY DEF Init, Init_DB
  <1>2. /\ conf = [s \in ShardIds |-> <<>>]
        /\ disk = [h \in Hosts |-> {}]
        /\ queue = [h \in Hosts |-> [s \in ShardIds |-> <<>>]]
        /\ changes = {} /\ reports = {}
        /\ phase = [h \in Hosts |-> "idle"]
        /\ batch = [d \in Drummers |-> NoBatch]
        /\ hostPanic = FALSE
    BY DEF Init, Init_Nodes
  <1>3. \A h \in Hosts : /\ requests[h] = <<>> /\ outgoing[h] = <<>>
                         /\ disk[h] = {} /\ \A s \in ShardIds : queue[h][s] = <<>>
    BY <1>1, <1>2
  <1>4. EarlyInv
    BY <1>2, <1>3 DEF EarlyInv, Untouched
  <1>5. BatchPlan
    <2>1. \A d \in Drummers : GoodPlan(batch[d])
      BY <1>2, NoBatchPlan
    <2> QED
      BY <2>1 DEF BatchPlan, GoodPlan
  <1>6. HostPlan
    BY <1>3, NothingToLaunch DEF HostPlan, GoodHost, Untouched
  <1>7. WireInv
    BY <1>2 DEF WireInv
  <1>8. LaunchedFromOnePlan
    <2>1. \A r : ~OnItsWay(r)
      BY <1>2, <1>3, EmptyQueue DEF OnItsWay
    <2> QED
      BY <2>1, PlanOfAll
  <1>9. ~hostPanic
    BY <1>2
  <1> QED
    BY <1>4, <1>5, <1>6, <1>7, <1>8, <1>9 DEF PlanInv

LEMMA StutterPlan ==
    ASSUME Inv, PlanInv, Launched => Launched', UNCHANGED clusterVars
    PROVE  PlanInv'
  <1>1. UNCHANGED <<dbVars, nodeVars, wireVars, drummerVars>>
    BY Zenon DEF clusterVars
  <1>2. /\ UNCHANGED <<conf, requests, outgoing, queue, disk, batch, phase, reports, hostPanic>>
        /\ changes' \subseteq changes
    BY <1>1 DEF dbVars, nodeVars, wireVars, drummerVars
  <1> QED
    BY <1>2, QuietPlan

LEMMA PlanInvNext ==
    ASSUME Inv, Inv', RegionsInv, PlanInv, [Next]_clusterVars
    PROVE  PlanInv'
  <1>0. Launched => Launched'
    BY LaunchedStays
  <1>1. CASE SubmitChange \/ SetRegions \/ SetBootstrapped \/ DrummerTick
    BY <1>0, <1>1, SettingsPlan
  <1>2. ASSUME NEW d \in Drummers, Schedule(d) \/ UpdateRequests(d) \/ LoseBatch(d)
        PROVE  PlanInv'
    BY <1>0, <1>2, SchedulePlan, UpdateRequestsPlan, LoseBatchPlan
  <1>3. ASSUME NEW h \in Hosts,
               Exchange(h) \/ SendReport(h) \/ GiveUp(h) \/ FetchRequests(h) \/ Crash(h)
        PROVE  PlanInv'
    BY <1>0, <1>3, ExchangePlan, SendReportPlan, GiveUpPlan, FetchRequestsPlan, CrashPlan
  <1>4. ASSUME NEW r \in reports, ApplyReport(r) \/ LoseReport(r)
        PROVE  PlanInv'
    BY <1>0, <1>4, ApplyReportPlan, LoseReportPlan
  <1>5. ASSUME NEW h \in Hosts, NEW s \in ShardIds, Handle(h, s)
        PROVE  PlanInv'
    BY <1>0, <1>5, HandlePlan
  <1>6. ASSUME NEW r \in changes, CommitChange(r) \/ DropChange(r)
        PROVE  PlanInv'
    BY <1>0, <1>6, CommitChangePlan, NodePlan
  <1>7. ASSUME NEW h \in Hosts, NEW s \in ShardIds, NEW c \in DOMAIN conf[s],
               CatchUp(h, s, c)
        PROVE  PlanInv'
    BY <1>0, <1>7, NodePlan
  <1>8. ASSUME NEW h \in Hosts, Restart(h) PROVE PlanInv'
    BY <1>0, <1>8, NodePlan
  <1>9. CASE UNCHANGED clusterVars
    BY <1>0, <1>9, StutterPlan
  <1> QED
    BY <1>1, <1>2, <1>3, <1>4, <1>5, <1>6, <1>7, <1>8, <1>9, Zenon DEF Next

(* The invariant of the launch: until the flag is set nothing is ordered,   *)
(* what is ordered then comes from one batch, and on every NodeHost it      *)
(* comes first (updateRequests of db.go, schedule of drummer.go).           *)
THEOREM LaunchIsOnce == Spec => []PlanInv
  <1>1. /\ Inv /\ RegionsInv /\ PlanInv /\ [Next]_clusterVars
        /\ (Inv /\ RegionsInv)'
        => PlanInv'
    BY PlanInvNext
  <1> QED
    BY <1>1, PlanInit, RepairIsSafe, PTL DEF Spec

(* Two Drummers may both compute a launch, with different members for the   *)
(* same shard.  The orders the DB accepts, and the first membership of the  *)
(* group, are those of one of them (updateRequests of db.go checks and sets *)
(* the launched flag in one update).                                        *)
THEOREM LaunchedFromOnePlanHolds == Spec => []LaunchedFromOnePlan
  BY LaunchIsOnce, PTL DEF PlanInv

(* No NodeHost is told to launch a replica it already has, whatever reports *)
(* are repeated, lost or late, and whether or not it crashed in between     *)
(* (handleInstantiateRequest of client/nodehost.go panics if it is).        *)
THEOREM LaunchedAtMostOnceHolds == Spec => []LaunchedAtMostOnce
  BY LaunchIsOnce, PTL DEF PlanInv, LaunchedAtMostOnce

(* A pass panics for no other reason than that it launches and no regions   *)
(* are set, or that their counts exceed the members of a shard, which       *)
(* SetBootstrapped and SetRegions let users do (getLaunchRequests of        *)
(* scheduler.go).  It never repairs a shard nobody asked for: what          *)
(* NodeHosts report and the image takes over, however late, is about the    *)
(* shards of the users (getShardSize and getAppName of scheduler.go).       *)
THEOREM PanicsOnlyUnpreparedHolds == Spec => []PanicsOnlyUnprepared
  <1>1. ASSUME Inv, RegionsInv, LaunchPanics(Context), RegionsKey \in DOMAIN kvMap
        PROVE  \E s \in DOMAIN shards : RegionTotal[Len(UserRegions)] > Len(shards[s])
    <2>1. Context.regions = UserRegions /\ UserRegions # <<>>
      BY <1>1, ContextIsDB, UsersAssumption DEF ContextFacts, RegionsInv, RegionsLookup
    <2>2. PICK s \in DOMAIN shards :
             \E sel \in Placements(Context, s) : Len(sel) > Len(shards[s])
      BY <1>1, <2>1, ContextIsDB DEF ContextFacts, LaunchPanics
    <2>3. PICK sel \in Placements(Context, s) : Len(sel) > Len(shards[s])
      BY <2>2
    <2> DEFINE all == RegionTotal[Len(UserRegions)]
               S == Suitable(Context, s)
               members == UserShards[s]
    <2>4. sel \in Seq(S) /\ Len(sel) <= all
      BY <2>1, PlacementGood
    <2>5. all \in Nat
      BY RegionsAddUp
    <2>6. s \in DOMAIN UserShards /\ shards[s] = members
      BY <1>1 DEF Inv, WantedInv
    <2>7. members \in Seq(ReplicaIds)
      BY <2>6, UsersAssumption
    <2> HIDE DEF all, S, members
    <2>8. all > Len(shards[s])
      BY <2>3, <2>4, <2>5, <2>6, <2>7
    <2> QED
      BY <2>8 DEF all
  <1>2. ASSUME Inv PROVE ~MaintainPanics(Context)
    <2>1. ASSUME NEW s \in ToRepair(Context) PROVE s \in DOMAIN Context.shards
      <3>1. s \in DOMAIN shardImage
        BY ContextIsDB DEF ToRepair, ContextFacts
      <3>2. s \in DOMAIN shards
        BY <1>2, <3>1, ImageKnown
      <3> QED
        BY <3>2, ContextIsDB DEF ContextFacts
    <2> QED
      BY <2>1 DEF MaintainPanics
  <1>3. Inv /\ RegionsInv => PanicsOnlyUnprepared
    BY <1>1, <1>2 DEF PanicsOnlyUnprepared
  <1> QED
    BY <1>3, RepairIsSafe, PTL
=============================================================================

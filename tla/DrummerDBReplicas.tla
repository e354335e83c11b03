-------------------------- MODULE DrummerDBReplicas --------------------------
(***************************************************************************)
(* Two replicas of the Drummer DB (db.go): one that applies every entry of *)
(* the log as soon as it is committed, and one that lags, crashes, and     *)
(* comes back from a snapshot - its own or the other's - with the entries  *)
(* after it to be applied again.                                           *)
(*                                                                         *)
(* The log is dragonboat's and external: entries are applied in order,     *)
(* and those that a snapshot of the first replica covers are compacted.    *)
(* A replica whose DB failed panics, and so it does whenever it starts     *)
(* again: it never leaves the entry it failed at.                          *)
(***************************************************************************)
EXTENDS DrummerDBService

CONSTANTS Reports,                \* bound: reports of NodeHosts, a sample of Report
          MaxEntries, MaxCrashes  \* bounds of the model

VARIABLES
    log,        \* the entries committed
    past,       \* history: the DB after each prefix of the log
    streamed,   \* the last snapshot of the first replica; the log starts after it
    saved,      \* the last snapshot on the second replica's disk
    index,      \* the last entry the second replica applied
    crashes,
    \* the second replica's DB
    tick2, launchDeadline2, failed2, shards2, kvMap2, shardImage2,
    replicasToKill2, nodeHostImage2, requests2, outgoing2, panicked2

Second == INSTANCE DrummerDB WITH
    tick <- tick2, launchDeadline <- launchDeadline2, failed <- failed2,
    shards <- shards2, kvMap <- kvMap2, shardImage <- shardImage2,
    replicasToKill <- replicasToKill2, nodeHostImage <- nodeHostImage2,
    requests <- requests2, outgoing <- outgoing2, panicked <- panicked2

secondVars == <<tick2, launchDeadline2, failed2, shards2, kvMap2, shardImage2,
                replicasToKill2, nodeHostImage2, requests2, outgoing2, panicked2>>
logVars == <<log, past, streamed>>
vars == <<dbVars, secondVars, logVars, saved, index, crashes>>

-----------------------------------------------------------------------------
(* SaveSnapshot and RecoverFromSnapshot: all fields but the ids.           *)

Snapshot(n, t, deadline, f, sh, kvs, image, kill, hosts, reqs, out) ==
    [index |-> n, tick |-> t, launchDeadline |-> deadline, failed |-> f,
     shards |-> sh, kvMap |-> kvs, shardImage |-> image, replicasToKill |-> kill,
     nodeHostImage |-> hosts, requests |-> reqs, outgoing |-> out]

FirstSnapshot ==
    Snapshot(Len(log), tick, launchDeadline, failed, shards, kvMap, shardImage,
             replicasToKill, nodeHostImage, requests, outgoing)

SecondSnapshot ==
    Snapshot(index, tick2, launchDeadline2, failed2, shards2, kvMap2, shardImage2,
             replicasToKill2, nodeHostImage2, requests2, outgoing2)

NewSnapshot ==
    Snapshot(0, 0, 0, FALSE, EmptyMap, EmptyMap, EmptyMap, {}, EmptyMap,
             [h \in Hosts |-> <<>>], [h \in Hosts |-> <<>>])

\* Faulty variants: orders that wait are left behind; the deadline is counted
\* from the tick of the snapshot.
WithoutRequests(s) == [s EXCEPT !.requests = [h \in Hosts |-> <<>>]]
WithTimeLeft(s) ==
    [s EXCEPT !.launchDeadline = IF @ > s.tick THEN @ - s.tick ELSE @]

Recovered(s) == s

RecoverFromSnapshot(snapshot) ==
    LET s == Recovered(snapshot)
    IN  /\ tick2' = s.tick
        /\ launchDeadline2' = s.launchDeadline
        /\ failed2' = s.failed
        /\ shards2' = s.shards
        /\ kvMap2' = s.kvMap
        /\ shardImage2' = s.shardImage
        /\ replicasToKill2' = s.replicasToKill
        /\ nodeHostImage2' = s.nodeHostImage
        /\ requests2' = s.requests
        /\ outgoing2' = s.outgoing
        /\ panicked2' = FALSE
        /\ index' = s.index

Init ==
    /\ Init_DB /\ Second!Init_DB
    /\ log = <<>>
    /\ past = <<>>
    /\ streamed = NewSnapshot
    /\ saved = NewSnapshot
    /\ index = 0
    /\ crashes = 0

-----------------------------------------------------------------------------
(* Update: the entries, on either replica.  One that is refused is applied  *)
(* like any other and changes nothing.                                      *)

TickEntry            == [type |-> "tick"]
ReportEntry(nhi)     == [type |-> "report", nhi |-> nhi]
RequestsEntry(reqs)  == [type |-> "requests", reqs |-> reqs]
KVEntry(kv)          == [type |-> "kv", kv |-> kv]
ShardEntry(s, m)     == [type |-> "shard", shard |-> s, members |-> m]

Entries ==
    {TickEntry}
    \cup {ReportEntry(nhi) : nhi \in Reports}
    \cup {RequestsEntry(reqs) : reqs \in Batches}
    \cup {KVEntry(kv) : kv \in KVUpdates}
    \cup {ShardEntry(s, Members(s, 1)) : s \in ShardIds}

UpdateFirst(e) ==
    CASE e.type = "tick"     -> ApplyTickUpdate
      [] e.type = "report"   -> ApplyNodeHostInfoUpdate(e.nhi)
      [] e.type = "requests" -> ApplyRequestsUpdate(e.reqs)
      [] e.type = "kv"       -> ApplyKVUpdate(e.kv)
      [] e.type = "shard"    -> IF Bootstrapped \/ e.shard \in DOMAIN shards
                                  THEN UNCHANGED dbVars
                                  ELSE TryCreateShard(e.shard, e.members)

UpdateSecond(e) ==
    CASE e.type = "tick"     -> Second!ApplyTickUpdate
      [] e.type = "report"   -> Second!ApplyNodeHostInfoUpdate(e.nhi)
      [] e.type = "requests" -> Second!ApplyRequestsUpdate(e.reqs)
      [] e.type = "kv"       -> Second!ApplyKVUpdate(e.kv)
      [] e.type = "shard"    -> IF Second!Bootstrapped \/ e.shard \in DOMAIN shards2
                                  THEN UNCHANGED secondVars
                                  ELSE Second!TryCreateShard(e.shard, e.members)

-----------------------------------------------------------------------------
Commit ==
    /\ Running
    /\ Len(log) < MaxEntries
    /\ \E e \in Entries : UpdateFirst(e) /\ log' = Append(log, e)
    /\ past' = Append(past, dbVars')
    /\ UNCHANGED <<secondVars, streamed, saved, index, crashes>>

\* The next entry, when the log still has it.
Apply ==
    /\ Second!Running
    /\ index < Len(log)
    /\ streamed.index <= index
    /\ UpdateSecond(log[index + 1])
    /\ index' = index + 1
    /\ UNCHANGED <<dbVars, logVars, saved, crashes>>

\* The first replica takes a snapshot and the log is cut.
StreamSnapshot ==
    /\ Running
    /\ streamed.index < Len(log)
    /\ streamed' = FirstSnapshot
    /\ UNCHANGED <<dbVars, secondVars, log, past, saved, index, crashes>>

SaveSnapshot ==
    /\ Second!Running
    /\ saved.index < index
    /\ saved' = SecondSnapshot
    /\ UNCHANGED <<dbVars, secondVars, logVars, index, crashes>>

\* The second replica receives a snapshot that is ahead of it.
InstallSnapshot ==
    /\ Second!Running
    /\ index < streamed.index
    /\ RecoverFromSnapshot(streamed)
    /\ saved' = streamed
    /\ UNCHANGED <<dbVars, logVars, crashes>>

\* NewDB and, when there is one, the snapshot on disk.
Restart ==
    /\ crashes < MaxCrashes
    /\ crashes' = crashes + 1
    /\ RecoverFromSnapshot(saved)
    /\ UNCHANGED <<dbVars, logVars, saved>>

Next == Commit \/ Apply \/ StreamSnapshot \/ SaveSnapshot \/ InstallSnapshot \/ Restart

\* A replica that runs goes on applying, from the log or from a snapshot.
ReplicatedSpec == Init /\ [][Next]_vars /\ WF_vars(Apply) /\ WF_vars(InstallSnapshot)

-----------------------------------------------------------------------------
(* Replicas that applied the same entries are in the same state, images,    *)
(* orders and launch deadline included, whichever way they came there: by   *)
(* the log alone, or by snapshots and replays after crashes.  It supposes   *)
(* that an update depends on nothing but the state and the entry, and that  *)
(* RecoverFromSnapshot leaves no field behind (db.go:165).  A deployment    *)
(* that failed to launch thereby fails again at the same entry on every     *)
(* replica that is started again (db.go:143).                               *)
ReplicasAgree ==
    index > 0 => past[index] = secondVars

(* A replica catches up, however far it fell behind, or fails where the     *)
(* other did.                                                               *)
CatchesUp == <>[](index = Len(log))
=============================================================================

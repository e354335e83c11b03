------------------------------ MODULE DrummerKV ------------------------------
(***************************************************************************)
(* The key-value records of the Drummer DB: the decision taken by          *)
(* applyKVUpdate of db.go, on which both the launch handshake (finalized   *)
(* records) and the election of the leader Drummer (compare-and-swap on    *)
(* the instance id) are built.                                             *)
(***************************************************************************)

\* The result codes DBKVUpdated, DBKVFinalized and DBKVRejected.
DBKVUpdated   == "updated"
DBKVFinalized == "finalized"
DBKVRejected  == "rejected"

\* Faulty variant: a finalized record is a record like any other.
KVResultIgnoresFinalized(kvMap, kv) ==
    IF kv.key \notin DOMAIN kvMap THEN DBKVUpdated
    ELSE IF kvMap[kv.key].instanceId \in {kv.instanceId, kv.oldInstanceId}
           THEN DBKVUpdated
           ELSE DBKVRejected

\* Faulty variant: nobody asks whose record it is.
KVResultIgnoresOwner(kvMap, kv) ==
    IF kv.key \in DOMAIN kvMap /\ kvMap[kv.key].finalized
      THEN DBKVFinalized ELSE DBKVUpdated

KVResult(kvMap, kv) ==
    IF kv.key \notin DOMAIN kvMap THEN DBKVUpdated
    ELSE LET oldRec == kvMap[kv.key]
         IN  IF oldRec.finalized THEN DBKVFinalized
             ELSE IF oldRec.instanceId \in {kv.instanceId, kv.oldInstanceId}
                    THEN DBKVUpdated
                    ELSE DBKVRejected

\* The record stored is the whole update, except that the old instance id in
\* it is never read again.
KVRecord(kv) ==
    [value      |-> kv.value,
     instanceId |-> kv.instanceId,
     tick       |-> kv.tick,
     finalized  |-> kv.finalized]

UpdateKV(kvMap, kv) ==
    IF KVResult(kvMap, kv) # DBKVUpdated THEN kvMap
    ELSE [k \in DOMAIN kvMap \cup {kv.key} |->
             IF k = kv.key THEN KVRecord(kv) ELSE kvMap[k]]

\* A record written once and for all, as proposeFinalizedKV and setLaunched do.
FinalKV(key, value) ==
    [key |-> key, value |-> value, instanceId |-> 0, oldInstanceId |-> 0,
     tick |-> 0, finalized |-> TRUE]
=============================================================================

------------------------ MODULE MCDrummerDBReplicas ------------------------
(* One shard with one replica on one NodeHost: a log that creates it,       *)
(* launches it and waits for its report until the deadline.                 *)
EXTENDS DrummerDBReplicas, TLC

MCHistory == [s \in ShardIds |-> <<(1 :> "h1")>>]

MCBatches ==
    {<<[type |-> "CREATE", shard |-> "s1", replica |-> 1, to |-> "h1",
        join |-> FALSE, restore |-> FALSE]>>}

MCReports ==
    {[addr |-> "h1", region |-> "default", info |-> info, plogIncluded |-> TRUE,
      plog |-> {<<"s1", 1>> : s \in DOMAIN info}] :
        info \in {EmptyMap, "s1" :> PendingInfo(1), "s1" :> CompleteInfo("s1", 1, 1, TRUE)}}

MCKVUpdates == {FinalKV(BootstrappedKey, "true")}
=============================================================================

---------------------------- MODULE MCDrummerDB ----------------------------
(* An instance of DrummerDBService: one shard whose group is launched with  *)
(* replica 1, adds replica 2 and then removes replica 1, on two NodeHosts;  *)
(* a launch batch that rivals may submit again, an order of maintenance for *)
(* the other NodeHost, and two rivals for a finalized record.               *)
EXTENDS DrummerDBService, TLC

MCHistory ==
    [s \in ShardIds |-> <<(1 :> "h1"), (1 :> "h1" @@ 2 :> "h2"), (2 :> "h2")>>]

MCBatches ==
    {<<[type |-> "CREATE", shard |-> "s1", replica |-> 1, to |-> "h1",
        join |-> FALSE, restore |-> FALSE]>>,
     <<[type |-> "KILL", shard |-> "s1", replica |-> 2, to |-> "h2"]>>}

CONSTANTS one, two

MCKVUpdates == {FinalKV(RegionsKey, one), FinalKV(RegionsKey, two)}

\* The rivals' values are interchangeable.
Symmetry == Permutations({one, two})
=============================================================================

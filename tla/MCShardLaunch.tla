---------------------------- MODULE MCShardLaunch ----------------------------
(* The launch of one shard of two replicas by two Drummers at once.  Up to  *)
(* two reports of NodeHost h1 are under way, given up on and applied late,  *)
(* and h1 crashes once.                                                     *)
EXTENDS ShardCluster

CONSTANTS h1, h2, d1, d2

MCUserShards  == [s \in ShardIds |-> <<1, 2>>]
MCUserRegions == <<[region |-> "default", count |-> 2]>>
MCRegion      == [h \in Hosts |-> "default"]

\* Drummers are interchangeable: nothing orders them.
Symmetry == Permutations(Drummers)
=============================================================================

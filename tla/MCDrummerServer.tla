-------------------------- MODULE MCDrummerServer --------------------------
(* Two servers that start at once and a user who defines a shard and ends  *)
(* the bootstrap.                                                          *)
EXTENDS DrummerServer

MCUserShard == [u \in Users |-> 1]
=============================================================================

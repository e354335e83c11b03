------------------------- MODULE MCHistoryRecorder -------------------------
(* Three operations, one of them a write: enough for a write that fails,   *)
(* takes effect late, and is seen by one of two reads of the others.  The  *)
(* replica that is written to is another than the one that is read, so     *)
(* that a process that fails may hold a connection besides.                *)
EXTENDS HistoryRecorder

CONSTANTS A, B

MCValues  == 1..MaxWrites
MCTargets == {[type \in {"read", "write"} |-> IF type = "read" THEN A ELSE B]}
=============================================================================

---------------------------- MODULE MCSnapshots ----------------------------
(* Three requests for snapshots of two names, one of them generated.       *)
EXTENDS Snapshots

CONSTANTS s1, s2
=============================================================================

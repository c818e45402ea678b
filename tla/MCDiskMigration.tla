-------------------------- MODULE MCDiskMigration --------------------------
(* Three pools, one or two migrations of the disk, one request to start.   *)
EXTENDS DiskMigration

CONSTANTS m1, m2, s1
=============================================================================

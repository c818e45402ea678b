------------------------------ MODULE MCDisks ------------------------------
(* What is done with the disk of a machine: moves between pools            *)
(* (DiskMigration) and snapshots (Snapshots), under the names they have in *)
(* their modules.  A behaviour takes one part, and the variables of the    *)
(* other stay as they are.                                                 *)
EXTENDS DiskMigration, Snapshots

CONSTANTS m1, m2, starter, s1, s2

VARIABLE part

NoMigration == Init /\ run = None

MCInit ==
    /\ part \in {"migration", "snapshots"} /\ InitSnapshots
    /\ IF part = "migration" THEN Init ELSE NoMigration

MCNext ==
    \/ part = "migration" /\ Next /\ UNCHANGED <<part, snapshotVars>>
    \/ part = "snapshots" /\ SnapshotsNext /\ UNCHANGED <<part, vars>>

MCSpec == MCInit /\ [][MCNext]_<<part, vars, snapshotVars>>
=============================================================================

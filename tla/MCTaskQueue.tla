---------------------------- MODULE MCTaskQueue ----------------------------
(* A task of an administrator and one of a user, which has no handler; two *)
(* workers; a channel that holds one id, so that Submit may block.         *)
EXTENDS TaskQueue

CONSTANTS t1, t2, w1, w2, ann, root

MCCreatedBy == [t \in Tasks |-> IF t = t1 THEN root ELSE ann]
=============================================================================

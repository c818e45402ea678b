--------------------------- MODULE MCBatchCreate ---------------------------
(* A batch of three alone, for the run whose property the code violates.   *)
EXTENDS BatchCreate
=============================================================================

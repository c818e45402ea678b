--------------------------- MODULE MCRuntimeQuota ---------------------------
(* Model-checking instance of RuntimeQuota. *)
EXTENDS RuntimeQuota
=============================================================================

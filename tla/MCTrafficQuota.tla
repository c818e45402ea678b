--------------------------- MODULE MCTrafficQuota ---------------------------
(* Traffic quotas alone, for the run whose property the code violates.     *)
EXTENDS TrafficQuota
=============================================================================

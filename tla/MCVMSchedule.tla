---------------------------- MODULE MCVMSchedule ----------------------------
(* One machine with one schedule and one request at a time.                *)
EXTENDS VMSchedule

CONSTANTS s1, e1
=============================================================================

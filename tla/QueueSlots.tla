----------------------------- MODULE QueueSlots -----------------------------
(* What parts of the panel that run in one queue share: its workers.       *)
EXTENDS NoValue
CONSTANT Slots
=============================================================================

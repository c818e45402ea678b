------------------------------ MODULE NoValue ------------------------------
(* The value of what is not there: a nil pointer, a row that is not found, *)
(* a request that has not been made.                                       *)
CONSTANT None
=============================================================================

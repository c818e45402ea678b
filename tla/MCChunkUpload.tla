--------------------------- MODULE MCChunkUpload ---------------------------
(* Two requests at a time; contents of two chunks and of one.              *)
EXTENDS ChunkUpload, TLC

CONSTANTS a, b, r1, r2
MCSize == [c \in Contents |-> IF c = a THEN 2 ELSE 1]
MCSymmetry == Permutations(Reqs)
=============================================================================

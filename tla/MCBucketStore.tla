--------------------------- MODULE MCBucketStore ---------------------------
(* BucketStore on a small instance: one-chunk and two-chunk bodies. *)
EXTENDS BucketStore, TLC

CONSTANTS short, long

MCLength == [b \in Bodies |-> IF b = short THEN 1 ELSE 2]

Symmetry == Permutations(Callers)
=============================================================================

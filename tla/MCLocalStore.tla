---------------------------- MODULE MCLocalStore ----------------------------
(* LocalStore on a small instance: one-chunk and two-chunk bodies. *)
EXTENDS LocalStore, TLC

CONSTANTS short, long

MCLength == [b \in Bodies |-> IF b = short THEN 1 ELSE 2]
=============================================================================

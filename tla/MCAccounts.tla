----------------------------- MODULE MCAccounts -----------------------------
(* Accounts on a small instance. *)
EXTENDS Accounts, TLC

CONSTANTS r1, p1, p2

MCReplica == [r \in Handlers |-> IF r = r1 THEN p1 ELSE p2]

Symmetry == Permutations(Users) \cup Permutations(Sessions) \cup Permutations(Tokens)
=============================================================================

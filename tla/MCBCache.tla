------------------------------ MODULE MCBCache ------------------------------
(* An instance of BCache for TLC. *)
EXTENDS BCache, TLC

Symm == Permutations(Proc) \cup Permutations(Block) \cup Permutations(Value)
=============================================================================

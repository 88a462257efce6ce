----------------------------- MODULE MCMemPool -----------------------------
(* Four items: an inner range of two items needs a list of four.           *)
EXTENDS MemPool, TLC

Symmetry == Permutations(Item)
=============================================================================

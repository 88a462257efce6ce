---------------------------- MODULE MCTimeline ----------------------------
(* Timeline for TLC: items and producers are alike.                        *)
EXTENDS Timeline, TLC

Symmetry == Permutations(Item) \cup Permutations(Producer)
=============================================================================

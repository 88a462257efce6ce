----------------------------- MODULE MCProfiler -----------------------------
(* Profiler for TLC: the threads with no part of their own are alike.      *)
EXTENDS Profiler, TLC

Symmetry == Permutations(Thread \ {UI, Audio})
=============================================================================

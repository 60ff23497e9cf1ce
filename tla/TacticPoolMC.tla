---------------------------- MODULE TacticPoolMC ----------------------------
(***************************************************************************)
(* Instances of TacticPool with interchangeable requests and threads.      *)
(***************************************************************************)
EXTENDS TacticPool, TLC

Symmetry == Permutations(Requests) \cup Permutations(Threads)
=============================================================================

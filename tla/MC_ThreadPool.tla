---------------------------- MODULE MC_ThreadPool ----------------------------
(***************************************************************************)
(* Instances of ThreadPool: the calls ReSampler makes (push from convert's *)
(* block loop, the destructor at the end of a pass), and the whole         *)
(* interface of the header.                                                *)
(***************************************************************************)
EXTENDS ThreadPool, TLC

ReSamplerOps == {"push", "destroy"}

Symmetry == Permutations(Tasks) \cup Permutations(Workers)
===============================================================================

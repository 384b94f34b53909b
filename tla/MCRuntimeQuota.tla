---------------------------- MODULE MCRuntimeQuota ----------------------------
(* Instances of RuntimeQuota for TLC. *)
EXTENDS RuntimeQuota, TLC

CallerSymmetry == Permutations(Callers)
=============================================================================

--------------------------- MODULE MCDeploymentStore ---------------------------
(* Instances of DeploymentStore for TLC: days of four hours, refresh at two. *)
EXTENDS DeploymentStore, TLC

WorkerSymmetry == Permutations(Workers)
=============================================================================

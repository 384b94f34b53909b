--------------------------- MODULE MCFallbackRelay ---------------------------
(***************************************************************************)
(* Instances of FallbackRelay for TLC.  k is a Kilo deployment, a and b are *)
(* ordinary ones; each deployment has a channel of its own.                *)
(***************************************************************************)
EXTENDS FallbackRelay

CONSTANTS k, a, b

MCChannelOf == [d \in Deployments |-> d]

MCVirtualModelOf == [r \in Requests |-> CHOOSE v \in VirtualModels : TRUE]

\* One slot on the Kilo deployment, no limit elsewhere.
KiloLimitOne == [d \in Deployments |-> IF d = k THEN 1 ELSE 0]
=============================================================================

----------------------------- MODULE DeploymentSlots -----------------------------
(***************************************************************************)
(* What the concurrency limit promises (fallback/concurrency.go), whatever  *)
(* the relay loop does between: a request holds at most one slot at a time, *)
(* takes it on a deployment that has room, and gives it back before it      *)
(* takes another one.  FallbackRelay implements this specification.         *)
(***************************************************************************)
EXTENDS Naturals, FiniteSets

CONSTANTS
  Requests, Deployments,
  MaxConcurrent,   \* max_concurrent_requests; 0 means no limit
  NoDep            \* the request holds no slot

VARIABLE serving   \* the deployment whose slot each request holds

Occupants(d) == {r \in Requests : serving[r] = d}

HasRoom(d) == MaxConcurrent[d] = 0 \/ Cardinality(Occupants(d)) < MaxConcurrent[d]

SlotsInit == serving = [r \in Requests |-> NoDep]

Take(r, d) ==
  /\ serving[r] = NoDep /\ HasRoom(d)
  /\ serving' = [serving EXCEPT ![r] = d]

GiveBack(r) ==
  /\ serving[r] # NoDep
  /\ serving' = [serving EXCEPT ![r] = NoDep]

SlotsNext ==
  \E r \in Requests : GiveBack(r) \/ \E d \in Deployments : Take(r, d)

SlotsSpec == SlotsInit /\ [][SlotsNext]_serving
=================================================================================

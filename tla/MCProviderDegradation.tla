------------------------ MODULE MCProviderDegradation ------------------------
(***************************************************************************)
(* Instances of ProviderDegradation and of ModelRuntime for TLC.  The level *)
(* of a deployment and the state of its models share nothing (the models'   *)
(* 429s are not reported), so each behaviour exercises one of them.         *)
(* In ProviderDegradation a tick is five minutes: the longest cooldown, a   *)
(* third of the observation window and half a recovery interval.           *)
(***************************************************************************)
EXTENDS ProviderDegradation, ModelRuntime, TLC

VARIABLE focus

DegradationInit == Init /\ RuntimeInit /\ focus \in {"deployment", "model"}

DegradationNext ==
  \/ focus = "deployment" /\ Next /\ UNCHANGED <<runtimeVars, focus>>
  \/ focus = "model" /\ RuntimeNext /\ UNCHANGED <<vars, focus>>

DegradationSpec == DegradationInit /\ [][DegradationNext]_<<vars, runtimeVars, focus>>

ReporterSymmetry == Permutations(Reporters) \cup Permutations(Workers)
=============================================================================

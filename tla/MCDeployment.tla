---------------------------- MODULE MCDeployment ----------------------------
(* Model checking of Deployment: the checkpoints and adapters of MCModelLoad. *)
EXTENDS Deployment, MCModelLoad

=============================================================================

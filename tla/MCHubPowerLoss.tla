--------------------------- MODULE MCHubPowerLoss ---------------------------
(* An instance of HubPowerLoss for TLC. *)
EXTENDS HubPowerLoss, TLC

CONSTANT w1

OneWriter == w1 :> Ops
Symmetry == Permutations(Tensors)
=============================================================================

-------------------------- MODULE MCProvisionUnits --------------------------
(***************************************************************************)
(* ProvisionUnits for TLC: interchangeable queue consumers.                *)
(***************************************************************************)
EXTENDS ProvisionUnits, TLC

ConsumerSymmetry == Permutations(Consumers)
=============================================================================

-------------------------- MODULE MCProvisionRunner --------------------------
(* Four steps, the second chunked: a first step, a chunked one, one after   *)
(* it and the launch step are all the kinds of step the runner tells apart. *)
EXTENDS ProvisionRunner, TLC

MCChunked == {1}

DriverSymmetry == Permutations(Drivers)
=============================================================================

------------------------ MODULE MCListicleExperiments ------------------------
(* ListicleExperiments for TLC: interchangeable requests and experiments.  *)
EXTENDS ListicleExperiments, TLC

AdminSymmetry == Permutations(Admins) \cup Permutations(Experiments)
=============================================================================

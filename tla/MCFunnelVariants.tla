--------------------------- MODULE MCFunnelVariants ---------------------------
(* FunnelVariants for TLC: a hash that takes every value over two sessions *)
(* and two revisions, and interchangeable requests and tests.              *)
EXTENDS FunnelVariants, TLC

CONSTANT First                  \* the session of the lower half
MCBucket(t, r, s) == (r + IF s = First THEN 0 ELSE 1) % Whole
AdminSymmetry == Permutations(Admins) \cup Permutations(Tests)
=============================================================================

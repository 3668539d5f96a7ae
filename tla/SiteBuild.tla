------------------------------ MODULE SiteBuild ------------------------------
(***************************************************************************)
(* What site provisioning promises, with no job row, no driver and no      *)
(* clock: the registry's steps take effect one at a time and in registry   *)
(* order, and the site goes live with the last of them, never before.      *)
(* ProvisionRunner implements this specification however many drivers work *)
(* on one job at once and wherever they are evicted.                       *)
(***************************************************************************)
EXTENDS Integers

CONSTANT TotalSteps             \* steps.ts TOTAL_STEPS, the registry's length, at least 1

VARIABLES
  finished,                     \* steps whose handler has succeeded
  live                          \* sites.status = 'active'

vars == <<finished, live>>

Steps == 0 .. (TotalSteps - 1)
LastStep == TotalSteps - 1

Init ==
  /\ finished = {}
  /\ live = FALSE

(* A step takes effect only when every step before it has.                 *)
Finish(k) ==
  /\ k \notin finished
  /\ 0 .. (k - 1) \subseteq finished
  /\ finished' = finished \cup {k}
  /\ live' = (k = LastStep)

Next == \E k \in Steps : Finish(k)

Spec == Init /\ [][Next]_vars
=============================================================================

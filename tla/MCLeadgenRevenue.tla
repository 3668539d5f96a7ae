-------------------------- MODULE MCLeadgenRevenue --------------------------
(***************************************************************************)
(* LeadgenRevenue for TLC: interchangeable conversions and invocations.    *)
(***************************************************************************)
EXTENDS LeadgenRevenue, TLC

Symmetry == Permutations(Conversions) \cup Permutations(Requests)
=============================================================================

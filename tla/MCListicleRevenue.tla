-------------------------- MODULE MCListicleRevenue --------------------------
(***************************************************************************)
(* ListicleRevenue for TLC: every conversion has a click of its own.       *)
(***************************************************************************)
EXTENDS ListicleRevenue

MCClick == [c \in Conversions |-> c]
=============================================================================

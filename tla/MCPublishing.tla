---------------------------- MODULE MCPublishing ----------------------------
(***************************************************************************)
(* Publishing for TLC: one path, so one prefix to wipe.  Documents are     *)
(* interchangeable, so the one an article is created with can be fixed.    *)
(***************************************************************************)
EXTENDS Publishing, TLC

CONSTANT d1

OneWipe == <<CHOOSE p \in Paths : TRUE>>

FirstDocInit == Init /\ row.json = d1

FirstDocSpec == FirstDocInit /\ [][Next]_vars /\ Fairness
=============================================================================

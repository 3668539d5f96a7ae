----------------------------- MODULE RevenueLedger -----------------------------
(***************************************************************************)
(* What a revenue intake promises, with no postback log, no queue of       *)
(* unmatched postbacks, no retry and no invocation: a row of money is      *)
(* booked at most once and stays booked, and the Offer's conversion count  *)
(* is raised one at a time and only for a booked row that counts, no row   *)
(* counting twice.  LeadgenRevenue and ListicleRevenue both implement this *)
(* specification.                                                          *)
(***************************************************************************)
EXTENDS Integers, FiniteSets

CONSTANTS
  Rows,                         \* a conversion by one of its channels
  Counting                      \* those the conversion cap counts

VARIABLES
  booked,                       \* rows on the books
  counted                       \* conversion_count of the Offer

vars == <<booked, counted>>

Init ==
  /\ booked = {}
  /\ counted = 0

Book(row) ==
  /\ row \notin booked
  /\ booked' = booked \cup {row}
  /\ UNCHANGED counted

Count ==
  /\ counted < Cardinality(booked \cap Counting)
  /\ counted' = counted + 1
  /\ UNCHANGED booked

Next == (\E row \in Rows : Book(row)) \/ Count

Spec == Init /\ [][Next]_vars
=============================================================================

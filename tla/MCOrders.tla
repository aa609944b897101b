------------------------------- MODULE MCOrders -------------------------------
(***************************************************************************)
(* Small instances of Orders for TLC.                                      *)
(***************************************************************************)
EXTENDS Orders, TLC

\* Requests, keys and payloads differ in nothing but their name.
OrderSymmetry ==
  Permutations(Creates) \cup Permutations(Cancels) \cup Permutations(Keys)
  \cup Permutations(Payloads)
==============================================================================

------------------------------ MODULE MCService ------------------------------
(***************************************************************************)
(* Small instances of Service for TLC.                                     *)
(***************************************************************************)
EXTENDS Service, TLC

\* Processes, and requests, differ in nothing but their names.
ServiceSymmetry == Permutations(Processes) \cup Permutations(Requests)
==============================================================================

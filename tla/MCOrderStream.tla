---------------------------- MODULE MCOrderStream ----------------------------
(***************************************************************************)
(* Small instances of OrderStream for TLC.                                 *)
(***************************************************************************)
EXTENDS OrderStream, TLC

\* Subscribers and transactions differ in nothing but their name.
StreamSymmetry == Permutations(Subscribers) \cup Permutations(Writes)
==============================================================================

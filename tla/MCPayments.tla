------------------------------ MODULE MCPayments ------------------------------
(***************************************************************************)
(* Small instances of Payments for TLC.                                    *)
(***************************************************************************)
EXTENDS Payments, TLC

\* Calls differ in nothing but their name.
CallSymmetry == Permutations(Calls)
==============================================================================

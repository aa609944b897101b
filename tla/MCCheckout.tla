------------------------------ MODULE MCCheckout ------------------------------
(***************************************************************************)
(* Small instances of Checkout for TLC.                                    *)
(***************************************************************************)
EXTENDS Checkout, TLC

\* Requests differ in nothing but their name.
CheckoutSymmetry == Permutations(Creates)
==============================================================================

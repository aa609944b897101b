------------------------------ MODULE MCConsole ------------------------------
(***************************************************************************)
(* Small instances of Console for TLC.                                     *)
(***************************************************************************)
EXTENDS Console, TLC

\* Neither keys nor requests differ in anything but their name.
ConsoleSymmetry == Permutations(Keys) \cup Permutations(Calls)
==============================================================================

--------------------------- MODULE MCNotifications ---------------------------
(***************************************************************************)
(* Small instances of Notifications for TLC.                               *)
(***************************************************************************)
EXTENDS Notifications, TLC

\* Processes and message ids differ in nothing but their name.
MessageSymmetry == Permutations(Workers) \cup Permutations(MessageIds)
==============================================================================

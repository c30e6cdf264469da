--------------------------- MODULE MCHubLifecycle ---------------------------
(* HubLifecycle for TLC.                                                     *)
EXTENDS HubLifecycle, TLC

(* In the run of the lifecycle alone nobody reports a page. *)
NoPages == -1

ConnSymmetry == Permutations(Capture) \cup Permutations(Conn \ Capture)
=============================================================================

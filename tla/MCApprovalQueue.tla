-------------------------- MODULE MCApprovalQueue --------------------------
(* ApprovalQueue for TLC: suggestions and calls are interchangeable, except *)
(* in the liveness run, which uses no symmetry.                             *)
EXTENDS ApprovalQueue, TLC

QueueSymmetry == Permutations(Call) \cup Permutations(Suggestion)
=============================================================================

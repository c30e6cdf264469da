------------------------------ MODULE MCCopilot ------------------------------
(* Copilot for TLC.                                                          *)
EXTENDS Copilot, TLC

JobSymmetry == Permutations(Job)
=============================================================================

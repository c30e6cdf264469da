---------------------------- MODULE MCChecklist ----------------------------
(* Checklist for TLC: one item bound to page 0, one to no page.             *)
EXTENDS Checklist, TLC

CONSTANTS onPage0, unbound

Pages == (onPage0 :> 0) @@ (unbound :> -1)

JobSymmetry == Permutations(Job)
=============================================================================

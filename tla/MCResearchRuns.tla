---------------------------- MODULE MCResearchRuns ----------------------------
EXTENDS ResearchRuns

CONSTANTS l, h, web, typed

Bare(latin, han) == [latin |-> latin, han |-> han]
Says(t, e) == [f \in Field |-> IF f = "title" THEN t ELSE e]

(* One executive as three sources have the name. *)
MCFound ==
  {[name |-> Bare(l, None), zh |-> None, val |-> Says({web}, {})],
   [name |-> Bare(l, h),    zh |-> None, val |-> Says({}, {web})],
   [name |-> Bare(None, h), zh |-> h,    val |-> Says({web}, {web})]}

(* What users type. *)
MCCalled  == {Bare(l, h)}
MCTyped   == {{typed}}
MCEmpties == {{}, {typed}}
=============================================================================

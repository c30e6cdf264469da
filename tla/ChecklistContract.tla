-------------------------- MODULE ChecklistContract --------------------------
(***************************************************************************)
(* What the checklist promises (docs/MEETING_CHECKLIST_CONTRACT.md, 7.1 to   *)
(* 7.3 and 7.5): each item is ticked off, skipped or unticked in one step    *)
(* that nothing comes in between; the conversation and the slides only tick  *)
(* off what is pending then; the presenter has the last word; and what was   *)
(* unticked is not for the conversation until its window has turned over.    *)
(***************************************************************************)
CONSTANTS Item

VARIABLES
  status,   \* [Item -> {"pending", "covered", "skipped"}]
  by,       \* [Item -> who ticked it off, or "none"]
  unticked  \* items the presenter unticked a window ago or less

contractVars == <<status, by, unticked>>

ContractInit ==
  /\ status = [i \in Item |-> "pending"] /\ by = [i \in Item |-> "none"]
  /\ unticked = {}

StillPending(S) == \A i \in S : status[i] = "pending"

Set(S, to, who) ==
  /\ status' = [i \in Item |-> IF i \in S THEN to ELSE status[i]]
  /\ by' = [i \in Item |-> IF i \in S THEN who ELSE by[i]]

ByConversation(S) ==
  /\ StillPending(S) /\ S \cap unticked = {}
  /\ Set(S, "covered", "transcript")
  /\ UNCHANGED unticked

BySlide(S) ==
  /\ StillPending(S)
  /\ Set(S, "covered", "slide")
  /\ unticked' = unticked \ S

Check(i)   == Set({i}, "covered", "manual") /\ unticked' = unticked \ {i}
Skip(i)    == Set({i}, "skipped", "none") /\ unticked' = unticked \ {i}
Uncheck(i) == Set({i}, "pending", "none") /\ unticked' = unticked \cup {i}

WindowTurnsOver(i) == unticked' = unticked \ {i} /\ UNCHANGED <<status, by>>

ContractNext ==
  \/ \E S \in SUBSET Item : ByConversation(S) \/ BySlide(S)
  \/ \E i \in Item : Check(i) \/ Skip(i) \/ Uncheck(i) \/ WindowTurnsOver(i)

ContractSpec == ContractInit /\ [][ContractNext]_contractVars
=============================================================================

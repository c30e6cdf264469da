----------------------------- MODULE ApprovalFSM -----------------------------
(***************************************************************************)
(* What the approval queue promises (docs/PRODUCT_SPEC.md, I2 and the       *)
(* Approval FSM): IDLE -> SUGGESTED -> APPLIED on accept or edit, DISCARDED *)
(* on reject or timeout and for good.  A slide enters the live deck in the  *)
(* very step that applies its suggestion, and in no other.                  *)
(***************************************************************************)
CONSTANTS
  Suggestion,
  Ticket       \* identities of deck insertions

VARIABLES
  status,  \* [Suggestion -> {"idle", "suggested", "applied", "discarded"}]
  deck     \* set of <<suggestion, ticket>>: the supplementary slides in the deck

fsmVars == <<status, deck>>

FsmInit ==
  /\ status = [s \in Suggestion |-> "idle"]
  /\ deck = {}

Offer(s) ==
  /\ status[s] = "idle"
  /\ status' = [status EXCEPT ![s] = "suggested"]
  /\ UNCHANGED deck

Apply(s, t) ==
  /\ status[s] = "suggested"
  /\ status' = [status EXCEPT ![s] = "applied"]
  /\ deck' = deck \cup {<<s, t>>}

(* Reject and timeout discard one suggestion, the end of the session all    *)
(* that are left.                                                           *)
Discard(S) ==
  /\ \A s \in S : status[s] = "suggested"
  /\ status' = [s \in Suggestion |-> IF s \in S THEN "discarded" ELSE status[s]]
  /\ UNCHANGED deck

FsmNext ==
  \/ \E s \in Suggestion : Offer(s) \/ \E t \in Ticket : Apply(s, t)
  \/ \E S \in SUBSET Suggestion : Discard(S)

FsmSpec == FsmInit /\ [][FsmNext]_fsmVars
=============================================================================

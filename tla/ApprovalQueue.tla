---------------------------- MODULE ApprovalQueue ----------------------------
(***************************************************************************)
(* The approval queue of one live meeting (apps/server/src/realtime/        *)
(* patch-service.ts, the queue half of session-runtime.ts and the           *)
(* page_commit branch of ws-server.ts) over the deck of module DeckStore.   *)
(*                                                                          *)
(* A generated slide waits in the runtime's queue as "suggested" with a TTL *)
(* timer.  The presenter rejects it, or accepts it (plainly or edited): an  *)
(* accept calls appendSlide and settles the entry only when the promise     *)
(* resolves.  Meanwhile the entry is still "suggested", so the TTL timer, a *)
(* reject, a second accept, a page_commit and the end of the meeting may    *)
(* all come in between -- with pg; with SQLite the promise resolves before  *)
(* the next event (see Serialised in DeckStore).                            *)
(***************************************************************************)
EXTENDS DeckStore, Sequences

CONSTANTS
  Suggestion,  \* suggestion ids; a UUID is used for one suggest() only
  NoSug        \* "this repository call belongs to no suggestion"

ASSUME QueueAssumption == NoSug \notin Suggestion

VARIABLES
  up,             \* the runtime is registered and not disposed
  deckBound,      \* the meeting was created with a deckId
  committedIndex, \* runtime.committedIndex
  deckLength,     \* runtime.deckLength, the in-memory mirror of the deck's length
  sug,            \* queue entry of each suggestion
  forSug,         \* the suggestion an appendSlide call was issued for
  results,        \* suggestion_result broadcasts to the hud, per suggestion
  updates,        \* deck_update broadcasts to present: the sequence of their indices
  accepted        \* history: suggestions the verified presenter accepted

queueVars == <<up, deckBound, committedIndex, deckLength, sug, forSug, results, updates, accepted>>
vars == <<deckVars, queueVars>>

(* "dropped": removed from the Map by dispose() while still undecided.      *)
Status == {"new", "suggested", "applied", "discarded", "dropped"}

TypeOK ==
  /\ DeckTypeOK
  /\ up \in BOOLEAN /\ deckBound \in BOOLEAN
  /\ committedIndex \in HeadIndex /\ deckLength \in Nat
  /\ sug \in [Suggestion -> Status]
  /\ forSug \in [Call -> Suggestion \cup {NoSug}]
  /\ results \in [Suggestion -> Seq({"applied", "discarded"})]
  /\ updates \in Seq(Nat)
  /\ accepted \subseteq Suggestion

(* hub.ensureRuntime: the deck head is read from the repository; without a  *)
(* deckId, or when that fails, the runtime starts from -1 and 0.            *)
Init ==
  /\ DeckInit
  /\ up = TRUE
  /\ deckBound \in BOOLEAN
  /\ \/ /\ deckBound
        /\ committedIndex = dbCommitted
        /\ deckLength = Larger(InitialPages, committedIndex + 1)
     \/ committedIndex = -1 /\ deckLength = 0
  /\ sug = [s \in Suggestion |-> "new"]
  /\ forSug = [c \in Call |-> NoSug]
  /\ results = [s \in Suggestion |-> <<>>]
  /\ updates = <<>>
  /\ accepted = {}
-----------------------------------------------------------------------------
(* LiveSessionRuntime.settleSuggestion plus the hud broadcast its callers   *)
(* make when it returns true.  Its guard: the entry is still "suggested".   *)
(* Mutant: the entry is looked up, its status is not.                        *)
PendingKnown(s) == sug[s] # "new"

Pending(s) == sug[s] = "suggested"

Settle(s, outcome) ==
  /\ sug' = [sug EXCEPT ![s] = outcome]
  /\ results' = [results EXCEPT ![s] = Append(@, outcome)]

(* LivePatchService.suggest on a live runtime; without one it queues nothing. *)
Suggest(s) ==
  /\ Quiet /\ up /\ sug[s] = "new"
  /\ sug' = [sug EXCEPT ![s] = "suggested"]
  /\ UNCHANGED <<deckVars, up, deckBound, committedIndex, deckLength, forSug, results, updates, accepted>>

Reject(s, presenterAuth) ==
  /\ Quiet /\ presenterAuth /\ up /\ Pending(s)
  /\ Settle(s, "discarded")
  /\ UNCHANGED <<deckVars, up, deckBound, committedIndex, deckLength, forSug, updates, accepted>>

(* The I1 guard of act(): an accept that fails it returns without a trace.  *)
AheadOfHead == deckLength > committedIndex

(* Mutants: an accept from any connection; one that settles before the      *)
(* append has resolved.                                                     *)
AcceptAnyone(s, presenterAuth, c) ==
  /\ Quiet /\ up /\ Pending(s) /\ deckBound
  /\ accepted' = IF presenterAuth THEN accepted \cup {s} ELSE accepted
  /\ Begin(c, "append", 0)
  /\ forSug' = [forSug EXCEPT ![c] = s]
  /\ UNCHANGED <<sug, results, up, deckBound, committedIndex, deckLength, updates>>
AcceptOptimistic(s, presenterAuth, c) ==
  /\ Quiet /\ presenterAuth /\ up /\ Pending(s) /\ deckBound
  /\ accepted' = accepted \cup {s}
  /\ Begin(c, "append", 0)
  /\ forSug' = [forSug EXCEPT ![c] = s]
  /\ Settle(s, "applied")
  /\ UNCHANGED <<up, deckBound, committedIndex, deckLength, updates>>

Accept(s, presenterAuth, c) ==
  /\ Quiet /\ presenterAuth /\ up /\ Pending(s)
  /\ accepted' = accepted \cup {s}
  /\ \/ /\ ~deckBound
        /\ Settle(s, "discarded")
        /\ UNCHANGED <<deckVars, forSug>>
     \/ /\ deckBound /\ AheadOfHead
        /\ Begin(c, "append", 0)
        /\ forSug' = [forSug EXCEPT ![c] = s]
        /\ UNCHANGED <<sug, results>>
  /\ UNCHANGED <<up, deckBound, committedIndex, deckLength, updates>>

(* The .then of act(): settles, grows the mirror, tells present and hud.    *)
(* An entry decided or dropped meanwhile makes it return silently.          *)
AppendResolved(c) ==
  /\ call[c].op = "append" /\ call[c].stage = "landed"
  /\ call' = [call EXCEPT ![c].stage = "settled"]
  /\ IF Pending(forSug[c])
     THEN /\ Settle(forSug[c], "applied")
          /\ deckLength' = Larger(deckLength, NewIdx(c) + 1)
          /\ updates' = Append(updates, NewIdx(c))
     ELSE UNCHANGED <<sug, results, deckLength, updates>>
  /\ UNCHANGED <<rows, dbCommitted, up, deckBound, committedIndex, forSug, accepted>>

(* The .catch of act().                                                     *)
AppendRejected(c) ==
  /\ call[c].op = "append" /\ call[c].stage = "failed"
  /\ call' = [call EXCEPT ![c].stage = "settled"]
  /\ IF Pending(forSug[c])
     THEN Settle(forSug[c], "discarded")
     ELSE UNCHANGED <<sug, results>>
  /\ UNCHANGED <<rows, dbCommitted, up, deckBound, committedIndex, deckLength, forSug, updates, accepted>>

(* The TTL timer; settle and dispose clear it, so it only meets a pending entry. *)
(* Mutant: the timer looks for entries the presenter has touched.           *)
ExpireTouched(s) ==
  /\ Quiet /\ up /\ Pending(s) /\ s \in accepted
  /\ Settle(s, "discarded")
  /\ UNCHANGED <<deckVars, up, deckBound, committedIndex, deckLength, forSug, updates, accepted>>

Expire(s) ==
  /\ Quiet /\ up /\ Pending(s)
  /\ Settle(s, "discarded")
  /\ UNCHANGED <<deckVars, up, deckBound, committedIndex, deckLength, forSug, updates, accepted>>

(* page_commit from the presenter: the head only moves forward, and its     *)
(* persistence is fired and forgotten.                                      *)
PageCommit(i, c) ==
  /\ Quiet /\ up /\ i > committedIndex
  /\ committedIndex' = i
  /\ deckLength' = Larger(deckLength, i + 1)
  /\ IF deckBound THEN Begin(c, "commit", i) ELSE UNCHANGED deckVars
  /\ UNCHANGED <<up, deckBound, sug, forSug, results, updates, accepted>>

(* PATCH of a pending slide through the REST route (not part of the meeting). *)
EditSlide(i, c) ==
  /\ Quiet /\ deckBound
  /\ Begin(c, "edit", i)
  /\ UNCHANGED queueVars

(* runtime.dispose: all timers are cleared and the queue is emptied.  Entries *)
(* decided before keep their status here; the code forgets them, and treats   *)
(* an unknown entry as it treats a decided one.                               *)
Dispose ==
  /\ Quiet /\ up
  /\ up' = FALSE
  /\ sug' = [s \in Suggestion |-> IF Pending(s) THEN "dropped" ELSE sug[s]]
  /\ UNCHANGED <<deckVars, deckBound, committedIndex, deckLength, forSug, results, updates, accepted>>

Presenter(s) == \E auth \in BOOLEAN : Reject(s, auth) \/ \E c \in Call : Accept(s, auth, c)

Repository(c) == DeckStep(c) /\ UNCHANGED queueVars

Next ==
  \/ \E s \in Suggestion : Suggest(s) \/ Presenter(s) \/ Expire(s)
  \/ \E c \in Call : Repository(c) \/ AppendResolved(c) \/ AppendRejected(c)
  \/ \E c \in Call, i \in Index : PageCommit(i, c) \/ EditSlide(i, c)
  \/ Dispose

(* Timers fire and promises settle; nobody has to click.                    *)
Fairness ==
  /\ \A s \in Suggestion : WF_vars(Expire(s))
  /\ \A c \in Call : WF_vars(Repository(c) \/ AppendResolved(c) \/ AppendRejected(c))

Spec == Init /\ [][Next]_vars
FairSpec == Spec /\ Fairness
-----------------------------------------------------------------------------
(* The deck row an append call inserted.                                    *)
RowOf(c) == {r \in rows : r.id = c}
Landed(s) == {c \in Call : forSug[c] = s /\ RowOf(c) # {}}

(* Safety: the hud is told exactly one outcome per decided suggestion, and  *)
(* it is the outcome the queue entry has -- whichever of reject, TTL, the   *)
(* promise and a second accept came first.                                  *)
OneOutcome ==
  \A s \in Suggestion :
    results[s] = IF sug[s] \in {"applied", "discarded"} THEN <<sug[s]>> ELSE <<>>

(* Safety: a suggestion reported as applied has its slide in the deck.      *)
AppliedIsInDeck == \A s \in Suggestion : sug[s] = "applied" => Landed(s) # {}

(* Safety (I2): every slide the meeting added to the deck answers an accept *)
(* of the verified presenter.                                               *)
OnlyApproved ==
  \A r \in rows : r.id # Seed => forSug[r.id] \in accepted

(* Safety: the I1 assertion of act() holds whatever the order of appends    *)
(* and page_commits, so no accept is ever swallowed by it (patch-service.ts *)
(* calls the guard structurally satisfied).                                 *)
HeadBehindTail == AheadOfHead

(* Safety: a suggestion reported as discarded has no slide in the deck, and *)
(* none on its way (PRODUCT_SPEC: DISCARDED cannot be undone).              *)
DiscardedNotInDeck ==
  \A s \in Suggestion : sug[s] = "discarded" => Landed(s) = {}

(* Refinement: with every step of appendSlide and its continuation taken    *)
(* between two events, the queue implements the approval state machine.  An *)
(* append counts from the moment its row is in the deck.                    *)
InDeck(s) == \E c \in Call : call[c].stage = "landed" /\ forSug[c] = s

fsmStatus ==
  [s \in Suggestion |->
     CASE sug[s] = "new" -> "idle"
       [] sug[s] = "suggested" -> IF InDeck(s) THEN "applied" ELSE "suggested"
       [] sug[s] = "applied" -> "applied"
       [] OTHER -> "discarded"]

fsmDeck == {<<forSug[c], c>> : c \in {d \in Call : RowOf(d) # {}}}

FSM == INSTANCE ApprovalFSM WITH Ticket <- Call, status <- fsmStatus, deck <- fsmDeck

ImplementsFSM == FSM!FsmSpec

(* What the repository calls know about the queue, and the rows about the    *)
(* calls: the part of the inductive invariant that holds with both drivers. *)
CallsOK ==
  \A c \in Call :
    /\ call[c].stage = "idle" => call[c].op = "none"
    /\ call[c].stage \in {"landed", "failed"} => call[c].op = "append"
    /\ call[c].stage = "checked" => call[c].op = "edit"
    /\ call[c].op = "append" => forSug[c] \in accepted
    /\ call[c].op = "append" /\ call[c].stage = "landed" => RowOf(c) # {}

LinkedCall(c) == call[c].op = "append" /\ call[c].stage \in {"landed", "settled"}

RowsOK == \A r \in rows : r.id # Seed => LinkedCall(r.id)

(* An append numbers its row from a page that is still there.               *)
SeenOK ==
  \A c \in Call : call[c].op = "append" /\ call[c].stage = "read"
    => call[c].seen = -1 \/ \E r \in rows : r.idx = call[c].seen

(* What one-event-at-a-time execution adds: at most one call is in progress, *)
(* what it read still holds, nobody decides its suggestion before it, and   *)
(* the outcome tells whether its row is there.                              *)
OneActive == \A c, d \in Call : Active(c) /\ Active(d) => c = d

ReadOK ==
  \A c \in Call : call[c].stage \in {"checked", "read"} =>
    /\ call[c].op = "append" => \A r \in rows : r.idx <= call[c].seen
    /\ call[c].op = "commit" => call[c].seen = dbCommitted
    /\ call[c].op = "edit"   => call[c].arg > dbCommitted

UndecidedOK == \A c \in Call : call[c].op = "append" /\ Active(c) => Pending(forSug[c])

DecidedOK ==
  \A c \in Call : call[c].op = "append" /\ call[c].stage = "settled"
    => sug[forSug[c]] = IF RowOf(c) = {} THEN "discarded" ELSE "applied"

OneAppend ==
  \A c, d \in Call : call[c].op = "append" /\ call[d].op = "append" /\ forSug[c] = forSug[d]
    => c = d

SerialOK == OneActive /\ ReadOK /\ UndecidedOK /\ DecidedOK /\ OneAppend

(* Liveness: no entry stays undecided for ever (the HUD queue cannot wedge). *)
EventuallyDecided ==
  \A s \in Suggestion : Pending(s) ~> ~Pending(s)
=============================================================================

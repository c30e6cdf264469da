------------------------------ MODULE DeckStore ------------------------------
(***************************************************************************)
(* One deck as the deck repository keeps it (packages/crm/src/              *)
(* repos-decks.ts): its slide rows, its persisted committed_index, and the  *)
(* calls of appendSlide, setCommittedIndex and updateSlide in progress.     *)
(*                                                                          *)
(* Every one of the three reads first and writes later, with awaits in      *)
(* between.  What can happen in between depends on the driver:              *)
(*   Serialised = TRUE   better-sqlite3: statements run synchronously and   *)
(*                       the awaits are microtasks, so a call begun by one  *)
(*                       event is over before the next event is handled;    *)
(*   Serialised = FALSE  pg: every await is network I/O and the pool runs   *)
(*                       transactions side by side under READ COMMITTED.    *)
(* What two calls started by the SAME event do to each other on SQLite is   *)
(* in module Checklist.                                                     *)
(***************************************************************************)
EXTENDS Integers, FiniteSets

CONSTANTS
  Call,           \* identities of repository calls; also the ids of the rows they insert
  Seed,           \* the author of the pages the deck has at the start
  InitialPages,   \* number of those pages
  OriginalCount,  \* decks.original_count: the imported prefix nobody may edit
  Originals,      \* the pages of kind "original": a conversion that broke off has left them unlocked
  MaxIndex,       \* bound on the page numbers a presenter reports
  Serialised      \* the driver, see above

ASSUME DeckAssumption ==
  /\ Seed \notin Call
  /\ InitialPages \in Nat
  /\ OriginalCount \in 0..InitialPages
  /\ Originals \subseteq 0..(InitialPages - 1)
  /\ MaxIndex \in Nat
  /\ Serialised \in BOOLEAN

VARIABLES
  rows,         \* deck_slides
  dbCommitted,  \* decks.committed_index
  call          \* progress of each repository call

deckVars == <<rows, dbCommitted, call>>

Index  == 0..MaxIndex
HeadIndex == Nat \cup {-1}
Row    == [idx : Nat, id : Call \cup {Seed}, content : Call \cup {Seed}]
Stage  == {"idle", "queued", "checked", "read", "landed", "failed", "settled"}
CallState == [op : {"none", "append", "commit", "edit"}, stage : Stage,
              arg : Index, seen : HeadIndex]

DeckTypeOK ==
  /\ rows \subseteq Row
  /\ dbCommitted \in HeadIndex
  /\ call \in [Call -> CallState]

DeckInit ==
  /\ rows = {[idx |-> i, id |-> Seed, content |-> Seed] : i \in 0..(InitialPages - 1)}
  /\ dbCommitted \in -1..(InitialPages - 1)
  /\ call = [c \in Call |-> [op |-> "none", stage |-> "idle", arg |-> 0, seen |-> -1]]
-----------------------------------------------------------------------------
(* SELECT MAX(idx): every page number ever in play is at most this bound.   *)
HighestIdx(m) ==
  \/ m = -1 /\ rows = {}
  \/ /\ \E r \in rows : r.idx = m
     /\ \A r \in rows : r.idx <= m

Larger(a, b) == IF a > b THEN a ELSE b

(* A call whose statements are still to run, or whose caller has not yet    *)
(* been resumed.                                                            *)
Active(c) == call[c].stage \in {"queued", "checked", "read", "landed", "failed"}

(* The condition for the event loop to hand the next event to the program.  *)
Quiet == Serialised => \A c \in Call : ~Active(c)

Begin(c, o, i) ==
  /\ call[c].stage = "idle"
  /\ call' = [call EXCEPT ![c].op = o, ![c].stage = "queued", ![c].arg = i]
  /\ UNCHANGED <<rows, dbCommitted>>

(* appendSlide: SELECT MAX(idx), then INSERT at MAX + 1.                    *)
AppendRead(c) ==
  /\ call[c].op = "append" /\ call[c].stage = "queued"
  /\ \E m \in {r.idx : r \in rows} \cup {-1} :
       /\ HighestIdx(m)
       /\ call' = [call EXCEPT ![c].stage = "read", ![c].seen = m]
  /\ UNCHANGED <<rows, dbCommitted>>

NewIdx(c) == call[c].seen + 1

(* UNIQUE (org_id, deck_id, idx): a row that is there refuses the INSERT, and *)
(* the call fails like one whose statement the driver rejected.             *)
Clashes(c) == \E r \in rows : r.idx = NewIdx(c)

AppendInsert(c) ==
  /\ call[c].op = "append" /\ call[c].stage = "read" /\ ~Clashes(c)
  /\ rows' = rows \cup {[idx |-> NewIdx(c), id |-> c, content |-> c]}
  /\ call' = [call EXCEPT ![c].stage = "landed"]
  /\ UNCHANGED dbCommitted

(* setCommittedIndex: SELECT committed_index, then UPDATE to the larger of  *)
(* what was read and the argument.  Nobody awaits the outcome.              *)
CommitRead(c) ==
  /\ call[c].op = "commit" /\ call[c].stage = "queued"
  /\ call' = [call EXCEPT ![c].stage = "read", ![c].seen = dbCommitted]
  /\ UNCHANGED <<rows, dbCommitted>>

CommitWrite(c) ==
  /\ call[c].op = "commit" /\ call[c].stage = "read"
  /\ dbCommitted' = Larger(call[c].seen, call[c].arg)
  /\ call' = [call EXCEPT ![c].stage = "settled"]
  /\ UNCHANGED rows

(* updateSlide: the guards on the deck row, then those on the slide row,    *)
(* then UPDATE by (deck_id, idx).  There is no transaction around them.     *)
(* Mutant: only the imported prefix is locked.                              *)
EditRefusedOriginals(c) == call[c].arg < OriginalCount

EditRefused(c) == call[c].arg < OriginalCount \/ call[c].arg <= dbCommitted

EditRead(c) ==
  /\ call[c].op = "edit" /\ call[c].stage = "queued"
  /\ call' = [call EXCEPT ![c].stage = IF EditRefused(c) THEN "settled" ELSE "checked"]
  /\ UNCHANGED <<rows, dbCommitted>>

Editable(i) == i \notin Originals /\ \E r \in rows : r.idx = i

EditFind(c) ==
  /\ call[c].op = "edit" /\ call[c].stage = "checked"
  /\ call' = [call EXCEPT ![c].stage = IF Editable(call[c].arg) THEN "read" ELSE "settled"]
  /\ UNCHANGED <<rows, dbCommitted>>

EditWrite(c) ==
  /\ call[c].op = "edit" /\ call[c].stage = "read"
  /\ rows' = {IF r.idx = call[c].arg THEN [r EXCEPT !.content = c] ELSE r : r \in rows}
  /\ call' = [call EXCEPT ![c].stage = "settled"]
  /\ UNCHANGED dbCommitted

(* A statement is rejected (by the driver at any time, by the UNIQUE index   *)
(* when there is a clash): the transaction rolls back, nothing is written.   *)
(* Only appendSlide has a caller that reacts to it.                          *)
CallFails(c) ==
  /\ call[c].stage \in {"queued", "checked", "read"}
  /\ call' = [call EXCEPT ![c].stage = IF call[c].op = "append" THEN "failed" ELSE "settled"]
  /\ UNCHANGED <<rows, dbCommitted>>

DeckStep(c) ==
  \/ AppendRead(c) \/ AppendInsert(c)
  \/ CommitRead(c) \/ CommitWrite(c)
  \/ EditRead(c)   \/ EditFind(c) \/ EditWrite(c)
  \/ CallFails(c)

-----------------------------------------------------------------------------
(* Safety: an append in progress is not going to be refused by the UNIQUE    *)
(* index.  act() treats a refusal as a rejection: the slide the presenter    *)
(* accepted would be discarded.                                              *)
NoClash ==
  \A c \in Call : call[c].op = "append" /\ call[c].stage = "read" => ~Clashes(c)

(* Safety: the pages are numbered without a hole, so the number of rows read *)
(* back by findWithSlides (deckLength) is the index of the next append.      *)
NoHole == \A r \in rows : \A i \in 0..r.idx : \E q \in rows : q.idx = i

(* Action property: the persisted committed_index never goes back; I1's      *)
(* guard in updateSlide depends on it.                                       *)
CommittedMonotone == [][dbCommitted' >= dbCommitted]_deckVars

(* Action property (I1): once a page is at or below the persisted            *)
(* committed_index no call changes or removes it.                            *)
ShownFrozen == [][\A r \in rows : r.idx <= dbCommitted => r \in rows']_deckVars
=============================================================================

------------------------------ MODULE Checklist ------------------------------
(***************************************************************************)
(* The talking-points checklist of one live meeting: the rows of            *)
(* meeting_checklist_items (packages/crm/src/repos-checklist.ts), the hub's  *)
(* three ways of ticking an item off (apps/server/src/realtime/hub.ts), the  *)
(* copy of the pending items in the analysis engine, and the debounced       *)
(* snapshot the HUD shows.                                                   *)
(*                                                                          *)
(* Every operation is a job: an async call chain that runs up to its first  *)
(* await in the event that starts it and then in continuations.              *)
(*   Serialised = TRUE   better-sqlite3: each awaited statement is over when *)
(*     it is awaited, so continuations are microtasks, run first in first    *)
(*     out until none is left, before the next event.  All transactions      *)
(*     share one connection: BEGIN inside an open one throws (sqlite-db.ts). *)
(*     Jobs started by the same event therefore interleave in one fixed way, *)
(*     which is why the ticks up to COMMIT are counted as the code has them. *)
(*   Serialised = FALSE  pg: continuations run in any order, events come in  *)
(*     between, and transactions run side by side under READ COMMITTED.  A   *)
(*     SELECT is taken to read when it is issued.                            *)
(* The meeting has a deck; the presenter's identity was checked before.      *)
(***************************************************************************)
EXTENDS Integers, Sequences, SequencesExt

CONSTANTS
  Item,       \* checklist items, stored by replaceAll before the meeting starts
  PageOf,     \* the page each is bound to (slide_idx); -1 when it is NULL
  Job,        \* identities of call chains: the bound on those in progress at once
  MaxIndex,   \* bound on the page numbers the presenter reports
  NoSnapshot, \* "this HUD has not been sent a snapshot yet"
  Serialised

ASSUME ChecklistAssumption ==
  /\ MaxIndex \in Nat
  /\ PageOf \in [Item -> -1..MaxIndex]
  /\ Serialised \in BOOLEAN

VARIABLES
  status,     \* meeting_checklist_items.status
  by,         \* .covered_by; "none" is NULL
  dbHead,     \* decks.committed_index
  head,       \* runtime.committedIndex
  lastCommit, \* runtime.lastCommitAt: "never", "recent", or "old" (20 s ago or more)
  hint,       \* the engine's pendingChecklist
  cooling,    \* runtime.recentlyUnchecked, until the analysis window has turned over
  timer,      \* the debounce timer of the snapshot broadcast is armed
  hud,        \* the snapshot the HUD shows
  jobs,       \* the call chains in progress
  queue,      \* their continuations, in the order in which they became ready
  corrected,  \* history: items the presenter unticked, until the window has turned over
  owed,       \* history: pending items of the page that was left after 20 s
  faulted     \* history: a statement has failed

dbVars   == <<status, by, dbHead>>
memVars  == <<head, lastCommit, hint, cooling, timer, hud>>
histVars == <<corrected, owed, faulted>>
checklistVars == <<dbVars, memVars, jobs, queue, histVars>>

Status == {"pending", "covered", "skipped"}
Source == {"none", "transcript", "slide", "manual"}
Kind   == {"free", "head", "slide", "transcript", "check", "uncheck", "skip", "snapshot"}
Phase  == {"free", "listed", "begin", "update", "fnReturns", "commit", "after", "setPending", "send"}
JobState == [kind : Kind, phase : Phase, items : SUBSET Item, page : -1..MaxIndex,
             read : [Item -> Status]]

ChecklistTypeOK ==
  /\ status \in [Item -> Status] /\ by \in [Item -> Source]
  /\ dbHead \in -1..MaxIndex /\ head \in -1..MaxIndex
  /\ lastCommit \in {"never", "recent", "old"}
  /\ hint \subseteq Item /\ cooling \subseteq Item
  /\ timer \in BOOLEAN
  /\ hud \in [Item -> Status] \cup {NoSnapshot}
  /\ jobs \in [Job -> JobState]
  /\ queue \in Seq(Job) /\ \A j \in Job : jobs[j].kind = "free" <=> ~Contains(queue, j)
  /\ corrected \subseteq Item /\ owed \subseteq Item
  /\ faulted \in BOOLEAN

NewJob(k, p, S, i) == [kind |-> k, phase |-> p, items |-> S, page |-> i, read |-> status]

AllPending == [i \in Item |-> "pending"]

ChecklistInit ==
  /\ status = AllPending /\ by = [i \in Item |-> "none"]
  /\ dbHead = -1 /\ head = -1 /\ lastCommit = "never"
  /\ hint = Item /\ cooling = {} /\ timer = FALSE /\ hud = AllPending
  /\ jobs = [j \in Job |-> NewJob("free", "free", {}, -1)]
  /\ queue = <<>>
  /\ corrected = {} /\ owed = {} /\ faulted = FALSE
-----------------------------------------------------------------------------
Free(j) == jobs[j].kind = "free"

(* The event loop may hand the program the next event.                      *)
Quiet == Serialised => queue = <<>>

Start(j, job) ==
  /\ Free(j)
  /\ jobs' = [jobs EXCEPT ![j] = job]
  /\ queue' = Append(queue, j)

(* Mutant: the status of a row is not looked at.                            *)
PendingAny(rows, S) == S

Pending(rows, S) == {i \in S : rows[i] = "pending"}

(* page_commit: onPageCommitted settles the page that is left, then the head *)
(* moves and setDeckCommitted opens its transaction, all in one event.       *)
PageCommit(i, j, k) ==
  /\ Quiet /\ i > head /\ j # k
  /\ head' = i /\ lastCommit' = "recent"
  /\ IF lastCommit = "old" /\ head >= 0
     THEN /\ Free(j) /\ Free(k)
          /\ jobs' = [jobs EXCEPT ![j] = NewJob("slide", "listed", {}, head),
                                  ![k] = NewJob("head", "update", {}, i)]
          /\ queue' = queue \o <<j, k>>
          /\ owed' = owed \cup {it \in Pending(status, Item) : PageOf[it] = head}
     ELSE /\ Start(k, NewJob("head", "update", {}, i))
          /\ UNCHANGED owed
  /\ UNCHANGED <<dbVars, hint, cooling, timer, hud, corrected, faulted>>

TwentySecondsPass ==
  /\ Quiet /\ lastCommit = "recent" /\ lastCommit' = "old"
  /\ UNCHANGED <<dbVars, head, hint, cooling, timer, hud, jobs, queue, histVars>>

(* An analysis round answers.  Its ids are pending ones by the engine's copy *)
(* (sanitize); those the presenter unticked a window ago or less are left    *)
(* out (coverChecklist).                                                     *)
(* Mutant: they are not.                                                     *)
TargetsAll(S) == S

Targets(S) == S \ cooling

Analysed(S, j) ==
  /\ Quiet /\ S \subseteq hint /\ Targets(S) # {}
  /\ Start(j, NewJob("transcript", "update", Pending(status, Targets(S)), -1))
  /\ UNCHANGED <<dbVars, memVars, histVars>>

(* The audio clock has moved on by a whole window since the item was         *)
(* unticked: what was said before has left the window.                       *)
WindowTurns(it) ==
  /\ Quiet /\ it \in cooling
  /\ cooling' = cooling \ {it}
  /\ corrected' = corrected \ {it}
  /\ UNCHANGED <<dbVars, head, lastCommit, hint, timer, hud, jobs, queue, owed, faulted>>

(* checklist_action, from the presenter: setStatus does not look at the      *)
(* status the item has.                                                      *)
Manual(it, action, j) ==
  /\ Quiet
  /\ Start(j, NewJob(action, "update", {it}, -1))
  /\ UNCHANGED <<dbVars, memVars, histVars>>

(* The 300 ms are over: the snapshot is read.                                *)
TimerFires(j) ==
  /\ Quiet /\ timer /\ timer' = FALSE
  /\ Start(j, NewJob("snapshot", "send", {}, -1))
  /\ UNCHANGED <<dbVars, head, lastCommit, hint, cooling, hud, histVars>>

(* A HUD (re)connects: sendChecklistSnapshot.                                *)
HudJoins(j) ==
  /\ Quiet /\ hud' = NoSnapshot
  /\ Start(j, NewJob("snapshot", "send", {}, -1))
  /\ UNCHANGED <<dbVars, head, lastCommit, hint, cooling, timer, histVars>>
-----------------------------------------------------------------------------
(* The scheduler: j's continuation runs.                                     *)
Runs(j) ==
  \E n \in 1..Len(queue) : queue[n] = j /\ (Serialised => n = 1)

Place(j) == CHOOSE n \in 1..Len(queue) : queue[n] = j

Rest(j) == RemoveAt(queue, Place(j))

(* It runs up to the next await ...                                          *)
Continue(j, job) ==
  /\ jobs' = [jobs EXCEPT ![j] = job]
  /\ queue' = Append(Rest(j), j)

(* ... or to the end of the call chain.                                      *)
Finish(j) ==
  /\ jobs' = [jobs EXCEPT ![j] = [@ EXCEPT !.kind = "free", !.phase = "free", !.items = {},
                                           !.page = -1, !.read = AllPending]]
  /\ queue' = Rest(j)

Advance(j, from, to) ==
  /\ jobs[j].phase = from
  /\ Continue(j, [jobs[j] EXCEPT !.phase = to])
  /\ UNCHANGED <<dbVars, memVars, histVars>>

InTx(j) == jobs[j].phase \in {"update", "fnReturns", "commit"}

(* better-sqlite3: "cannot start a transaction within a transaction".        *)
BeginThrows == Serialised /\ \E k \in Job : InTx(k)

(* The list is there: the items of the page that was left are looked up in   *)
(* it, and markCovered opens its transaction and selects those pending.      *)
Begin(j) ==
  /\ jobs[j].phase = "begin"
  /\ LET bound == {i \in Pending(jobs[j].read, Item) : PageOf[i] = jobs[j].page}
     IN  IF BeginThrows \/ (jobs[j].kind = "slide" /\ bound = {})
         THEN Finish(j)
         ELSE Continue(j, [jobs[j] EXCEPT !.phase = "update", !.items = Pending(status, bound)])
  /\ UNCHANGED <<dbVars, memVars, histVars>>

(* UPDATE: on pg it waits for the row locks of the others.                   *)
Locked(k) == IF jobs[k].phase \in {"fnReturns", "commit"} THEN jobs[k].items ELSE {}

Update(j) ==
  /\ \A k \in Job \ {j} : Locked(k) \cap jobs[j].items = {}
  /\ Advance(j, "update", "fnReturns")

(* What the transaction writes.  Nobody sees it before COMMIT.               *)
NewStatus(k) == CASE k = "uncheck" -> "pending" [] k = "skip" -> "skipped" [] OTHER -> "covered"
NewSource(k) == CASE k \in {"uncheck", "skip"} -> "none" [] k = "check" -> "manual" [] OTHER -> k

Commit(j) ==
  /\ jobs[j].phase = "commit"
  /\ LET S == jobs[j].items
         k == jobs[j].kind
     IN  /\ status' = [i \in Item |-> IF i \in S THEN NewStatus(k) ELSE status[i]]
         /\ by' = [i \in Item |-> IF i \in S THEN NewSource(k) ELSE by[i]]
         /\ dbHead' = IF k = "head" /\ jobs[j].page > dbHead THEN jobs[j].page ELSE dbHead
         /\ corrected' = IF k = "uncheck" THEN corrected \cup S ELSE corrected \ S
         /\ owed' = owed \ S
         /\ IF S = {} THEN Finish(j) ELSE Continue(j, [jobs[j] EXCEPT !.phase = "after"])
  /\ UNCHANGED <<memVars, faulted>>

(* The caller resumes: an untick is noted, a snapshot is scheduled, and the  *)
(* rows are read again for the engine.                                       *)
(* Mutants: no snapshot for what the conversation ticked off; the engine     *)
(* keeps its copy.                                                           *)
AfterManualOnly(j) ==
  /\ jobs[j].phase = "after"
  /\ timer' = (timer \/ jobs[j].kind # "transcript")
  /\ cooling' = IF jobs[j].kind = "uncheck" THEN cooling \cup jobs[j].items ELSE cooling
  /\ Continue(j, [jobs[j] EXCEPT !.phase = "setPending", !.read = status])
  /\ UNCHANGED <<dbVars, head, lastCommit, hint, hud, histVars>>
AfterNoRefresh(j) ==
  /\ jobs[j].phase = "after"
  /\ timer' = TRUE
  /\ cooling' = IF jobs[j].kind = "uncheck" THEN cooling \cup jobs[j].items ELSE cooling
  /\ Finish(j)
  /\ UNCHANGED <<dbVars, head, lastCommit, hint, hud, histVars>>

After(j) ==
  /\ jobs[j].phase = "after"
  /\ timer' = TRUE
  /\ cooling' = IF jobs[j].kind = "uncheck" THEN cooling \cup jobs[j].items ELSE cooling
  /\ Continue(j, [jobs[j] EXCEPT !.phase = "setPending", !.read = status])
  /\ UNCHANGED <<dbVars, head, lastCommit, hint, hud, histVars>>

(* refreshPendingChecklist hands the engine what it read.                    *)
SetPending(j) ==
  /\ jobs[j].phase = "setPending"
  /\ hint' = Pending(jobs[j].read, Item)
  /\ Finish(j)
  /\ UNCHANGED <<dbVars, head, lastCommit, cooling, timer, hud, histVars>>

Send(j) ==
  /\ jobs[j].phase = "send"
  /\ hud' = jobs[j].read
  /\ Finish(j)
  /\ UNCHANGED <<dbVars, head, lastCommit, hint, cooling, timer, histVars>>

(* The awaited statement failed: ROLLBACK, and the caller logs it.           *)
Fails(j) ==
  /\ jobs[j].phase # "after"
  /\ Finish(j)
  /\ faulted' = TRUE
  /\ UNCHANGED <<dbVars, memVars, corrected, owed>>

Step(j) ==
  /\ Runs(j)
  /\ \/ Advance(j, "listed", "begin")
     \/ Begin(j)
     \/ Update(j)
     \/ Advance(j, "fnReturns", "commit")
     \/ Commit(j) \/ After(j) \/ SetPending(j) \/ Send(j) \/ Fails(j)

ChecklistNext ==
  \/ \E j \in Job : Step(j) \/ TimerFires(j) \/ HudJoins(j)
  \/ \E j \in Job, it \in Item, a \in {"check", "uncheck", "skip"} : Manual(it, a, j)
  \/ \E j \in Job, S \in SUBSET Item : Analysed(S, j)
  \/ \E j, k \in Job, i \in 0..MaxIndex : PageCommit(i, j, k)
  \/ \E it \in Item : WindowTurns(it)
  \/ TwentySecondsPass

ChecklistSpec == ChecklistInit /\ [][ChecklistNext]_checklistVars
-----------------------------------------------------------------------------
Contract == INSTANCE ChecklistContract WITH unticked <- corrected

(* Refinement (MEETING_CHECKLIST_CONTRACT 7): reads, transactions and what    *)
(* is told later in between, every tick is one step of the contract.         *)
ImplementsContract == Contract!ContractSpec

(* Action property (MEETING_CHECKLIST_CONTRACT 7.3): the automatic ways only *)
(* tick off what is pending; what the presenter decided is never overwritten. *)
ManualIsFinal ==
  [][\A it \in Item : status[it] # "pending" /\ by'[it] \in {"transcript", "slide"}
       => by'[it] = by[it]]_checklistVars

(* Action property (7.5): an item the presenter unticked is not ticked off   *)
(* again by the conversation while what was said before is still in the      *)
(* analysis window.                                                          *)
UncheckSticks == [][\A it \in corrected : by'[it] # "transcript"]_checklistVars

(* Safety (7.4): when nothing is in progress and no broadcast is due, the    *)
(* HUD shows the rows.                                                       *)
HudCurrent == queue = <<>> /\ ~timer /\ ~faulted => hud = status

(* Safety (7.1): when nothing is in progress the engine's prompt asks for    *)
(* exactly the pending items.                                                *)
EngineCurrent == queue = <<>> /\ ~faulted => hint = Pending(status, Item)

(* Safety: persisting the head survives the ticking off that the same        *)
(* page_commit starts.                                                       *)
HeadPersisted == queue = <<>> /\ ~faulted => dbHead = head

(* Safety (7.2): what is pending on a page that was left after 20 s or more  *)
(* is ticked off when the page_commit is over.                               *)
SlideTicksOff == queue = <<>> /\ ~faulted => owed = {}
=============================================================================

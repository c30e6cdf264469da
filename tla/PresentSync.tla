----------------------------- MODULE PresentSync -----------------------------
(***************************************************************************)
(* The page that is shown to the client (apps/web PresentStage.tsx over      *)
(* lib/ws.ts) kept in step with the deck the server holds: the stage's copy  *)
(* of the slides comes from three kinds of HTTP snapshot and from            *)
(* deck_update messages, the server's head from page_commit messages, and    *)
(* the socket between them drops, is re-opened and is given up.              *)
(*                                                                          *)
(* Pages are only ever appended, so a page is its number and the deck its    *)
(* length.  The database is better-sqlite3: a query is over at once.         *)
(***************************************************************************)
EXTENDS Integers, Sequences, SequencesExt

CONSTANTS
  Request,      \* bound: getDeck calls in flight at a time
  FirstPages,   \* pages of the deck when the meeting starts
  MaxPages,     \* bound on the pages of the deck
  MaxAttempts   \* MAX_RECONNECT_ATTEMPTS

ASSUME PresentAssumption ==
  /\ FirstPages \in Nat \ {0} /\ MaxPages \in Nat /\ FirstPages <= MaxPages
  /\ MaxAttempts \in Nat

VARIABLES
  deckLen, dbHead,   \* deck_slides and decks.committed_index
  ended,             \* the meeting is completed
  rt,                \* the runtime: live; bound: it (or the next) has the deckId; head; len
  toStage, toServer, \* what is on its way over the open socket
  sock, timer, attempts, link,        \* conn.current, retry.current, attempts, link and linkKind
  http,              \* getDeck calls; len 0: not answered yet
  loaded, hasOriginals, slides, index, committed,   \* the stage's state and refs
  kept,              \* history: pages whose page_commit was sent and was not lost since
  unsaved            \* history: the last page whose save failed, while no later one made up for it

deckVars == <<deckLen, dbHead, unsaved>>
stage    == <<loaded, hasOriginals, slides, index, committed>>
netVars  == <<toStage, toServer, sock, timer, attempts, link>>
vars     == <<deckVars, ended, rt, netVars, http, stage, kept>>

Page == 0..MaxPages     \* a doubled slide makes room for one page too many
PageOrNone == Page \cup {-1}
Hello == -1

Larger(a, b) == IF a > b THEN a ELSE b

Idle == [kind |-> "none", len |-> 0, head |-> -1]
Asked(kind) == [kind |-> kind, len |-> 0, head |-> -1]
NoRuntime == [live |-> FALSE, bound |-> FALSE, head |-> -1, len |-> 0]

TypeOK ==
  /\ deckLen \in FirstPages..MaxPages /\ dbHead \in PageOrNone /\ ended \in BOOLEAN
  /\ rt \in [live : BOOLEAN, bound : BOOLEAN, head : PageOrNone, len : 0..(MaxPages + 1)]
  /\ toStage \in Seq([kind : {"update"}, at : Page] \cup [kind : {"state", "ended"}, at : PageOrNone])
  /\ toServer \in Seq(PageOrNone)
  /\ sock \in {"none", "connecting", "open"} /\ timer \in BOOLEAN
  /\ attempts \in 0..MaxAttempts
  /\ link \in {"connecting", "open", "reconnecting", "failed", "ended"}
  /\ http \in [Request -> [kind : {"none", "load", "refetch", "refresh"},
                           len : 0..MaxPages, head : PageOrNone]]
  /\ loaded \in BOOLEAN /\ hasOriginals \in BOOLEAN
  /\ slides \in Seq(Page) /\ index \in Page /\ committed \in PageOrNone
  /\ kept \subseteq Page /\ unsaved \in PageOrNone

(* The stage is mounted: the load effect has asked for the deck and the WS   *)
(* effect opened its socket.  The deck was not shown before.                 *)
Init ==
  /\ deckLen = FirstPages /\ dbHead = -1 /\ ended = FALSE
  /\ rt = [NoRuntime EXCEPT !.bound = TRUE]
  /\ toStage = <<>> /\ toServer = <<>>
  /\ sock = "connecting" /\ timer = FALSE /\ attempts = 0 /\ link = "connecting"
  /\ http \in {[r \in Request |-> IF r = q THEN Asked("load") ELSE Idle] : q \in Request}
  /\ loaded = FALSE /\ hasOriginals = FALSE
  /\ slides = <<>> /\ index = 0 /\ committed = -1
  /\ kept = {} /\ unsaved = -1
-----------------------------------------------------------------------------
(* A getDeck call takes a free slot; with none free it is as if it failed.   *)
Ask(kind) ==
  IF \E r \in Request : http[r] = Idle
  THEN \E r \in Request : http[r] = Idle /\ http' = [http EXCEPT ![r] = Asked(kind)]
  ELSE http' = http

(* GET /decks/:id reads the row and its slides.                              *)
Answer(r) ==
  /\ http[r].kind # "none" /\ http[r].len = 0
  /\ http' = [http EXCEPT ![r].len = deckLen, ![r].head = dbHead]
  /\ UNCHANGED <<deckVars, ended, rt, netVars, stage, kept>>

(* The slides of a snapshot take the place of those that are there.          *)
(* Mutant: a snapshot that is not longer than they are is not taken.         *)
LongerSnapshot(len) == IF len > Len(slides) THEN [n \in 1..len |-> n - 1] ELSE slides

Snapshot(len) == [n \in 1..len |-> n - 1]

(* The answer reaches the stage.  The load takes the head as it is, the      *)
(* refetch and the 30-minute refresh only raise it.                          *)
Arrive(r) ==
  /\ http[r].len > 0
  /\ http' = [http EXCEPT ![r] = Idle]
  /\ slides' = Snapshot(http[r].len)
  /\ committed' = IF http[r].kind = "load" THEN http[r].head ELSE Larger(committed, http[r].head)
  /\ loaded' = (loaded \/ http[r].kind = "load")
  /\ hasOriginals' = (hasOriginals \/ http[r].kind = "load")
  /\ UNCHANGED <<deckVars, ended, rt, netVars, index, kept>>

(* The call fails on either side; asking has no effect, so a failure before  *)
(* the server read the deck looks the same.                                  *)
Fail(r) ==
  /\ http[r].len > 0
  /\ http' = [http EXCEPT ![r] = Idle]
  /\ loaded' = (loaded \/ http[r].kind = "load")
  /\ UNCHANGED <<deckVars, ended, rt, netVars, hasOriginals, slides, index, committed, kept>>

(* 12 s without an answer count as a failure; a late answer is still taken.  *)
LoadTimeout ==
  /\ ~loaded /\ loaded' = TRUE
  /\ UNCHANGED <<deckVars, ended, rt, netVars, http, hasOriginals, slides, index, committed, kept>>

(* retryLoad: the button of the empty stage.  The pending load is abandoned. *)
RetryLoad ==
  /\ loaded /\ slides = <<>> /\ loaded' = FALSE
  /\ LET freed == [r \in Request |-> IF http[r].kind = "load" THEN Idle ELSE http[r]]
     IN  \E r \in Request : freed[r] = Idle /\ http' = [freed EXCEPT ![r] = Asked("load")]
  /\ UNCHANGED <<deckVars, ended, rt, netVars, hasOriginals, slides, index, committed, kept>>

Refresh ==
  /\ hasOriginals
  /\ \A r \in Request : http[r].kind # "refresh"
  /\ \E r \in Request : http[r] = Idle
  /\ Ask("refresh")
  /\ UNCHANGED <<deckVars, ended, rt, netVars, stage, kept>>
-----------------------------------------------------------------------------
(* commitPage and WsConnection.send: a message is dropped unless the socket  *)
(* is open, and the page counts as committed all the same.                   *)
CommitPage(i) ==
  IF i > committed
  THEN /\ committed' = i
       /\ IF sock = "open"
          THEN toServer' = Append(toServer, i) /\ kept' = kept \cup {i}
          ELSE UNCHANGED <<toServer, kept>>
  ELSE UNCHANGED <<committed, toServer, kept>>

(* go: forward to a new page commits it, any other turn does not.  The keys   *)
(* work before the load is over, on what the socket has brought.             *)
Go(next) ==
  /\ next \in 0..(Len(slides) - 1) /\ next # index
  /\ index' = next
  /\ IF next > index THEN CommitPage(next) ELSE UNCHANGED <<committed, toServer, kept>>
  /\ UNCHANGED <<deckVars, ended, rt, toStage, sock, timer, attempts, link, http,
                 loaded, hasOriginals, slides>>
-----------------------------------------------------------------------------
(* broadcastState reaches the stage through its open socket.                 *)
State(head) == [kind |-> "state", at |-> head]

(* ensureRuntime: the head is the deck's when the binding is known.          *)
Materialised ==
  IF rt.live THEN rt
  ELSE IF rt.bound THEN [live |-> TRUE, bound |-> TRUE, head |-> dbHead, len |-> deckLen]
  ELSE [NoRuntime EXCEPT !.live = TRUE]

(* The socket opens: onOpen on this side, attach on the other.  The gate     *)
(* refuses an ended meeting after the upgrade.  (attach sends the state      *)
(* twice in a row; one is kept.)                                             *)
Open ==
  /\ sock = "connecting" /\ sock' = "open" /\ link' = "open" /\ attempts' = 0
  /\ toServer' = <<Hello>>
  /\ Ask("refetch")
  /\ IF ended
     THEN toStage' = <<[kind |-> "ended", at |-> -1]>> /\ UNCHANGED rt
     ELSE rt' = Materialised /\ toStage' = <<State(Materialised.head)>>
  /\ UNCHANGED <<deckVars, ended, timer, stage, kept>>

(* setDeckCommitted is a call of its own that nobody waits for, and whose     *)
(* failure nobody is told.  On better-sqlite3 it is over before the server's  *)
(* next event, and nothing but the server looks at the row: one step with two *)
(* outcomes.  What may come in between on pg is in HubLifecycle.              *)
Persist(i) ==
  \/ dbHead' = Larger(dbHead, i) /\ unsaved' = IF i < unsaved THEN unsaved ELSE -1
  \/ unsaved' = (IF i > dbHead THEN Larger(unsaved, i) ELSE unsaved) /\ UNCHANGED dbHead

(* handleMessage: hello is answered with the state; a page_commit moves the  *)
(* head forward only, and is to be persisted when the runtime knows its deck. *)
(* Mutant: only the very next page is accepted.                              *)
AcceptsNext(i) == i = rt.head + 1

Accepts(i) == i > rt.head

ServerReceives ==
  /\ toServer # <<>> /\ toServer' = Tail(toServer)
  /\ LET i == Head(toServer)
     IN  IF ~rt.live
         THEN kept' = kept \ {i} /\ UNCHANGED <<dbHead, unsaved, rt, toStage>>
         ELSE IF i = Hello
         THEN toStage' = Append(toStage, State(rt.head)) /\ UNCHANGED <<dbHead, unsaved, rt, kept>>
         ELSE IF Accepts(i)
         THEN /\ rt' = [rt EXCEPT !.head = i, !.len = Larger(@, i + 1)]
              /\ IF rt.bound THEN Persist(i) ELSE UNCHANGED <<dbHead, unsaved>>
              /\ toStage' = Append(toStage, State(i))
              /\ UNCHANGED kept
         ELSE UNCHANGED <<dbHead, unsaved, rt, toStage, kept>>
  /\ UNCHANGED <<deckLen, ended, sock, timer, attempts, link, http, stage>>

(* act(accept): the page goes to the tail, and to the stage if it listens.   *)
AcceptSlide ==
  /\ rt.live /\ rt.bound /\ rt.len > rt.head
  /\ deckLen < MaxPages /\ deckLen' = deckLen + 1
  /\ rt' = [rt EXCEPT !.len = Larger(@, deckLen + 1)]
  /\ toStage' = IF sock = "open"
                THEN Append(toStage, [kind |-> "update", at |-> deckLen]) ELSE toStage
  /\ UNCHANGED <<dbHead, unsaved, ended, toServer, sock, timer, attempts, link, http, stage, kept>>
-----------------------------------------------------------------------------
(* onClose loses what is on its way and schedules a reconnect, within the    *)
(* budget.                                                                   *)
LostOnTheWay == {toServer[n] : n \in 1..Len(toServer)}

(* Mutant: when the budget is used up nobody is told.                        *)
ReconnectSilently ==
  IF timer \/ attempts >= MaxAttempts THEN link' = "reconnecting" /\ UNCHANGED <<timer, attempts>>
  ELSE link' = "reconnecting" /\ timer' = TRUE /\ attempts' = attempts + 1

ScheduleReconnect ==
  IF timer THEN link' = "reconnecting" /\ UNCHANGED <<timer, attempts>>
  ELSE IF attempts >= MaxAttempts THEN link' = "failed" /\ UNCHANGED <<timer, attempts>>
  ELSE link' = "reconnecting" /\ timer' = TRUE /\ attempts' = attempts + 1

SocketLost ==
  /\ sock' = "none" /\ toStage' = <<>> /\ toServer' = <<>>
  /\ ScheduleReconnect

Drop ==
  /\ sock # "none" /\ SocketLost
  /\ kept' = kept \ LostOnTheWay
  /\ UNCHANGED <<deckVars, ended, rt, http, stage>>

(* A message of the server.  A deck_update is appended to what is there.     *)
StageReceives ==
  /\ toStage # <<>>
  /\ LET m == Head(toStage)
     IN  \/ /\ m.kind = "update" /\ slides' = Append(slides, m.at)
            /\ toStage' = Tail(toStage)
            /\ UNCHANGED <<committed, toServer, sock, link, kept>>
         \/ /\ m.kind = "state" /\ committed' = Larger(committed, m.at)
            /\ toStage' = Tail(toStage)
            /\ UNCHANGED <<slides, toServer, sock, link, kept>>
         \/ /\ m.kind = "ended" /\ sock' = "none" /\ link' = "ended"
            /\ toStage' = <<>> /\ toServer' = <<>> /\ kept' = kept \ LostOnTheWay
            /\ UNCHANGED <<slides, committed>>
  /\ UNCHANGED <<deckVars, ended, rt, timer, attempts, http, loaded, hasOriginals, index>>

TimerFires ==
  /\ timer /\ timer' = FALSE
  /\ sock' = "connecting"
  /\ UNCHANGED <<deckVars, ended, rt, toStage, toServer, attempts, link, http, stage, kept>>

(* retryWs: the button that is offered when the budget is used up.           *)
RetryWs ==
  /\ link = "failed" /\ link' = "connecting" /\ sock' = "connecting" /\ attempts' = 0
  /\ UNCHANGED <<deckVars, ended, rt, toStage, toServer, timer, http, stage, kept>>
-----------------------------------------------------------------------------
(* The head of a runtime without a deckId is nowhere else.                  *)
Unsaved == IF rt.bound THEN {} ELSE 0..rt.head

(* A restart, or the reclaim of an empty room: runtime and binding are gone. *)
RuntimeLost ==
  /\ rt # NoRuntime /\ rt' = NoRuntime
  /\ kept' = kept \ (LostOnTheWay \cup Unsaved)
  /\ IF sock = "open" THEN SocketLost ELSE UNCHANGED netVars
  /\ UNCHANGED <<deckVars, ended, http, stage>>

EndMeeting ==
  /\ ~ended /\ ended' = TRUE
  /\ rt' = NoRuntime
  /\ kept' = kept \ Unsaved
  /\ toStage' = IF sock = "open" THEN Append(toStage, [kind |-> "ended", at |-> -1]) ELSE toStage
  /\ UNCHANGED <<deckVars, toServer, sock, timer, attempts, link, http, stage>>

Next ==
  \/ \E r \in Request : Answer(r) \/ Arrive(r) \/ Fail(r)
  \/ LoadTimeout \/ RetryLoad \/ Refresh
  \/ \E next \in Page : Go(next)
  \/ Open \/ ServerReceives \/ StageReceives \/ AcceptSlide
  \/ Drop \/ TimerFires \/ RetryWs
  \/ RuntimeLost \/ EndMeeting

(* Timers fire, the server answers, a connection attempt has an outcome, and *)
(* the network does not lose every answer.                                   *)
Fairness ==
  /\ WF_vars(Refresh) /\ WF_vars(TimerFires) /\ WF_vars(Open \/ Drop)
  /\ WF_vars(StageReceives)
  /\ \A r \in Request : WF_vars(Answer(r)) /\ SF_vars(Arrive(r))

Spec == Init /\ [][Next]_vars
FairSpec == Spec /\ Fairness
-----------------------------------------------------------------------------
Deck == [n \in 1..deckLen |-> n - 1]

(* Liveness: whatever order the snapshots and the deck_updates came in, and  *)
(* whatever was doubled or lost on the way, a stage whose first load         *)
(* succeeded ends up with the deck as it is (the 30-minute refresh).         *)
StageConverges == <>hasOriginals => <>[](slides = Deck)

(* Liveness (scheduleReconnect): a stage that lost its socket is connected   *)
(* again or says that it failed; it does not stay "reconnecting".            *)
LinkSettles == sock = "none" ~> (sock = "open" \/ link \in {"failed", "ended"})

(* Safety: every page whose page_commit left the stage is on its way or at   *)
(* or below the head, the runtime's or, after it is gone, the deck's; only   *)
(* what was lost with a socket or with an unbound runtime is exempt, and what *)
(* the deck does not have because a save failed.                             *)
NoReportForgotten ==
  \A i \in kept :
    \/ i <= rt.head \/ i <= dbHead \/ i <= unsaved
    \/ \E n \in 1..Len(toServer) : toServer[n] = i

(* Safety, claimed by the comment on appendSlide: the next page of the deck  *)
(* is ahead of the head, so that it can still be edited and accepted.        *)
AppendAheadOfHead == deckLen > dbHead

(* Safety (I1 "does not touch pages already shown"): every page turned to is,  *)
(* while the stage is connected, at or below the head that refuses edits.    *)
ShownIsFrozen ==
  loaded /\ sock = "open" /\ toServer = <<>> /\ unsaved = -1 /\ rt.live /\ rt.bound
  /\ index \in 1..(Len(slides) - 1)
    => index <= dbHead

(* Safety: the screen does not go blank once there is something on it.       *)
NeverBlank == slides # <<>> => index < Len(slides)

(* Action property, claimed by the comment on the ref: the local head only   *)
(* grows.                                                                    *)
LocalHeadMonotone == [][committed' >= committed]_vars
=============================================================================

-------------------------- MODULE PresentSyncProofs --------------------------
(***************************************************************************)
(* What the shown page and the server keep between them, for any number of   *)
(* calls in flight, pages and reconnect attempts: no page that was reported  *)
(* is forgotten.                                                             *)
(***************************************************************************)
EXTENDS PresentSync, SequenceTheorems, TLAPS

(* What is on its way is on an open socket; a reconnect is scheduled where   *)
(* there is no socket, and given up where none is scheduled.                 *)
LinkOK ==
  /\ sock # "open" => toServer = <<>> /\ toStage = <<>>
  /\ timer => sock = "none"
  /\ link = "failed" => sock = "none" /\ ~timer

(* The head of a runtime that knows its deck is saved there, or its save     *)
(* failed.                                                                   *)
HeadOK ==
  /\ ~rt.live => rt.head = -1
  /\ rt.live /\ rt.bound => rt.head <= dbHead \/ rt.head <= unsaved

(* TypeOK in three parts: the server, the link, the stage.                   *)
Call    == [kind : {"none", "load", "refetch", "refresh"}, len : 0..MaxPages, head : PageOrNone]
Message == [kind : {"update"}, at : Page] \cup [kind : {"state", "ended"}, at : PageOrNone]
Runtime == [live : BOOLEAN, bound : BOOLEAN, head : PageOrNone, len : 0..(MaxPages + 1)]

ServerType ==
  /\ deckLen \in FirstPages..MaxPages /\ dbHead \in PageOrNone /\ ended \in BOOLEAN
  /\ rt \in Runtime /\ unsaved \in PageOrNone

LinkType ==
  /\ toStage \in Seq(Message)
  /\ toServer \in Seq(PageOrNone)
  /\ sock \in {"none", "connecting", "open"} /\ timer \in BOOLEAN
  /\ attempts \in 0..MaxAttempts
  /\ link \in {"connecting", "open", "reconnecting", "failed", "ended"}

StageType ==
  /\ http \in [Request -> Call]
  /\ loaded \in BOOLEAN /\ hasOriginals \in BOOLEAN
  /\ slides \in Seq(Page) /\ index \in Page /\ committed \in PageOrNone
  /\ kept \subseteq Page

LEMMA Types == TypeOK <=> ServerType /\ LinkType /\ StageType
BY DEF TypeOK, ServerType, LinkType, StageType, Call, Message, Runtime

PresentInv == ServerType /\ LinkType /\ StageType /\ LinkOK /\ HeadOK /\ NoReportForgotten

LEMMA PageFacts ==
  /\ MaxPages \in Nat /\ MaxAttempts \in Nat /\ FirstPages \in Nat /\ 0 < FirstPages /\ FirstPages <= MaxPages
  /\ \A p \in Page : p \in Int /\ 0 <= p /\ p <= MaxPages /\ p \in PageOrNone
  /\ \A p \in PageOrNone : p \in Int /\ -1 <= p /\ p <= MaxPages /\ (p # -1 => p \in Page)
  /\ -1 \in PageOrNone /\ -1 \notin Page /\ 0 \in Page
BY PresentAssumption DEF Page, PageOrNone

LEMMA Records ==
  /\ Idle \in Call /\ \A kind \in {"load", "refetch", "refresh"} : Asked(kind) \in Call
  /\ NoRuntime \in Runtime /\ [NoRuntime EXCEPT !.bound = TRUE] \in Runtime
  /\ [NoRuntime EXCEPT !.live = TRUE] \in Runtime
  /\ \A head \in PageOrNone : State(head) \in Message
  /\ [kind |-> "ended", at |-> -1] \in Message
<1>1. Idle \in Call /\ \A kind \in {"load", "refetch", "refresh"} : Asked(kind) \in Call
  BY PageFacts DEF Idle, Asked, Call
<1>2. NoRuntime \in Runtime
  BY PageFacts DEF NoRuntime, Runtime
<1>3. [NoRuntime EXCEPT !.bound = TRUE] \in Runtime /\ [NoRuntime EXCEPT !.live = TRUE] \in Runtime
  BY <1>2 DEF Runtime
<1>4. (\A head \in PageOrNone : State(head) \in Message) /\ [kind |-> "ended", at |-> -1] \in Message
  BY PageFacts DEF State, Message
<1> QED BY <1>1, <1>2, <1>3, <1>4

LEMMA PresentInit == Init => PresentInv
<1> SUFFICES ASSUME Init PROVE PresentInv
  OBVIOUS
<1>1. ServerType /\ LinkType
  <2>1. FirstPages \in FirstPages..MaxPages /\ 0 \in 0..MaxAttempts
    BY PageFacts
  <2>2. ServerType
    BY <2>1, PageFacts, Records DEF Init, ServerType
  <2>3. LinkType
    <3>1. toStage \in Seq(Message) /\ toServer \in Seq(PageOrNone)
      BY DEF Init
    <3>2. timer \in BOOLEAN
      BY DEF Init
    <3>3. sock = "connecting" /\ link = "connecting" /\ attempts \in 0..MaxAttempts
      BY <2>1 DEF Init
    <3> QED BY <3>1, <3>2, <3>3 DEF LinkType
  <2> QED BY <2>2, <2>3
<1>2. StageType
  <2>1. http \in [Request -> Call]
    BY Records DEF Init
  <2>2. index \in Page /\ committed \in PageOrNone
    BY PageFacts DEF Init
  <2>3. slides \in Seq(Page) /\ kept \subseteq Page
    BY DEF Init
  <2>4. loaded \in BOOLEAN /\ hasOriginals \in BOOLEAN
    BY DEF Init
  <2> QED BY <2>1, <2>2, <2>3, <2>4 DEF StageType
<1>3. LinkOK /\ HeadOK /\ NoReportForgotten
  BY DEF Init, LinkOK, HeadOK, NoReportForgotten, NoRuntime
<1> QED BY <1>1, <1>2, <1>3 DEF PresentInv
-----------------------------------------------------------------------------
(* The calls. *)

Calls == (\E r \in Request : Answer(r) \/ Arrive(r) \/ Fail(r)) \/ LoadTimeout \/ RetryLoad \/ Refresh

LEMMA AskType ==
  ASSUME StageType, NEW kind \in {"load", "refetch", "refresh"}, Ask(kind)
  PROVE  http' \in [Request -> Call]
BY Records DEF StageType, Ask

LEMMA CallStep ==
  ASSUME PresentInv, Calls
  PROVE  PresentInv'
<1>0. ServerType /\ LinkType /\ StageType
  BY DEF PresentInv
<1>1. UNCHANGED <<deckVars, ended, rt, netVars, kept, index>>
  BY DEF Calls, Answer, Arrive, Fail, LoadTimeout, RetryLoad, Refresh, stage
<1>2. StageType'
  <2>1. ASSUME NEW r \in Request, Answer(r) PROVE StageType'
    <3>1. [http[r] EXCEPT !.len = deckLen, !.head = dbHead] \in Call
      <4>1. http[r] \in Call /\ dbHead \in PageOrNone /\ deckLen \in 0..MaxPages
        BY <1>0, PageFacts DEF ServerType, StageType
      <4> QED BY <4>1 DEF Call
    <3>2. http' = [http EXCEPT ![r] = [http[r] EXCEPT !.len = deckLen, !.head = dbHead]]
      BY <1>0, <2>1 DEF StageType, Answer
    <3>3. UNCHANGED <<loaded, hasOriginals, slides, index, committed, kept>>
      BY <2>1 DEF Answer, stage
    <3> QED BY <1>0, <3>1, <3>2, <3>3 DEF StageType
  <2>2. ASSUME NEW r \in Request, Arrive(r) PROVE StageType'
    <3>1. http[r].len \in 0..MaxPages /\ http[r].head \in PageOrNone /\ http[r].len > 0
      BY <1>0, <2>2 DEF StageType, Arrive, Call
    <3>2. slides' \in Seq(Page)
      BY <2>2, <3>1, PageFacts DEF Arrive, Snapshot, Page
    <3>3. committed' \in PageOrNone
      BY <1>0, <2>2, <3>1, PageFacts DEF StageType, Arrive, Larger
    <3>4. Idle \in Call
      BY Records
    <3>5. http' = [http EXCEPT ![r] = Idle]
      BY <2>2 DEF Arrive
    <3>6. loaded' \in BOOLEAN /\ hasOriginals' \in BOOLEAN
      BY <2>2 DEF Arrive
    <3> QED BY <1>0, <1>1, <3>2, <3>3, <3>4, <3>5, <3>6 DEF StageType
  <2>3. ASSUME NEW r \in Request, Fail(r) PROVE StageType'
    <3>1. Idle \in Call
      BY Records
    <3>2. http' = [http EXCEPT ![r] = Idle] /\ UNCHANGED <<hasOriginals, slides, index, committed, kept>>
      BY <2>3 DEF Fail
    <3>3. loaded' \in BOOLEAN
      BY <2>3 DEF Fail
    <3> QED BY <1>0, <3>1, <3>2, <3>3 DEF StageType
  <2>4. CASE LoadTimeout
    BY <1>0, <2>4 DEF StageType, LoadTimeout
  <2>5. CASE RetryLoad
    <3>1. \E freed \in [Request -> Call] : \E r \in Request : http' = [freed EXCEPT ![r] = Asked("load")]
      <4> DEFINE freed == [r \in Request |-> IF http[r].kind = "load" THEN Idle ELSE http[r]]
      <4>1. freed \in [Request -> Call]
        BY <1>0, Records DEF StageType
      <4>2. \E r \in Request : http' = [freed EXCEPT ![r] = Asked("load")]
        BY <2>5 DEF RetryLoad
      <4> QED BY <4>1, <4>2
    <3>2. http' \in [Request -> Call]
      BY <3>1, Records
    <3>3. loaded' \in BOOLEAN /\ UNCHANGED <<hasOriginals, slides, index, committed, kept>>
      BY <2>5 DEF RetryLoad
    <3> QED BY <1>0, <3>2, <3>3 DEF StageType
  <2>6. CASE Refresh
    BY <1>0, <2>6, AskType DEF StageType, Refresh, stage
  <2> QED BY <2>1, <2>2, <2>3, <2>4, <2>5, <2>6 DEF Calls
<1>3. ServerType' /\ LinkType'
  BY <1>0, <1>1 DEF ServerType, LinkType, deckVars, netVars
<1>4. LinkOK' /\ HeadOK' /\ NoReportForgotten'
  BY <1>1 DEF PresentInv, LinkOK, HeadOK, NoReportForgotten, deckVars, netVars
<1> QED BY <1>2, <1>3, <1>4 DEF PresentInv
-----------------------------------------------------------------------------
(* The stage turns a page.                                                  *)
LEMMA GoStep ==
  ASSUME PresentInv, NEW next \in Page, Go(next)
  PROVE  PresentInv'
<1>0. ServerType /\ LinkType /\ StageType
  BY DEF PresentInv
<1>1. UNCHANGED <<deckVars, ended, rt, toStage, sock, timer, attempts, link, http, loaded, hasOriginals, slides>>
      /\ index' = next
  BY DEF Go
<1>2. \/ UNCHANGED <<toServer, kept>>
      \/ sock = "open" /\ toServer' = Append(toServer, next) /\ kept' = kept \cup {next}
  BY DEF Go, CommitPage
<1>3. committed' \in PageOrNone
  BY <1>0, PageFacts DEF Go, CommitPage, StageType
<1>4. next \in PageOrNone
  BY PageFacts
<1>5. StageType'
  BY <1>0, <1>1, <1>2, <1>3 DEF StageType
<1>6. LinkType' /\ ServerType'
  BY <1>0, <1>1, <1>2, <1>4 DEF LinkType, ServerType, deckVars
<1>7. LinkOK' /\ HeadOK'
  BY <1>1, <1>2 DEF PresentInv, LinkOK, HeadOK, deckVars
<1>8. NoReportForgotten'
  <2>1. CASE UNCHANGED <<toServer, kept>>
    BY <1>1, <2>1 DEF PresentInv, NoReportForgotten, deckVars
  <2>2. CASE toServer' = Append(toServer, next) /\ kept' = kept \cup {next}
    <3>1. /\ Len(toServer') = Len(toServer) + 1 /\ toServer'[Len(toServer) + 1] = next
          /\ \A n \in 1..Len(toServer) : toServer'[n] = toServer[n]
      BY <1>0, <1>4, <2>2, AppendProperties DEF LinkType
    <3>2. Len(toServer) \in Nat
      BY <1>0 DEF LinkType
    <3> QED BY <1>1, <2>2, <3>1, <3>2 DEF PresentInv, NoReportForgotten, deckVars
  <2> QED BY <1>2, <2>1, <2>2
<1> QED BY <1>5, <1>6, <1>7, <1>8 DEF PresentInv
-----------------------------------------------------------------------------
(* The socket. *)

LEMMA OpenStep ==
  ASSUME PresentInv, Open
  PROVE  PresentInv'
<1>0. ServerType /\ LinkType /\ StageType
  BY DEF PresentInv
<1>1. /\ sock = "connecting" /\ sock' = "open" /\ link' = "open" /\ attempts' = 0 /\ toServer' = <<Hello>>
      /\ UNCHANGED <<deckVars, ended, timer, stage, kept>>
  BY DEF Open
<1>2. toServer = <<>>
  BY <1>1 DEF PresentInv, LinkOK
<1>3. rt' = rt \/ rt' = Materialised
  BY DEF Open
<1>4. Materialised \in Runtime
  <2>1. rt.bound => [live |-> TRUE, bound |-> TRUE, head |-> dbHead, len |-> deckLen] \in Runtime
    BY <1>0, PageFacts DEF ServerType, Runtime
  <2> QED BY <1>0, <2>1, Records DEF ServerType, Materialised
<1>5. ServerType'
  BY <1>0, <1>1, <1>3, <1>4 DEF ServerType, deckVars
<1>6. HeadOK' /\ (rt.live => rt'.head = rt.head)
  <2>1. CASE rt' = rt
    BY <1>1, <2>1 DEF PresentInv, HeadOK, deckVars
  <2>2. CASE rt' = Materialised
    BY <1>0, <1>1, <2>2, PageFacts DEF PresentInv, HeadOK, Materialised, NoRuntime, deckVars, ServerType
  <2> QED BY <1>3, <2>1, <2>2
<1>7. LinkType'
  <2>1. toStage' \in Seq(Message)
    <3>1. State(Materialised.head) \in Message
      BY <1>4, Records DEF Runtime
    <3>2. [kind |-> "ended", at |-> -1] \in Message
      BY Records
    <3>3. \E m \in Message : toStage' = <<m>>
      BY <3>1, <3>2 DEF Open
    <3> QED BY <3>3
  <2>2. <<Hello>> \in Seq(PageOrNone)
    BY PageFacts DEF Hello
  <2>3. timer' \in BOOLEAN
    BY <1>0, <1>1 DEF LinkType
  <2> QED BY <1>1, <2>1, <2>2, <2>3, PageFacts DEF LinkType
<1>8. StageType'
  <2>1. Ask("refetch")
    BY DEF Open
  <2> QED BY <1>0, <1>1, <2>1, AskType DEF StageType, stage
<1>9. LinkOK'
  BY <1>1 DEF PresentInv, LinkOK
<1>10. NoReportForgotten'
  <2>1. ASSUME NEW i \in kept PROVE i <= rt'.head \/ i <= dbHead \/ i <= unsaved
    <3>1. i \in Page
      BY <1>0 DEF StageType
    <3>2. i <= rt.head \/ i <= dbHead \/ i <= unsaved
      BY <1>2 DEF PresentInv, NoReportForgotten
    <3>3. i <= rt.head => rt.live
      BY <3>1, PageFacts DEF PresentInv, HeadOK
    <3> QED BY <1>6, <3>2, <3>3
  <2> QED BY <1>1, <2>1 DEF NoReportForgotten, deckVars
<1> QED BY <1>5, <1>6, <1>7, <1>8, <1>9, <1>10 DEF PresentInv

(* Whether the save of a page succeeds or fails, no page it covers is lost.   *)
LEMMA PersistFacts ==
  ASSUME ServerType, NEW i \in Page, Persist(i)
  PROVE  /\ dbHead' \in PageOrNone /\ unsaved' \in PageOrNone
         /\ i <= dbHead' \/ i <= unsaved'
         /\ \A j \in Page : j <= dbHead \/ j <= unsaved => j <= dbHead' \/ j <= unsaved'
<1>1. dbHead \in PageOrNone /\ unsaved \in PageOrNone
  BY DEF ServerType
<1>2. CASE dbHead' = Larger(dbHead, i) /\ unsaved' = IF i < unsaved THEN unsaved ELSE -1
  BY <1>1, <1>2, PageFacts DEF Larger
<1>3. CASE unsaved' = (IF i > dbHead THEN Larger(unsaved, i) ELSE unsaved) /\ UNCHANGED dbHead
  BY <1>1, <1>3, PageFacts DEF Larger
<1> QED BY <1>2, <1>3 DEF Persist

(* The rest of a queue.                                                      *)
LEMMA RestOfQueue ==
  ASSUME NEW S, NEW q \in Seq(S), q # <<>>
  PROVE  /\ Tail(q) \in Seq(S) /\ Head(q) \in S
         /\ \A n \in 1..Len(q) : q[n] = Head(q) \/ \E m \in 1..Len(Tail(q)) : Tail(q)[m] = q[n]
<1>1. Len(q) \in Nat /\ Len(q) # 0 /\ Len(Tail(q)) = Len(q) - 1 /\ Tail(q) \in Seq(S) /\ Head(q) \in S
  BY EmptySeq, HeadTailProperties
<1>2. \A m \in 1..Len(Tail(q)) : Tail(q)[m] = q[m + 1]
  BY HeadTailProperties
<1>3. Head(q) = q[1]
  OBVIOUS
<1>4. ASSUME NEW n \in 1..Len(q), n # 1 PROVE n - 1 \in 1..Len(Tail(q)) /\ Tail(q)[n - 1] = q[n]
  <2>1. n - 1 \in 1..Len(Tail(q)) /\ (n - 1) + 1 = n
    BY <1>1, <1>4
  <2> QED BY <1>2, <2>1
<1> QED BY <1>1, <1>3, <1>4

LEMMA ServerStep ==
  ASSUME PresentInv, ServerReceives
  PROVE  PresentInv'
<1>0. ServerType /\ LinkType /\ StageType
  BY DEF PresentInv
<1> DEFINE i == Head(toServer)
<1>1. /\ toServer # <<>> /\ toServer' = Tail(toServer)
      /\ UNCHANGED <<deckLen, ended, sock, timer, attempts, link, http, stage>>
  BY DEF ServerReceives
<1>2. /\ Tail(toServer) \in Seq(PageOrNone) /\ i \in PageOrNone
      /\ \A n \in 1..Len(toServer) : toServer[n] = i \/ \E m \in 1..Len(toServer') : toServer'[m] = toServer[n]
  BY <1>0, <1>1, RestOfQueue DEF LinkType
<1>3. \A j \in kept : j \in Page
  BY <1>0 DEF StageType
<1>4. \A j \in kept : j # i => j <= rt.head \/ j <= dbHead \/ j <= unsaved \/ \E m \in 1..Len(toServer') : toServer'[m] = j
  BY <1>2 DEF PresentInv, NoReportForgotten
<1> HIDE DEF i
<1>5. /\ rt.head \in PageOrNone /\ dbHead \in PageOrNone /\ unsaved \in PageOrNone /\ rt.len \in 0..(MaxPages + 1) /\ rt.bound \in BOOLEAN
      /\ rt.live \in BOOLEAN
  BY <1>0 DEF ServerType, Runtime
<1>6. CASE ~rt.live
  <2>1. kept' = kept \ {i} /\ UNCHANGED <<dbHead, unsaved, rt, toStage>>
    BY <1>6 DEF ServerReceives, i
  <2>2. ServerType' /\ LinkType' /\ StageType'
    BY <1>0, <1>1, <1>2, <2>1 DEF ServerType, LinkType, StageType, stage
  <2>3. LinkOK' /\ HeadOK'
    BY <1>1, <2>1 DEF PresentInv, LinkOK, HeadOK
  <2>4. NoReportForgotten'
    BY <1>4, <2>1 DEF NoReportForgotten
  <2> QED BY <2>2, <2>3, <2>4 DEF PresentInv
<1>7. CASE rt.live /\ i = Hello
  <2>1. toStage' = Append(toStage, State(rt.head)) /\ UNCHANGED <<dbHead, unsaved, rt, kept>>
    BY <1>7 DEF ServerReceives, i
  <2>2. State(rt.head) \in Message
    BY <1>5, Records
  <2>3. ServerType' /\ LinkType' /\ StageType'
    BY <1>0, <1>1, <1>2, <2>1, <2>2 DEF ServerType, LinkType, StageType, stage
  <2>4. LinkOK' /\ HeadOK'
    BY <1>1, <2>1 DEF PresentInv, LinkOK, HeadOK
  <2>5. i \notin kept
    BY <1>3, <1>7, PageFacts DEF Hello
  <2>6. NoReportForgotten'
    BY <1>4, <2>1, <2>5 DEF NoReportForgotten
  <2> QED BY <2>3, <2>4, <2>6 DEF PresentInv
<1>8. CASE rt.live /\ i # Hello /\ Accepts(i)
  <2>1. /\ rt' = [rt EXCEPT !.head = i, !.len = Larger(@, i + 1)]
        /\ IF rt.bound THEN Persist(i) ELSE UNCHANGED <<dbHead, unsaved>>
        /\ toStage' = Append(toStage, State(i)) /\ kept' = kept
    BY <1>8 DEF ServerReceives, i
  <2>2. i \in Page /\ i > rt.head
    BY <1>2, <1>8, PageFacts DEF Hello, Accepts
  <2>3. rt'.head = i /\ rt'.live = rt.live /\ rt'.bound = rt.bound
    BY <1>0, <2>1 DEF ServerType, Runtime
  <2>4. /\ dbHead' \in PageOrNone /\ unsaved' \in PageOrNone
        /\ rt.bound => i <= dbHead' \/ i <= unsaved'
        /\ \A j \in Page : j <= dbHead \/ j <= unsaved => j <= dbHead' \/ j <= unsaved'
    BY <1>0, <1>5, <2>1, <2>2, PersistFacts
  <2>5. ServerType'
    <3>1. Larger(rt.len, i + 1) \in 0..(MaxPages + 1)
      BY <1>5, <2>2, PageFacts DEF Larger
    <3>2. [rt EXCEPT !.head = i, !.len = Larger(@, i + 1)] \in Runtime
      BY <1>0, <1>2, <3>1 DEF ServerType, Runtime
    <3> QED BY <1>0, <1>1, <2>1, <2>4, <3>2 DEF ServerType
  <2>6. State(i) \in Message
    BY <1>2, Records
  <2>7. LinkType' /\ StageType'
    BY <1>0, <1>1, <1>2, <2>1, <2>6 DEF LinkType, StageType, stage
  <2>8. LinkOK'
    BY <1>1 DEF PresentInv, LinkOK
  <2>9. HeadOK'
    BY <1>8, <2>3, <2>4 DEF HeadOK
  <2>10. NoReportForgotten'
    <3>1. ASSUME NEW j \in kept
          PROVE  j <= rt'.head \/ j <= dbHead' \/ j <= unsaved' \/ \E m \in 1..Len(toServer') : toServer'[m] = j
      <4>1. CASE j = i
        BY <1>3, <2>2, <2>3, <4>1, PageFacts
      <4>2. CASE j # i /\ j <= rt.head
        BY <1>3, <1>5, <2>2, <2>3, <4>2, PageFacts
      <4>3. CASE j # i /\ (j <= dbHead \/ j <= unsaved)
        BY <1>3, <2>4, <4>3
      <4> QED BY <1>4, <4>1, <4>2, <4>3
    <3> QED BY <2>1, <3>1 DEF NoReportForgotten
  <2> QED BY <2>5, <2>7, <2>8, <2>9, <2>10 DEF PresentInv
<1>9. CASE rt.live /\ i # Hello /\ ~Accepts(i)
  <2>1. UNCHANGED <<dbHead, unsaved, rt, toStage, kept>>
    BY <1>9 DEF ServerReceives, i
  <2>2. ServerType' /\ LinkType' /\ StageType'
    BY <1>0, <1>1, <1>2, <2>1 DEF ServerType, LinkType, StageType, stage
  <2>3. LinkOK' /\ HeadOK'
    BY <1>1, <2>1 DEF PresentInv, LinkOK, HeadOK
  <2>4. i <= rt.head
    BY <1>2, <1>5, <1>9, PageFacts DEF Accepts
  <2>5. NoReportForgotten'
    BY <1>4, <2>1, <2>4 DEF NoReportForgotten
  <2> QED BY <2>2, <2>3, <2>5 DEF PresentInv
<1> QED BY <1>6, <1>7, <1>8, <1>9

LEMMA AcceptStep ==
  ASSUME PresentInv, AcceptSlide
  PROVE  PresentInv'
<1>0. ServerType /\ LinkType /\ StageType
  BY DEF PresentInv
<1>1. /\ rt' = [rt EXCEPT !.len = Larger(@, deckLen + 1)] /\ deckLen' = deckLen + 1 /\ deckLen < MaxPages
      /\ UNCHANGED <<dbHead, unsaved, ended, toServer, sock, timer, attempts, link, http, stage, kept>>
  BY DEF AcceptSlide
<1>2. deckLen \in PageOrNone /\ deckLen' \in FirstPages..MaxPages
  BY <1>0, <1>1, PageFacts, PresentAssumption DEF ServerType, PageOrNone, Page
<1>3. Larger(rt.len, deckLen + 1) \in 0..(MaxPages + 1)
  BY <1>0, <1>1, PageFacts DEF ServerType, Runtime, Larger
<1>4. rt' \in Runtime /\ rt'.live = rt.live /\ rt'.bound = rt.bound /\ rt'.head = rt.head
  BY <1>0, <1>1, <1>3 DEF ServerType, Runtime
<1>5. ServerType'
  BY <1>0, <1>1, <1>2, <1>4 DEF ServerType
<1>6. toStage' \in Seq(Message) /\ (sock # "open" => toStage' = toStage)
  <2>1. [kind |-> "update", at |-> deckLen] \in Message
    BY <1>0, <1>1, PageFacts DEF Message, ServerType, Page
  <2> QED BY <1>0, <2>1 DEF AcceptSlide, LinkType
<1>7. LinkType' /\ StageType'
  BY <1>0, <1>1, <1>6 DEF LinkType, StageType, stage
<1>8. LinkOK' /\ HeadOK' /\ NoReportForgotten'
  BY <1>1, <1>4, <1>6 DEF PresentInv, LinkOK, HeadOK, NoReportForgotten
<1> QED BY <1>5, <1>7, <1>8 DEF PresentInv
-----------------------------------------------------------------------------
(* The socket is lost, and opened again.                                     *)

(* What was on its way is no longer kept, the rest is at the head.           *)
LEMMA LostForgotten ==
  ASSUME PresentInv, NEW i \in kept, i \notin LostOnTheWay
  PROVE  i <= rt.head \/ i <= dbHead \/ i <= unsaved
BY DEF PresentInv, NoReportForgotten, LostOnTheWay

LEMMA LostStep ==
  ASSUME PresentInv, SocketLost
  PROVE  LinkType' /\ LinkOK'
<1>0. LinkType
  BY DEF PresentInv
<1>1. toStage' \in Seq(Message) /\ toServer' \in Seq(PageOrNone) /\ sock' = "none"
  BY DEF SocketLost
<1>2. attempts' \in 0..MaxAttempts
  BY <1>0, PageFacts DEF LinkType, SocketLost, ScheduleReconnect
<1>3. timer' \in BOOLEAN
  BY <1>0 DEF LinkType, SocketLost, ScheduleReconnect
<1>4. link' \in {"reconnecting", "failed"} /\ (link' = "failed" => ~timer')
  BY DEF SocketLost, ScheduleReconnect
<1>5. LinkType'
  BY <1>1, <1>2, <1>3, <1>4 DEF LinkType
<1>6. LinkOK'
  BY <1>1, <1>4 DEF LinkOK, SocketLost
<1> QED BY <1>5, <1>6

LEMMA DropStep ==
  ASSUME PresentInv, Drop
  PROVE  PresentInv'
<1>0. ServerType /\ StageType
  BY DEF PresentInv
<1>1. kept' = kept \ LostOnTheWay /\ UNCHANGED <<deckVars, ended, rt, http, stage>> /\ SocketLost
  BY DEF Drop
<1>2. LinkType' /\ LinkOK'
  BY <1>1, LostStep
<1>3. ServerType' /\ StageType' /\ HeadOK'
  BY <1>0, <1>1 DEF PresentInv, ServerType, StageType, HeadOK, deckVars, stage
<1>4. NoReportForgotten'
  BY <1>1, LostForgotten DEF NoReportForgotten, deckVars
<1> QED BY <1>2, <1>3, <1>4 DEF PresentInv

LEMMA StageStep ==
  ASSUME PresentInv, StageReceives
  PROVE  PresentInv'
<1>0. ServerType /\ LinkType /\ StageType
  BY DEF PresentInv
<1>1. toStage # <<>> /\ UNCHANGED <<deckVars, ended, rt, timer, attempts, http, loaded, hasOriginals, index>>
  BY DEF StageReceives
<1>2. PICK m \in Message : m = Head(toStage)
  BY <1>0, <1>1, RestOfQueue DEF LinkType
<1>3. Tail(toStage) \in Seq(Message)
  BY <1>0, <1>1, RestOfQueue DEF LinkType
<1>4. (m.kind = "update" => m.at \in Page) /\ m.at \in PageOrNone /\ sock = "open"
  BY <1>1, PageFacts DEF Message, PresentInv, LinkOK
<1>5. ServerType' /\ HeadOK'
  BY <1>0, <1>1 DEF PresentInv, ServerType, HeadOK, deckVars
<1>6. CASE /\ m.kind = "update" /\ slides' = Append(slides, m.at)
           /\ toStage' = Tail(toStage) /\ UNCHANGED <<committed, toServer, sock, link, kept>>
  <2>1. slides' \in Seq(Page)
    BY <1>0, <1>4, <1>6, AppendProperties DEF StageType
  <2>2. StageType' /\ LinkType'
    BY <1>0, <1>1, <1>3, <1>6, <2>1 DEF StageType, LinkType
  <2>3. LinkOK' /\ NoReportForgotten'
    BY <1>1, <1>4, <1>6 DEF PresentInv, LinkOK, NoReportForgotten, deckVars
  <2> QED BY <1>5, <2>2, <2>3 DEF PresentInv
<1>7. CASE /\ committed' = Larger(committed, m.at)
           /\ toStage' = Tail(toStage) /\ UNCHANGED <<slides, toServer, sock, link, kept>>
  <2>1. committed' \in PageOrNone
    BY <1>0, <1>4, <1>7 DEF StageType, Larger
  <2>2. StageType' /\ LinkType'
    BY <1>0, <1>1, <1>3, <1>7, <2>1 DEF StageType, LinkType
  <2>3. LinkOK' /\ NoReportForgotten'
    BY <1>1, <1>4, <1>7 DEF PresentInv, LinkOK, NoReportForgotten, deckVars
  <2> QED BY <1>5, <2>2, <2>3 DEF PresentInv
<1>8. CASE /\ sock' = "none" /\ link' = "ended" /\ toStage' = <<>> /\ toServer' = <<>>
           /\ kept' = kept \ LostOnTheWay /\ UNCHANGED <<slides, committed>>
  <2>1. StageType'
    BY <1>0, <1>1, <1>8 DEF StageType
  <2>2. LinkType'
    BY <1>0, <1>1, <1>8 DEF LinkType
  <2>3. LinkOK'
    BY <1>8 DEF LinkOK
  <2>4. NoReportForgotten'
    BY <1>1, <1>8, LostForgotten DEF NoReportForgotten, deckVars
  <2> QED BY <1>5, <2>1, <2>2, <2>3, <2>4 DEF PresentInv
<1> QED BY <1>2, <1>6, <1>7, <1>8 DEF StageReceives

LEMMA ReconnectStep ==
  ASSUME PresentInv, TimerFires \/ RetryWs
  PROVE  PresentInv'
<1>1. /\ UNCHANGED <<deckVars, ended, rt, toStage, toServer, http, stage, kept>>
      /\ sock' = "connecting" /\ timer' = FALSE /\ sock = "none"
  BY DEF PresentInv, LinkOK, LinkType, TimerFires, RetryWs
<1>2. attempts' \in 0..MaxAttempts /\ link' \in {"connecting", "open", "reconnecting", "failed", "ended"}
  BY PageFacts DEF PresentInv, LinkType, TimerFires, RetryWs
<1>3. link' # "failed"
  BY DEF PresentInv, LinkOK, TimerFires, RetryWs
<1>4. timer' \in BOOLEAN
  BY <1>1
<1>5. ServerType' /\ LinkType' /\ StageType'
  BY <1>1, <1>2, <1>4 DEF PresentInv, ServerType, LinkType, StageType, deckVars, stage
<1>6. LinkOK' /\ HeadOK' /\ NoReportForgotten'
  BY <1>1, <1>3 DEF PresentInv, LinkOK, HeadOK, NoReportForgotten, deckVars
<1> QED BY <1>5, <1>6 DEF PresentInv
-----------------------------------------------------------------------------
(* The runtime is lost, and the meeting ends.                                *)

(* What only the runtime knew is no longer kept.                             *)
LEMMA UnsavedForgotten ==
  ASSUME PresentInv, NEW i \in kept, i \notin Unsaved, i <= rt.head
  PROVE  i <= dbHead \/ i <= unsaved
<1>1. i \in Page /\ rt.head \in PageOrNone /\ dbHead \in PageOrNone /\ unsaved \in PageOrNone
      /\ rt.live \in BOOLEAN /\ rt.bound \in BOOLEAN
  BY DEF PresentInv, StageType, ServerType, Runtime
<1>2. rt.live
  BY <1>1, PageFacts DEF PresentInv, HeadOK
<1>3. rt.bound
  BY <1>1, PageFacts DEF Unsaved
<1>4. rt.head <= dbHead \/ rt.head <= unsaved
  BY <1>2, <1>3 DEF PresentInv, HeadOK
<1> QED BY <1>1, <1>4, PageFacts

LEMMA RuntimeLostStep ==
  ASSUME PresentInv, RuntimeLost
  PROVE  PresentInv'
<1>1. rt' = NoRuntime /\ kept' = kept \ (LostOnTheWay \cup Unsaved) /\ UNCHANGED <<deckVars, ended, http, stage>>
  BY DEF RuntimeLost
<1>2. LinkType' /\ LinkOK'
  BY LostStep DEF RuntimeLost, PresentInv, LinkType, LinkOK, netVars
<1>3. ServerType' /\ StageType' /\ HeadOK'
  BY <1>1, Records DEF PresentInv, ServerType, StageType, HeadOK, NoRuntime, deckVars, stage
<1>4. NoReportForgotten'
  BY <1>1, LostForgotten, UnsavedForgotten DEF NoReportForgotten, deckVars
<1> QED BY <1>2, <1>3, <1>4 DEF PresentInv

LEMMA EndStep ==
  ASSUME PresentInv, EndMeeting
  PROVE  PresentInv'
<1>1. /\ rt' = NoRuntime /\ kept' = kept \ Unsaved /\ ended' = TRUE
      /\ UNCHANGED <<deckVars, toServer, sock, timer, attempts, link, http, stage>>
  BY DEF EndMeeting
<1>2. toStage' \in Seq(Message) /\ (sock # "open" => toStage' = toStage)
  BY Records DEF PresentInv, LinkType, EndMeeting
<1>3. ended' \in BOOLEAN
  BY <1>1
<1>4. ServerType' /\ HeadOK'
  BY <1>1, <1>3, Records DEF PresentInv, ServerType, HeadOK, NoRuntime, deckVars
<1>5. LinkType' /\ LinkOK' /\ StageType'
  BY <1>1, <1>2 DEF PresentInv, LinkType, LinkOK, StageType, stage
<1>6. NoReportForgotten'
  BY <1>1, UnsavedForgotten DEF PresentInv, NoReportForgotten, deckVars
<1> QED BY <1>4, <1>5, <1>6 DEF PresentInv
-----------------------------------------------------------------------------
LEMMA PresentStep == PresentInv /\ [Next]_vars => PresentInv'
<1> SUFFICES ASSUME PresentInv, [Next]_vars PROVE PresentInv'
  OBVIOUS
<1>1. CASE UNCHANGED vars
  <2>1. ServerType' /\ LinkType' /\ StageType'
    BY <1>1 DEF PresentInv, ServerType, LinkType, StageType, vars, deckVars, netVars, stage
  <2>2. LinkOK' /\ HeadOK' /\ NoReportForgotten'
    BY <1>1 DEF PresentInv, LinkOK, HeadOK, NoReportForgotten, vars, deckVars, netVars
  <2> QED BY <2>1, <2>2 DEF PresentInv
<1> QED
  BY <1>1, CallStep, GoStep, OpenStep, ServerStep, StageStep, AcceptStep, DropStep, ReconnectStep, RuntimeLostStep, EndStep
  DEF Next, Calls

(* Type correctness.                                                        *)
THEOREM TypeCorrect == Spec => []TypeOK
<1>1. PresentInv => TypeOK
  BY Types DEF PresentInv
<1> QED BY <1>1, PresentInit, PresentStep, PTL DEF Spec

(* A page whose page_commit left the stage is on its way, or at or below the *)
(* head of the runtime or of the deck, or its save failed: through           *)
(* reconnects, restarts and the end of the meeting.                          *)
THEOREM ReportsKept == Spec => []NoReportForgotten
<1>1. PresentInv => NoReportForgotten
  BY DEF PresentInv
<1> QED BY <1>1, PresentInit, PresentStep, PTL DEF Spec
=============================================================================

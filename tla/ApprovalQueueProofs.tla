------------------------ MODULE ApprovalQueueProofs ------------------------
(***************************************************************************)
(* What the approval queue guarantees for every number of suggestions,      *)
(* calls and pages, with either driver.                                     *)
(***************************************************************************)
EXTENDS ApprovalQueue, TLAPS

USE DEF Index, HeadIndex, Row, Stage, CallState, Status

(* Larger is the maximum of its arguments.                                   *)
LEMMA LargerType ==
  ASSUME NEW a \in Int, NEW b \in Int
  PROVE  /\ Larger(a, b) \in {a, b}
         /\ Larger(a, b) >= a /\ Larger(a, b) >= b
BY DEF Larger

(* The whole state stays within its types.                                  *)
LEMMA TypeInit == Init => TypeOK
<1> USE DeckAssumption, QueueAssumption DEF Init, DeckInit, TypeOK, DeckTypeOK
<1> SUFFICES ASSUME Init PROVE TypeOK
  OBVIOUS
<1>1. rows \subseteq Row
  OBVIOUS
<1>2. dbCommitted \in HeadIndex
  OBVIOUS
<1>3. call \in [Call -> CallState]
  OBVIOUS
<1>4. committedIndex \in HeadIndex /\ deckLength \in Nat
  BY <1>2 DEF Larger
<1>5. results \in [Suggestion -> Seq({"applied", "discarded"})] /\ updates \in Seq(Nat)
  OBVIOUS
<1> QED BY <1>1, <1>2, <1>3, <1>4, <1>5

(* A repository step keeps the deck well typed.                             *)
LEMMA DeckTypeStep ==
  ASSUME DeckTypeOK, NEW c \in Call, DeckStep(c)
  PROVE  DeckTypeOK'
<1> USE DeckAssumption DEF DeckTypeOK
<1>1. CASE AppendRead(c)
  <2>1. PICK m \in {r.idx : r \in rows} \cup {-1} :
          call' = [call EXCEPT ![c].stage = "read", ![c].seen = m]
    BY <1>1 DEF AppendRead
  <2>2. m \in HeadIndex
    OBVIOUS
  <2>3. [call[c] EXCEPT !.stage = "read", !.seen = m] \in CallState
    BY <2>2
  <2>4. call' = [call EXCEPT ![c] = [call[c] EXCEPT !.stage = "read", !.seen = m]]
    BY <2>1
  <2> QED BY <1>1, <2>3, <2>4 DEF AppendRead
<1>2. CASE AppendInsert(c)
  BY <1>2 DEF AppendInsert, NewIdx
<1>3. CASE CommitRead(c)
  BY <1>3 DEF CommitRead
<1>4. CASE CommitWrite(c)
  <2>1. Larger(call[c].seen, call[c].arg) \in HeadIndex
    BY DEF Larger
  <2> QED BY <1>4, <2>1 DEF CommitWrite
<1>5. CASE EditRead(c) \/ EditFind(c)
  BY <1>5 DEF EditRead, EditFind
<1>6. CASE EditWrite(c)
  <2>1. \A r \in rows : [r EXCEPT !.content = c] \in Row
    OBVIOUS
  <2> QED BY <1>6, <2>1 DEF EditWrite
<1>7. CASE CallFails(c)
  BY <1>7 DEF CallFails
<1> QED BY <1>1, <1>2, <1>3, <1>4, <1>5, <1>6, <1>7 DEF DeckStep

(* So does the beginning of a repository call.                              *)
LEMMA BeginType ==
  ASSUME DeckTypeOK, NEW c \in Call, NEW o \in {"append", "commit", "edit"},
         NEW i \in Index, Begin(c, o, i)
  PROVE  DeckTypeOK'
BY DEF DeckTypeOK, Begin

(* What the beginning of a call, and the end of one, leave of the others.   *)
LEMMA BeginFacts ==
  ASSUME DeckTypeOK, NEW c \in Call, NEW o, NEW i, Begin(c, o, i)
  PROVE  /\ call[c].stage = "idle" /\ call'[c].op = o /\ call'[c].stage = "queued"
         /\ \A d \in Call : d # c => call'[d] = call[d]
         /\ rows' = rows /\ dbCommitted' = dbCommitted
<1>1. call[c] \in CallState
  BY DEF DeckTypeOK
<1>2. call' = [call EXCEPT ![c] = [call[c] EXCEPT !.op = o, !.stage = "queued", !.arg = i]]
  BY DEF DeckTypeOK, Begin
<1>3. call \in [Call -> CallState]
  BY DEF DeckTypeOK
<1> HIDE DEF Stage
<1> QED BY <1>1, <1>2, <1>3 DEF Begin

(* Settling an entry keeps the queue well typed.                            *)
LEMMA SettleType ==
  ASSUME TypeOK, NEW s \in Suggestion, NEW o \in {"applied", "discarded"}, Settle(s, o)
  PROVE  /\ sug' \in [Suggestion -> Status]
         /\ results' \in [Suggestion -> Seq({"applied", "discarded"})]
<1>1. Append(results[s], o) \in Seq({"applied", "discarded"})
  BY DEF TypeOK
<1> QED BY <1>1 DEF TypeOK, Settle

(* TypeOK is preserved; CallsOK says which calls have a suggestion.         *)
LEMMA TypeStep == TypeOK /\ CallsOK /\ [Next]_vars => TypeOK'
<1> SUFFICES ASSUME TypeOK, CallsOK, [Next]_vars PROVE TypeOK'
  OBVIOUS
<1> USE QueueAssumption, DeckAssumption DEF TypeOK
<1>0. 0 \in Index
  OBVIOUS
<1>1. ASSUME NEW s \in Suggestion, Suggest(s) PROVE TypeOK'
  BY <1>1 DEF Suggest, deckVars, DeckTypeOK
<1>2. ASSUME NEW s \in Suggestion, NEW auth \in BOOLEAN, Reject(s, auth) PROVE TypeOK'
  BY <1>2, SettleType DEF Reject, deckVars, DeckTypeOK
<1>3. ASSUME NEW s \in Suggestion, NEW auth \in BOOLEAN, NEW c \in Call, Accept(s, auth, c)
      PROVE TypeOK'
  <2>1. CASE ~deckBound
    BY <1>3, <2>1, SettleType DEF Accept, deckVars, DeckTypeOK
  <2>2. CASE deckBound
    <3>1. Begin(c, "append", 0)
      BY <1>3, <2>2 DEF Accept
    <3>2. DeckTypeOK'
      BY <3>1, <1>0, BeginType
    <3> QED BY <1>3, <2>2, <3>2 DEF Accept
  <2> QED BY <2>1, <2>2
<1>4. ASSUME NEW s \in Suggestion, Expire(s) PROVE TypeOK'
  BY <1>4, SettleType DEF Expire, deckVars, DeckTypeOK
<1>5. ASSUME NEW c \in Call, Repository(c) PROVE TypeOK'
  <2>1. DeckTypeOK'
    BY <1>5, DeckTypeStep DEF Repository
  <2> QED BY <1>5, <2>1 DEF Repository, queueVars
<1>6. ASSUME NEW c \in Call, AppendResolved(c) PROVE TypeOK'
  <2>1. DeckTypeOK'
    BY <1>6 DEF AppendResolved, DeckTypeOK
  <2>2. CASE Pending(forSug[c])
    <3>0. call[c] \in CallState
      BY DEF DeckTypeOK
    <3>1. NewIdx(c) \in Nat
      BY <3>0 DEF NewIdx
    <3>2. Larger(deckLength, NewIdx(c) + 1) \in Nat
      BY <3>1 DEF Larger
    <3>3. forSug[c] \in Suggestion
      BY <1>6 DEF CallsOK, AppendResolved
    <3>4. Settle(forSug[c], "applied")
      BY <1>6, <2>2 DEF AppendResolved
    <3>5. Append(updates, NewIdx(c)) \in Seq(Nat)
      BY <3>1
    <3> QED BY <1>6, <2>1, <2>2, <3>2, <3>3, <3>4, <3>5, SettleType DEF AppendResolved
  <2>3. CASE ~Pending(forSug[c])
    BY <1>6, <2>1, <2>3 DEF AppendResolved
  <2> QED BY <2>2, <2>3
<1>7. ASSUME NEW c \in Call, AppendRejected(c) PROVE TypeOK'
  <2>1. DeckTypeOK'
    BY <1>7 DEF AppendRejected, DeckTypeOK
  <2>2. forSug[c] \in Suggestion
    BY <1>7 DEF CallsOK, AppendRejected
  <2> QED BY <1>7, <2>1, <2>2, SettleType DEF AppendRejected
<1>8. ASSUME NEW c \in Call, NEW i \in Index, PageCommit(i, c) PROVE TypeOK'
  <2>1. DeckTypeOK'
    BY <1>8, BeginType DEF PageCommit, deckVars, DeckTypeOK
  <2>2. Larger(deckLength, i + 1) \in Nat
    BY DEF Larger
  <2> QED BY <1>8, <2>1, <2>2 DEF PageCommit
<1>9. ASSUME NEW c \in Call, NEW i \in Index, EditSlide(i, c) PROVE TypeOK'
  <2>1. DeckTypeOK'
    BY <1>9, BeginType DEF EditSlide
  <2> QED BY <1>9, <2>1 DEF EditSlide, queueVars
<1>10. CASE Dispose
  BY <1>10 DEF Dispose, deckVars, DeckTypeOK
<1>11. CASE UNCHANGED vars
  BY <1>11 DEF vars, deckVars, queueVars, DeckTypeOK
<1> QED
  BY <1>1, <1>2, <1>3, <1>4, <1>5, <1>6, <1>7, <1>8, <1>9, <1>10, <1>11 DEF Next, Presenter

-----------------------------------------------------------------------------
(* A step of a repository call never loses a row's author or page number,   *)
(* and only AppendInsert adds one.                                          *)
SameRow(q, r) == q.id = r.id /\ q.idx = r.idx
RowsKept == \A r \in rows : \E q \in rows' : SameRow(q, r)
RowsFrom(c) ==
  \A q \in rows' :
    \/ \E r \in rows : SameRow(q, r)
    \/ AppendInsert(c) /\ q.id = c /\ q.idx = NewIdx(c)

(* The rows a repository step leaves.                                       *)
LEMMA RowsOfStep ==
  ASSUME DeckTypeOK, NEW c \in Call, DeckStep(c)
  PROVE  RowsKept /\ RowsFrom(c)
<1>0. \A r : SameRow(r, r)
  BY DEF SameRow
<1>1. CASE EditWrite(c)
  <2> DEFINE new(r) == IF r.idx = call[c].arg THEN [r EXCEPT !.content = c] ELSE r
  <2>1. rows' = {new(r) : r \in rows}
    BY <1>1 DEF EditWrite
  <2>2. \A r \in rows : SameRow(new(r), r)
    BY DEF DeckTypeOK, SameRow
  <2> HIDE DEF new
  <2> QED BY <2>1, <2>2 DEF RowsKept, RowsFrom
<1>2. CASE AppendInsert(c)
  <2> DEFINE fresh == [idx |-> NewIdx(c), id |-> c, content |-> c]
  <2>1. rows' = rows \cup {fresh}
    BY <1>2 DEF AppendInsert
  <2>2. fresh.id = c /\ fresh.idx = NewIdx(c)
    OBVIOUS
  <2> HIDE DEF fresh
  <2> QED BY <1>0, <1>2, <2>1, <2>2 DEF RowsKept, RowsFrom
<1>3. CASE UNCHANGED rows
  BY <1>0, <1>3 DEF RowsKept, RowsFrom
<1> QED
  BY <1>1, <1>2, <1>3
  DEF DeckStep, AppendRead, CommitRead, CommitWrite, EditRead, EditFind, CallFails

(* Calls and rows agree (CallsOK, RowsOK): every row of the meeting comes    *)
(* from an append that was accepted, and every landed append has its row.   *)
LEMMA LinkInit == Init => CallsOK /\ RowsOK
BY DEF Init, DeckInit, CallsOK, RowsOK, LinkedCall

(* CallsOK is preserved.                                                    *)
LEMMA CallsStep == TypeOK /\ CallsOK /\ [Next]_vars => CallsOK'
<1> SUFFICES ASSUME TypeOK, CallsOK, [Next]_vars PROVE CallsOK'
  OBVIOUS
<1> USE DEF TypeOK, DeckTypeOK, CallsOK
<1>1. ASSUME NEW s \in Suggestion,
             Suggest(s) \/ Expire(s) \/ \E auth \in BOOLEAN : Reject(s, auth)
      PROVE  CallsOK'
  BY <1>1 DEF Suggest, Expire, Reject, deckVars, RowOf
<1>2. ASSUME NEW s \in Suggestion, NEW auth \in BOOLEAN, NEW c \in Call, Accept(s, auth, c)
      PROVE  CallsOK'
  <2>1. CASE ~deckBound
    BY <1>2, <2>1 DEF Accept, deckVars, RowOf
  <2>2. CASE deckBound
    <3>1. Begin(c, "append", 0) /\ forSug' = [forSug EXCEPT ![c] = s] /\ s \in accepted'
          /\ accepted \subseteq accepted'
      BY <1>2, <2>2 DEF Accept
    <3>2. call' = [call EXCEPT ![c].op = "append", ![c].stage = "queued", ![c].arg = 0]
          /\ rows' = rows
      BY <3>1 DEF Begin
    <3>3. \A d \in Call : RowOf(d)' = RowOf(d)
      BY <3>2 DEF RowOf
    <3>4. call'[c].op = "append" /\ call'[c].stage = "queued" /\ forSug'[c] = s
      BY <3>1, <3>2
    <3>5. \A d \in Call : d # c => call'[d] = call[d] /\ forSug'[d] = forSug[d]
      BY <3>1, <3>2
    <3> QED BY <3>1, <3>3, <3>4, <3>5
  <2> QED BY <2>1, <2>2
<1>3. ASSUME NEW c \in Call, Repository(c) PROVE CallsOK'
  <2>1. ASSUME NEW d \in Call, RowOf(d) # {} PROVE RowOf(d)' # {}
    <3>1. PICK r \in rows : r.id = d
      BY <2>1 DEF RowOf
    <3>2. PICK q \in rows' : q.id = r.id
      BY <1>3, RowsOfStep DEF Repository, RowsKept, SameRow
    <3> QED BY <3>1, <3>2 DEF RowOf
  <2>2. CASE AppendInsert(c)
    <3>1. RowOf(c)' # {}
      <4>1. [idx |-> NewIdx(c), id |-> c, content |-> c] \in rows'
        BY <2>2 DEF AppendInsert
      <4> QED BY <4>1 DEF RowOf
    <3> QED BY <1>3, <2>1, <2>2, <3>1 DEF Repository, queueVars, AppendInsert
  <2>3. CASE ~AppendInsert(c)
    <3>1. \A d \in Call : d # c => call'[d] = call[d]
      BY <1>3 DEF Repository, DeckStep, AppendRead, AppendInsert, CommitRead, CommitWrite,
                  EditRead, EditFind, EditWrite, CallFails
    <3>2. /\ call'[c].op = call[c].op /\ call[c].stage # "idle" /\ call'[c].stage # "landed"
          /\ call'[c].stage \in {"idle", "failed"} => call'[c].op = "append"
      BY <1>3, <2>3 DEF Repository, DeckStep, AppendRead, CommitRead, CommitWrite,
                        EditRead, EditFind, EditWrite, CallFails
    <3>3. forSug' = forSug /\ accepted' = accepted
      BY <1>3 DEF Repository, queueVars
    <3>4. call'[c].stage # "idle"
      BY <1>3, <2>3 DEF Repository, DeckStep, AppendRead, CommitRead, CommitWrite,
                        EditRead, EditFind, EditWrite, CallFails
    <3>5. call'[c].op = "append" => call[c].op = "append"
      BY <3>2
    <3>6. call'[c].stage = "checked" => call'[c].op = "edit"
      BY <1>3, <2>3 DEF Repository, DeckStep, AppendRead, CommitRead, CommitWrite,
                        EditRead, EditFind, EditWrite, CallFails
    <3>7. call'[c].stage = "failed" => call'[c].op = "append"
      BY <3>2
    <3>8. ASSUME NEW d \in Call, d # c
          PROVE  /\ call'[d].stage = "idle" => call'[d].op = "none"
                 /\ call'[d].stage \in {"landed", "failed"} => call'[d].op = "append"
                 /\ call'[d].stage = "checked" => call'[d].op = "edit"
                 /\ call'[d].op = "append" => forSug'[d] \in accepted'
                 /\ call'[d].op = "append" /\ call'[d].stage = "landed" => RowOf(d)' # {}
      <4>1. call'[d] = call[d]
        BY <3>1, <3>8
      <4> QED BY <2>1, <3>3, <4>1
    <3> QED BY <3>2, <3>3, <3>4, <3>5, <3>6, <3>7, <3>8
  <2> QED BY <2>2, <2>3
<1>4. ASSUME NEW c \in Call, AppendResolved(c) \/ AppendRejected(c) PROVE CallsOK'
  BY <1>4 DEF AppendResolved, AppendRejected, RowOf
<1>5. ASSUME NEW c \in Call, NEW i \in Index, PageCommit(i, c) \/ EditSlide(i, c)
      PROVE  CallsOK'
  <2>1. forSug' = forSug /\ accepted' = accepted /\ rows' = rows
    BY <1>5 DEF PageCommit, EditSlide, Begin, deckVars, queueVars
  <2>2. \A d : RowOf(d)' = RowOf(d)
    BY <2>1 DEF RowOf
  <2>3. CASE UNCHANGED call
    BY <2>1, <2>2, <2>3
  <2>4. ASSUME NEW o \in {"commit", "edit"}, Begin(c, o, i) PROVE CallsOK'
    <3> HIDE DEF Stage, CallState
    <3> QED BY <2>1, <2>2, <2>4, BeginFacts
  <2> QED BY <1>5, <2>3, <2>4 DEF PageCommit, EditSlide, deckVars
<1>6. CASE Dispose \/ UNCHANGED vars
  BY <1>6 DEF Dispose, vars, deckVars, queueVars, RowOf
<1> QED
  BY <1>1, <1>2, <1>3, <1>4, <1>5, <1>6 DEF Next, Presenter

(* A step that leaves the rows alone and unlinks no call keeps RowsOK.      *)
LEMMA RowsCarry ==
  ASSUME DeckTypeOK, RowsOK, rows' = rows, \A d \in Call : LinkedCall(d) => LinkedCall(d)'
  PROVE  RowsOK'
BY DEF RowsOK, DeckTypeOK

(* RowsOK is preserved: a row is linked to the call that inserted it.       *)
LEMMA RowsStep == TypeOK /\ RowsOK /\ [Next]_vars => RowsOK'
<1> SUFFICES ASSUME TypeOK, RowsOK, [Next]_vars PROVE RowsOK'
  OBVIOUS
<1> USE DeckAssumption DEF TypeOK, DeckTypeOK, RowsOK
<1>1. ASSUME NEW s \in Suggestion,
             Suggest(s) \/ Expire(s) \/ \E auth \in BOOLEAN : Reject(s, auth)
      PROVE  RowsOK'
  BY <1>1 DEF Suggest, Expire, Reject, deckVars, LinkedCall
<1>2. ASSUME NEW s \in Suggestion, NEW auth \in BOOLEAN, NEW c \in Call, Accept(s, auth, c)
      PROVE  RowsOK'
  <2>1. CASE UNCHANGED deckVars
    BY <2>1 DEF deckVars, LinkedCall
  <2>2. CASE Begin(c, "append", 0)
    <3>1. rows' = rows /\ \A d \in Call : LinkedCall(d) => LinkedCall(d)'
      BY <2>2, BeginFacts DEF LinkedCall
    <3> QED BY <3>1, RowsCarry
  <2> QED BY <1>2, <2>1, <2>2 DEF Accept
<1>3. ASSUME NEW c \in Call, Repository(c) PROVE RowsOK'
  <2>1. \A d \in Call : LinkedCall(d) => LinkedCall(d)'
    BY <1>3 DEF Repository, DeckStep, AppendRead, AppendInsert, CommitRead, CommitWrite,
                EditRead, EditFind, EditWrite, CallFails, LinkedCall
  <2>2. AppendInsert(c) => LinkedCall(c)'
    BY DEF AppendInsert, LinkedCall
  <2>3. ASSUME NEW q \in rows', q.id # Seed PROVE LinkedCall(q.id)'
    <3>1. CASE AppendInsert(c) /\ q.id = c
      BY <2>2, <3>1
    <3>2. CASE \E r \in rows : q.id = r.id
      <4>1. PICK r \in rows : q.id = r.id
        BY <3>2
      <4>2. r.id \in Call /\ LinkedCall(r.id)
        BY <2>3, <4>1
      <4> QED BY <2>1, <4>1, <4>2
    <3> QED BY <1>3, <3>1, <3>2, RowsOfStep DEF Repository, RowsFrom, SameRow
  <2> QED BY <2>3
<1>4. ASSUME NEW c \in Call, AppendResolved(c) \/ AppendRejected(c) PROVE RowsOK'
  <2>1. rows' = rows /\ call' = [call EXCEPT ![c].stage = "settled"]
    BY <1>4 DEF AppendResolved, AppendRejected
  <2>2. \A d \in Call : LinkedCall(d) => LinkedCall(d)'
    BY <2>1 DEF LinkedCall
  <2> QED BY <2>1, <2>2, RowsCarry
<1>5. ASSUME NEW c \in Call, NEW i \in Index, PageCommit(i, c) \/ EditSlide(i, c)
      PROVE  RowsOK'
  <2>1. rows' = rows
    BY <1>5 DEF PageCommit, EditSlide, Begin, deckVars
  <2>2. \A d \in Call : LinkedCall(d) => LinkedCall(d)'
    <3>1. CASE UNCHANGED call
      BY <3>1 DEF LinkedCall
    <3>2. ASSUME NEW o \in {"commit", "edit"}, Begin(c, o, i)
          PROVE  \A d \in Call : LinkedCall(d) => LinkedCall(d)'
      BY <3>2, BeginFacts DEF LinkedCall
    <3> QED BY <1>5, <3>1, <3>2 DEF PageCommit, EditSlide, deckVars
  <2> QED BY <2>1, <2>2, RowsCarry
<1>6. CASE Dispose \/ UNCHANGED vars
  BY <1>6 DEF Dispose, vars, deckVars, queueVars, LinkedCall
<1> QED
  BY <1>1, <1>2, <1>3, <1>4, <1>5, <1>6 DEF Next, Presenter

-----------------------------------------------------------------------------
(* The hud is told exactly the outcome each queue entry has.                *)
LEMMA OutcomeStep == TypeOK /\ CallsOK /\ OneOutcome /\ [Next]_vars => OneOutcome'
<1> SUFFICES ASSUME TypeOK, CallsOK, OneOutcome, [Next]_vars PROVE OneOutcome'
  OBVIOUS
<1> USE DEF TypeOK, OneOutcome
<1>0. ASSUME NEW s \in Suggestion, NEW o \in {"applied", "discarded"}, Pending(s), Settle(s, o)
      PROVE  OneOutcome'
  <2>0. results[s] = <<>>
    BY <1>0 DEF Pending
  <2>1. Append(results[s], o) = <<o>>
    BY <2>0
  <2>2. results' = [results EXCEPT ![s] = <<o>>] /\ sug' = [sug EXCEPT ![s] = o]
    BY <1>0, <2>1 DEF Settle
  <2> QED BY <2>2
<1>1. CASE UNCHANGED <<sug, results>>
  BY <1>1
<1>2. ASSUME NEW s \in Suggestion, Suggest(s) PROVE OneOutcome'
  BY <1>2 DEF Suggest
<1>3. ASSUME NEW s \in Suggestion, Expire(s) \/ \E auth \in BOOLEAN : Reject(s, auth)
      PROVE  OneOutcome'
  BY <1>0, <1>3 DEF Expire, Reject
<1>4. ASSUME NEW s \in Suggestion, NEW auth \in BOOLEAN, NEW c \in Call, Accept(s, auth, c)
      PROVE  OneOutcome'
  BY <1>0, <1>1, <1>4 DEF Accept
<1>5. ASSUME NEW c \in Call, AppendResolved(c) \/ AppendRejected(c) PROVE OneOutcome'
  <2>1. forSug[c] \in Suggestion
    BY <1>5 DEF AppendResolved, AppendRejected, CallsOK
  <2>2. CASE Pending(forSug[c])
    BY <1>0, <1>5, <2>1, <2>2 DEF AppendResolved, AppendRejected
  <2>3. CASE ~Pending(forSug[c])
    BY <1>1, <1>5, <2>3 DEF AppendResolved, AppendRejected
  <2> QED BY <2>2, <2>3
<1>6. CASE Dispose
  BY <1>6 DEF Dispose, Pending
<1>7. ASSUME NEW c \in Call, Repository(c) \/ \E i \in Index : PageCommit(i, c) \/ EditSlide(i, c)
      PROVE  OneOutcome'
  BY <1>1, <1>7 DEF Repository, PageCommit, EditSlide, queueVars
<1>8. CASE UNCHANGED vars
  BY <1>1, <1>8 DEF vars, queueVars
<1> QED
  BY <1>2, <1>3, <1>4, <1>5, <1>6, <1>7, <1>8 DEF Next, Presenter

(* The mirror stays strictly ahead of the committed head.                   *)
LEMMA HeadStep == TypeOK /\ HeadBehindTail /\ [Next]_vars => HeadBehindTail'
<1> SUFFICES ASSUME TypeOK, HeadBehindTail, [Next]_vars PROVE HeadBehindTail'
  OBVIOUS
<1> USE DEF TypeOK, HeadBehindTail, AheadOfHead
<1>1. ASSUME NEW c \in Call, AppendResolved(c) PROVE HeadBehindTail'
  <2>1. call[c] \in CallState
    BY DEF DeckTypeOK
  <2>2. NewIdx(c) + 1 \in Int
    BY <2>1 DEF NewIdx
  <2>3. deckLength' >= deckLength
    BY <1>1, <2>2, LargerType DEF AppendResolved
  <2>4. deckLength' \in Int
    BY <1>1, <2>2, LargerType DEF AppendResolved
  <2> QED BY <1>1, <2>3, <2>4 DEF AppendResolved
<1>2. ASSUME NEW c \in Call, NEW i \in Index, PageCommit(i, c) PROVE HeadBehindTail'
  BY <1>2, DeckAssumption DEF PageCommit, Larger
<1>3. CASE UNCHANGED <<deckLength, committedIndex>>
  BY <1>3
<1> QED
  BY <1>1, <1>2, <1>3
  DEF Next, Presenter, Suggest, Expire, Reject, Accept, Repository, AppendRejected, EditSlide,
      Dispose, vars, queueVars

(* An applied suggestion keeps a slide in the deck.                         *)
LEMMA AppliedStep ==
  TypeOK /\ CallsOK /\ RowsOK /\ AppliedIsInDeck /\ [Next]_vars => AppliedIsInDeck'
<1> SUFFICES ASSUME TypeOK, CallsOK, RowsOK, AppliedIsInDeck, [Next]_vars PROVE AppliedIsInDeck'
  OBVIOUS
<1>1. ASSUME NEW d \in Call, RowOf(d) # {} PROVE RowOf(d)' # {}
  <2>1. CASE rows' = rows
    BY <1>1, <2>1 DEF RowOf
  <2>2. ASSUME NEW c \in Call, Repository(c) PROVE RowOf(d)' # {}
    <3>1. PICK r \in rows : r.id = d
      BY <1>1 DEF RowOf
    <3>2. PICK q \in rows' : q.id = r.id
      BY <2>2, RowsOfStep DEF Repository, RowsKept, SameRow, TypeOK
    <3> QED BY <3>1, <3>2 DEF RowOf
  <2> QED
    BY <2>1, <2>2
    DEF Next, Presenter, Suggest, Expire, Reject, Accept, Begin, AppendResolved, AppendRejected,
        PageCommit, EditSlide, Dispose, vars, deckVars
<1>2. ASSUME NEW s \in Suggestion, sug'[s] = "applied", sug[s] # "applied"
      PROVE  \E c \in Call : forSug[c] = s /\ RowOf(c) # {}
  <2>1. PICK c \in Call : AppendResolved(c)
    BY <1>2
    DEF Next, Presenter, Suggest, Expire, Reject, Accept, Settle, AppendRejected, Repository,
        PageCommit, EditSlide, Dispose, vars, queueVars, TypeOK
  <2>2. forSug[c] = s
    BY <1>2, <2>1 DEF AppendResolved, Settle, TypeOK
  <2> QED BY <2>1, <2>2 DEF AppendResolved, CallsOK
<1>3. ASSUME NEW c \in Call, RowOf(c) # {} PROVE forSug'[c] = forSug[c]
  <2>1. call[c].stage # "idle"
    BY <1>3, DeckAssumption DEF RowOf, RowsOK, LinkedCall
  <2> QED
    BY <2>1
    DEF Next, Presenter, Suggest, Expire, Reject, Accept, Begin, AppendResolved, AppendRejected,
        Repository, PageCommit, EditSlide, Dispose, vars, deckVars, queueVars, TypeOK
<1>4. ASSUME NEW s \in Suggestion, sug[s] = "applied"
      PROVE  \E c \in Call : forSug[c] = s /\ RowOf(c) # {}
  BY <1>4 DEF AppliedIsInDeck, Landed
<1>5. ASSUME NEW s \in Suggestion, sug'[s] = "applied" PROVE Landed(s)' # {}
  <2>1. PICK c \in Call : forSug[c] = s /\ RowOf(c) # {}
    BY <1>2, <1>4, <1>5
  <2>2. forSug'[c] = s /\ RowOf(c)' # {}
    BY <1>1, <1>3, <2>1
  <2> QED BY <2>2 DEF Landed
<1> QED BY <1>5 DEF AppliedIsInDeck

(* Every slide of the meeting answers an accept of the verified presenter.  *)
LEMMA ApprovedFromLinks == TypeOK /\ CallsOK /\ RowsOK => OnlyApproved
BY DEF TypeOK, DeckTypeOK, CallsOK, RowsOK, LinkedCall, OnlyApproved

(* Page numbers have no hole: an append numbers its row after one that is   *)
(* still there when it lands, because no call removes or renumbers rows.    *)
LEMMA NoHoleStep ==
  TypeOK /\ SeenOK /\ NoHole /\ [Next]_vars => SeenOK' /\ NoHole'
<1> SUFFICES ASSUME TypeOK, SeenOK, NoHole, [Next]_vars PROVE SeenOK' /\ NoHole'
  OBVIOUS
<1> USE DEF TypeOK, DeckTypeOK
<1>1. CASE \E c \in Call : Repository(c)
  <2>1. PICK c \in Call : DeckStep(c)
    BY <1>1 DEF Repository
  <2>2. RowsKept /\ RowsFrom(c)
    BY <2>1, RowsOfStep
  <2>3. \A d \in Call : d # c => call'[d] = call[d]
    BY <2>1 DEF DeckStep, AppendRead, AppendInsert, CommitRead, CommitWrite, EditRead, EditFind,
                EditWrite, CallFails
  <2>4. call'[c].op = "append" /\ call'[c].stage = "read" =>
          call'[c].seen = -1 \/ \E r \in rows : r.idx = call'[c].seen
    <3>1. CASE AppendRead(c)
      BY <3>1 DEF AppendRead, HighestIdx
    <3>2. CASE ~AppendRead(c)
      BY <2>1, <3>2 DEF DeckStep, AppendInsert, CommitRead, CommitWrite, EditRead, EditFind, EditWrite,
                        CallFails
    <3> QED BY <3>1, <3>2
  <2>5. \A d \in Call : call'[d].op = "append" /\ call'[d].stage = "read" =>
          call'[d].seen = -1 \/ \E r \in rows : r.idx = call'[d].seen
    BY <2>3, <2>4 DEF SeenOK
  <2>6. SeenOK'
    BY <2>2, <2>5 DEF SeenOK, RowsKept, SameRow
  <2>7. ASSUME NEW q \in rows', NEW i \in 0..q.idx PROVE \E p \in rows' : p.idx = i
    <3>1. ASSUME NEW r \in rows, i \in 0..r.idx PROVE \E p \in rows' : p.idx = i
      BY <2>2, <3>1 DEF NoHole, RowsKept, SameRow
    <3>2. CASE \E r \in rows : SameRow(q, r)
      BY <3>1, <3>2 DEF SameRow
    <3>3. CASE AppendInsert(c) /\ q.idx = NewIdx(c)
      <4>1. CASE i = q.idx
        BY <4>1
      <4>2. CASE i # q.idx
        <5>1. call[c] \in CallState /\ q.idx = call[c].seen + 1
          BY <3>3 DEF NewIdx
        <5>2. i \in 0..call[c].seen
          BY <4>2, <5>1
        <5>3. call[c].op = "append" /\ call[c].stage = "read" /\ call[c].seen # -1
          BY <3>3, <5>1, <5>2 DEF AppendInsert
        <5>4. PICK r \in rows : r.idx = call[c].seen
          BY <5>3 DEF SeenOK
        <5> QED BY <3>1, <5>2, <5>4
      <4> QED BY <4>1, <4>2
    <3> QED BY <2>2, <3>2, <3>3 DEF RowsFrom
  <2> QED BY <2>6, <2>7 DEF NoHole
<1>2. ASSUME rows' = rows,
             \A d \in Call : call'[d].op = "append" /\ call'[d].stage = "read"
                             => call'[d] = call[d]
      PROVE  SeenOK' /\ NoHole'
  BY <1>2 DEF SeenOK, NoHole
<1>3. ASSUME NEW c \in Call, NEW o, NEW i, Begin(c, o, i) PROVE SeenOK' /\ NoHole'
  BY <1>2, <1>3 DEF Begin
<1>4. ASSUME NEW c \in Call, AppendResolved(c) \/ AppendRejected(c) PROVE SeenOK' /\ NoHole'
  BY <1>2, <1>4 DEF AppendResolved, AppendRejected
<1>5. CASE UNCHANGED deckVars
  BY <1>2, <1>5 DEF deckVars
<1>6. ASSUME NEW s \in Suggestion, Suggest(s) \/ Presenter(s) \/ Expire(s)
      PROVE  SeenOK' /\ NoHole'
  BY <1>3, <1>5, <1>6 DEF Suggest, Presenter, Reject, Accept, Expire
<1>7. ASSUME NEW c \in Call, NEW i \in Index, PageCommit(i, c) \/ EditSlide(i, c)
      PROVE  SeenOK' /\ NoHole'
  BY <1>3, <1>5, <1>7 DEF PageCommit, EditSlide
<1> QED
  BY <1>1, <1>4, <1>5, <1>6, <1>7 DEF Next, Dispose, vars
-----------------------------------------------------------------------------
(* The inductive invariant of both drivers.                                 *)
QueueInv ==
  /\ TypeOK /\ CallsOK /\ RowsOK /\ SeenOK /\ NoHole
  /\ OneOutcome /\ HeadBehindTail /\ AppliedIsInDeck

(* The invariant holds initially ...                                        *)
LEMMA QueueInvInit == Init => QueueInv
<1> SUFFICES ASSUME Init PROVE QueueInv
  OBVIOUS
<1>1. OneOutcome /\ AppliedIsInDeck
  BY DEF Init, OneOutcome, AppliedIsInDeck
<1>2. HeadBehindTail
  BY TypeInit DEF Init, HeadBehindTail, AheadOfHead, Larger, TypeOK, DeckTypeOK
<1>3. SeenOK
  BY DEF Init, DeckInit, SeenOK
<1>4. NoHole
  <2>1. \A i \in 0..(InitialPages - 1) : [idx |-> i, id |-> Seed, content |-> Seed] \in rows
    BY DEF Init, DeckInit
  <2>2. \A r \in rows : r.idx \in 0..(InitialPages - 1)
    BY DEF Init, DeckInit
  <2>3. ASSUME NEW r \in rows, NEW i \in 0..r.idx PROVE \E q \in rows : q.idx = i
    <3>1. i \in 0..(InitialPages - 1)
      BY <2>2, DeckAssumption
    <3>2. [idx |-> i, id |-> Seed, content |-> Seed].idx = i
      OBVIOUS
    <3> QED BY <2>1, <3>1, <3>2
  <2> QED BY <2>3 DEF NoHole
<1> QED BY <1>1, <1>2, <1>3, <1>4, TypeInit, LinkInit DEF QueueInv

(* ... is preserved by every step ...                                       *)
LEMMA QueueInvStep == QueueInv /\ [Next]_vars => QueueInv'
BY TypeStep, CallsStep, RowsStep, NoHoleStep, OutcomeStep, HeadStep, AppliedStep DEF QueueInv

(* ... and therefore always holds, with both drivers.                       *)
LEMMA QueueInvAlways == Spec => []QueueInv
BY QueueInvInit, QueueInvStep, PTL DEF Spec

(* Type correctness: page numbers, mirrors and queue entries keep their     *)
(* types in every execution, whatever the driver interleaves.               *)
THEOREM TypeCorrect == Spec => []TypeOK
<1>1. QueueInv => TypeOK
  BY DEF QueueInv
<1> QED BY <1>1, QueueInvAlways, PTL

(* Whatever the order of reject, TTL, double accept and the end of the      *)
(* meeting, the hud hears one outcome per decided suggestion, and that one. *)
THEOREM OutcomeAgrees == Spec => []OneOutcome
<1>1. QueueInv => OneOutcome
  BY DEF QueueInv
<1> QED BY <1>1, QueueInvAlways, PTL

(* A suggestion reported as applied has its slide in the deck.              *)
THEOREM AppliedStays == Spec => []AppliedIsInDeck
<1>1. QueueInv => AppliedIsInDeck
  BY DEF QueueInv
<1> QED BY <1>1, QueueInvAlways, PTL

(* I2: every slide the meeting added was accepted by the verified presenter. *)
THEOREM ApprovalRequired == Spec => []OnlyApproved
<1>1. QueueInv => OnlyApproved
  BY ApprovedFromLinks DEF QueueInv
<1> QED BY <1>1, QueueInvAlways, PTL

(* The I1 guard of act() never swallows an accept.                          *)
THEOREM GuardAlwaysHolds == Spec => []HeadBehindTail
<1>1. QueueInv => HeadBehindTail
  BY DEF QueueInv
<1> QED BY <1>1, QueueInvAlways, PTL

(* Pages are numbered without a hole even when appends interleave.          *)
THEOREM PagesContiguous == Spec => []NoHole
<1>1. QueueInv => NoHole
  BY DEF QueueInv
<1> QED BY <1>1, QueueInvAlways, PTL
-----------------------------------------------------------------------------
(***************************************************************************)
(* What follows when the calls of one event are over before the next event  *)
(* (Serialised, the single-connection SQLite driver): appends never clash,  *)
(* discards are final, shown pages are frozen, and the queue implements     *)
(* ApprovalFSM.                                                             *)
(***************************************************************************)

(* An event is handed out only when no call is in progress.                 *)
LEMMA QuietMeansNoActive == Serialised /\ Quiet => \A c \in Call : ~Active(c)
BY DEF Quiet

(* A call that has begun is either in progress or settled.                  *)
LEMMA StageSplit ==
  ASSUME TypeOK, NEW c \in Call, call[c].op # "none", CallsOK
  PROVE  Active(c) \/ call[c].stage = "settled"
BY DEF TypeOK, DeckTypeOK, Active, CallsOK

(* Events that decide or add suggestions while no call is in progress.      *)
LEMMA DecisionStep ==
  ASSUME TypeOK, CallsOK, SerialOK, \A c \in Call : ~Active(c),
         UNCHANGED deckVars, forSug' = forSug,
         \A s \in Suggestion : sug[s] \in {"applied", "discarded"} => sug'[s] = sug[s]
  PROVE  SerialOK'
<1> USE DEF deckVars
<1>1. \A c \in Call : Active(c)' = Active(c) /\ RowOf(c)' = RowOf(c)
  BY DEF Active, RowOf
<1>2. OneActive' /\ UndecidedOK' /\ OneAppend'
  BY <1>1 DEF SerialOK, OneActive, UndecidedOK, OneAppend
<1>3. ReadOK'
  BY DEF SerialOK, ReadOK
<1>4. ASSUME NEW c \in Call, call'[c].op = "append", call'[c].stage = "settled"
      PROVE  sug'[forSug'[c]] = IF RowOf(c)' = {} THEN "discarded" ELSE "applied"
  <2>1. sug[forSug[c]] = IF RowOf(c) = {} THEN "discarded" ELSE "applied"
    BY <1>4 DEF SerialOK, DecidedOK
  <2>2. forSug[c] \in Suggestion
    BY <1>4 DEF CallsOK, TypeOK
  <2> QED BY <1>1, <2>1, <2>2
<1> QED BY <1>2, <1>3, <1>4 DEF SerialOK, DecidedOK

(* An event that begins a repository call while none is in progress.        *)
LEMMA BeginStep ==
  ASSUME TypeOK, SerialOK, \A c \in Call : ~Active(c), sug' = sug,
         NEW c \in Call, NEW o \in {"append", "commit", "edit"}, NEW i, Begin(c, o, i),
         \A d \in Call : d # c => forSug'[d] = forSug[d],
         o = "append" => /\ Pending(forSug'[c])
                         /\ \A d \in Call : call[d].op = "append" => forSug[d] # forSug'[c]
  PROVE  SerialOK'
<1>1. \A d \in Call : d # c => call'[d] = call[d]
  BY DEF Begin, TypeOK, DeckTypeOK
<1>2. call'[c].op = o /\ call'[c].stage = "queued" /\ rows' = rows /\ dbCommitted' = dbCommitted
  BY DEF Begin, TypeOK, DeckTypeOK
<1>3. \A d \in Call : d # c => ~Active(d)' /\ call'[d].stage \notin {"checked", "read"}
  BY <1>1 DEF Active
<1>4. OneActive'
  BY <1>3 DEF OneActive
<1>5. ReadOK'
  BY <1>2, <1>3 DEF ReadOK
<1>6. UndecidedOK'
  BY <1>2, <1>3 DEF UndecidedOK, Pending
<1>7. \A d \in Call : RowOf(d)' = RowOf(d)
  BY <1>2 DEF RowOf
<1>8. DecidedOK'
  BY <1>1, <1>2, <1>7 DEF SerialOK, DecidedOK
<1>9. OneAppend'
  BY <1>1, <1>2 DEF SerialOK, OneAppend
<1> QED BY <1>4, <1>5, <1>6, <1>8, <1>9 DEF SerialOK

(* A step of the one call in progress.                                      *)
LEMMA RepositoryStep ==
  ASSUME QueueInv, SerialOK, NEW c \in Call, Repository(c)
  PROVE  SerialOK'
<1> USE DEF TypeOK, DeckTypeOK
<1>0. TypeOK /\ CallsOK /\ RowsOK
  BY DEF QueueInv
<1>1. Active(c) /\ call[c].stage \in {"queued", "checked", "read"}
  BY DEF Repository, DeckStep, AppendRead, AppendInsert, CommitRead, CommitWrite, EditRead, EditFind,
         EditWrite, CallFails, Active
<1>2. \A d \in Call : d # c => ~Active(d) /\ call'[d] = call[d]
  BY <1>0, <1>1 DEF SerialOK, OneActive, Repository, DeckStep, AppendRead, AppendInsert, CommitRead,
                    CommitWrite, EditRead, EditFind, EditWrite, CallFails
<1>3. sug' = sug /\ forSug' = forSug /\ call'[c].op = call[c].op
  BY <1>0 DEF Repository, queueVars, DeckStep, AppendRead, AppendInsert, CommitRead,
              CommitWrite, EditRead, EditFind, EditWrite, CallFails
<1>4. OneActive'
  BY <1>2 DEF OneActive, Active
<1>5. OneAppend'
  BY <1>2, <1>3 DEF SerialOK, OneAppend
<1>6. UndecidedOK'
  BY <1>1, <1>2, <1>3 DEF SerialOK, UndecidedOK, Pending, Active
<1>7. ReadOK'
  <2>1. \A d \in Call : d # c => call'[d].stage \notin {"checked", "read"}
    BY <1>2 DEF Active
  <2>2. CASE call'[c].stage \notin {"checked", "read"}
    BY <2>1, <2>2 DEF ReadOK
  <2>3. CASE call'[c].stage \in {"checked", "read"}
    <3>1. AppendRead(c) \/ CommitRead(c) \/ EditRead(c) \/ EditFind(c)
      BY <1>0, <2>3 DEF Repository, DeckStep, AppendInsert, CommitWrite, EditWrite, CallFails
    <3>2. CASE AppendRead(c)
      <4>1. PICK m \in {r.idx : r \in rows} \cup {-1} :
              HighestIdx(m) /\ call' = [call EXCEPT ![c].stage = "read", ![c].seen = m]
        BY <3>2 DEF AppendRead
      <4>2. call'[c].op = "append" /\ call'[c].seen = m /\ rows' = rows
        BY <1>0, <3>2, <4>1 DEF AppendRead
      <4> QED BY <2>1, <4>1, <4>2 DEF ReadOK, HighestIdx
    <3>3. CASE CommitRead(c)
      BY <1>0, <2>1, <3>3 DEF CommitRead, ReadOK
    <3>4. CASE EditRead(c)
      <4>1. ~EditRefused(c) /\ call'[c].op = "edit" /\ call'[c].arg = call[c].arg
            /\ dbCommitted' = dbCommitted
        BY <1>0, <2>3, <3>4 DEF EditRead
      <4>2. call[c] \in CallState /\ dbCommitted \in Int
        BY <1>0
      <4>3. call[c].arg > dbCommitted
        BY <4>1, <4>2, DeckAssumption DEF EditRefused
      <4> QED BY <2>1, <4>1, <4>3 DEF ReadOK
    <3>5. CASE EditFind(c)
      <4>1. call'[c].op = "edit" /\ call'[c].arg = call[c].arg /\ dbCommitted' = dbCommitted
            /\ call[c].arg > dbCommitted
        BY <1>0, <3>5 DEF EditFind, SerialOK, ReadOK
      <4> QED BY <2>1, <4>1 DEF ReadOK
    <3> QED BY <3>1, <3>2, <3>3, <3>4, <3>5
  <2> QED BY <2>2, <2>3
<1>8. DecidedOK'
  <2>1. ASSUME NEW d \in Call, call'[d].op = "append", call'[d].stage = "settled"
        PROVE  d # c /\ call[d].op = "append" /\ call[d].stage = "settled"
    BY <1>0, <1>2, <1>3, <2>1
    DEF Repository, DeckStep, AppendRead, AppendInsert, CommitRead, CommitWrite, EditRead, EditFind,
        EditWrite, CallFails
  <2>2. ASSUME NEW d \in Call, d # c PROVE (RowOf(d)' = {}) <=> (RowOf(d) = {})
    <3>1. RowsKept /\ RowsFrom(c)
      BY <1>0, RowsOfStep DEF Repository
    <3>2. ASSUME NEW r \in rows, r.id = d PROVE RowOf(d)' # {}
      BY <3>1, <3>2 DEF RowsKept, SameRow, RowOf
    <3>3. ASSUME NEW q \in rows', q.id = d PROVE RowOf(d) # {}
      BY <2>2, <3>1, <3>3 DEF RowsFrom, SameRow, RowOf
    <3> QED BY <3>2, <3>3 DEF RowOf
  <2> QED BY <1>3, <2>1, <2>2 DEF SerialOK, DecidedOK
<1> QED BY <1>4, <1>5, <1>6, <1>7, <1>8 DEF SerialOK

(* The continuation of an append decides its own suggestion and no other.   *)
LEMMA ContinuationStep ==
  ASSUME QueueInv, SerialOK, NEW c \in Call, AppendResolved(c) \/ AppendRejected(c)
  PROVE  SerialOK'
<1>0. TypeOK /\ CallsOK /\ RowsOK
  BY DEF QueueInv
<1> USE DEF TypeOK, DeckTypeOK
<1>1. /\ call[c].op = "append" /\ Active(c)
      /\ call' = [call EXCEPT ![c].stage = "settled"]
      /\ rows' = rows /\ dbCommitted' = dbCommitted /\ forSug' = forSug
  BY DEF AppendResolved, AppendRejected, Active
<1>2. Pending(forSug[c])
  BY <1>1 DEF SerialOK, UndecidedOK
<1>3. \A d \in Call : d # c => ~Active(d) /\ call'[d] = call[d]
  BY <1>0, <1>1 DEF SerialOK, OneActive
<1>4. call'[c].op = "append" /\ call'[c].stage = "settled"
  BY <1>0, <1>1
<1>5. \A d \in Call : RowOf(d)' = RowOf(d)
  BY <1>1 DEF RowOf
<1>6. forSug[c] \in Suggestion
  BY <1>0, <1>1 DEF CallsOK
<1>7. \A d \in Call : d # c /\ call[d].op = "append" => forSug[d] # forSug[c]
  BY <1>1 DEF SerialOK, OneAppend
<1>8. sug'[forSug[c]] = (IF RowOf(c) = {} THEN "discarded" ELSE "applied")
      /\ \A s \in Suggestion : s # forSug[c] => sug'[s] = sug[s]
  <2>1. CASE AppendResolved(c)
    <3>1. Settle(forSug[c], "applied") /\ RowOf(c) # {}
      BY <1>0, <1>2, <2>1 DEF AppendResolved, CallsOK
    <3> QED BY <1>0, <1>6, <3>1 DEF Settle
  <2>2. CASE AppendRejected(c)
    <3>1. Settle(forSug[c], "discarded")
      BY <1>2, <2>2 DEF AppendRejected
    <3>2. RowOf(c) = {}
      BY <1>0, <2>2, DeckAssumption DEF AppendRejected, RowsOK, LinkedCall, RowOf
    <3> QED BY <1>0, <1>6, <3>1, <3>2 DEF Settle
  <2> QED BY <2>1, <2>2
<1>9. OneActive'
  BY <1>3, <1>4 DEF OneActive, Active
<1>10. ReadOK'
  BY <1>3, <1>4 DEF ReadOK, Active
<1>11. UndecidedOK'
  BY <1>3, <1>4 DEF UndecidedOK, Active
<1>12. DecidedOK'
  <2>1. ASSUME NEW d \in Call, d # c, call'[d].op = "append", call'[d].stage = "settled"
        PROVE  sug'[forSug'[d]] = IF RowOf(d)' = {} THEN "discarded" ELSE "applied"
    <3>1. forSug[d] \in Suggestion /\ forSug[d] # forSug[c]
      BY <1>0, <1>3, <1>7, <2>1 DEF CallsOK
    <3>2. sug[forSug[d]] = IF RowOf(d) = {} THEN "discarded" ELSE "applied"
      BY <1>3, <2>1 DEF SerialOK, DecidedOK
    <3> QED BY <1>1, <1>5, <1>8, <3>1, <3>2
  <2> QED BY <1>1, <1>5, <1>8, <2>1 DEF DecidedOK
<1>13. OneAppend'
  BY <1>1, <1>3, <1>4 DEF SerialOK, OneAppend
<1> QED BY <1>9, <1>10, <1>11, <1>12, <1>13 DEF SerialOK

(* Initially no call has begun.                                             *)
LEMMA SerialInit == Init => SerialOK
BY DEF Init, DeckInit, SerialOK, OneActive, ReadOK, UndecidedOK, DecidedOK, OneAppend, Active

(* SerialOK is preserved when events wait for the calls in progress.        *)
LEMMA SerialStep == Serialised /\ QueueInv /\ SerialOK /\ [Next]_vars => SerialOK'
<1> SUFFICES ASSUME Serialised, QueueInv, SerialOK, [Next]_vars PROVE SerialOK'
  OBVIOUS
<1>0. TypeOK /\ CallsOK
  BY DEF QueueInv
<1>q. Quiet => \A c \in Call : ~Active(c)
  BY QuietMeansNoActive
<1>1. ASSUME NEW s \in Suggestion, Suggest(s) PROVE SerialOK'
  BY <1>0, <1>q, <1>1, DecisionStep DEF Suggest, TypeOK
<1>2. ASSUME NEW s \in Suggestion, Expire(s) \/ \E auth \in BOOLEAN : Reject(s, auth)
      PROVE  SerialOK'
  BY <1>0, <1>q, <1>2, DecisionStep DEF Expire, Reject, Pending, Settle, TypeOK
<1>3. ASSUME NEW s \in Suggestion, NEW auth \in BOOLEAN, NEW c \in Call, Accept(s, auth, c)
      PROVE  SerialOK'
  <2>1. CASE ~deckBound
    BY <1>0, <1>q, <1>3, <2>1, DecisionStep DEF Accept, Pending, Settle, TypeOK
  <2>2. CASE deckBound
    <3>1. /\ Begin(c, "append", 0) /\ forSug' = [forSug EXCEPT ![c] = s]
          /\ Pending(s) /\ sug' = sug /\ Quiet
      BY <1>3, <2>2 DEF Accept
    <3>2. forSug'[c] = s /\ \A d \in Call : d # c => forSug'[d] = forSug[d]
      BY <1>0, <3>1 DEF TypeOK
    <3>3. ASSUME NEW d \in Call, call[d].op = "append" PROVE forSug[d] # s
      <4>1. call[d].stage = "settled"
        BY <1>0, <1>q, <3>1, <3>3, StageSplit
      <4> QED BY <3>1, <3>3, <4>1 DEF SerialOK, DecidedOK, Pending
    <3>4. Pending(s)'
      BY <3>1 DEF Pending
    <3> QED BY <1>0, <1>q, <3>1, <3>2, <3>3, <3>4, BeginStep DEF Pending
  <2> QED BY <2>1, <2>2
<1>4. ASSUME NEW c \in Call, Repository(c) PROVE SerialOK'
  BY <1>4, RepositoryStep
<1>5. ASSUME NEW c \in Call, AppendResolved(c) \/ AppendRejected(c) PROVE SerialOK'
  BY <1>5, ContinuationStep
<1>6. ASSUME NEW c \in Call, NEW i \in Index, PageCommit(i, c) \/ EditSlide(i, c) PROVE SerialOK'
  <2>1. Quiet /\ sug' = sug /\ forSug' = forSug
    BY <1>6 DEF PageCommit, EditSlide, queueVars
  <2>2. CASE \E o \in {"commit", "edit"} : Begin(c, o, i)
    BY <1>0, <1>q, <2>1, <2>2, BeginStep
  <2>3. CASE UNCHANGED deckVars
    BY <1>0, <1>q, <2>1, <2>3, DecisionStep
  <2> QED BY <1>6, <2>2, <2>3 DEF PageCommit, EditSlide
<1>7. CASE Dispose
  BY <1>0, <1>q, <1>7, DecisionStep DEF Dispose, Pending, TypeOK
<1>8. CASE UNCHANGED vars
  BY <1>8 DEF vars, deckVars, queueVars, SerialOK, OneActive, ReadOK, UndecidedOK, DecidedOK,
              OneAppend, Active, Pending, RowOf
<1> QED
  BY <1>1, <1>2, <1>3, <1>4, <1>5, <1>6, <1>7, <1>8 DEF Next, Presenter
-----------------------------------------------------------------------------
SerialInv == QueueInv /\ SerialOK

(* The strengthened invariant always holds.                                 *)
LEMMA SerialAlways ==
  ASSUME Serialised
  PROVE  Spec => []SerialInv
<1>1. Init => SerialInv
  BY QueueInvInit, SerialInit DEF SerialInv
<1>2. SerialInv /\ [Next]_vars => SerialInv'
  BY QueueInvStep, SerialStep DEF SerialInv
<1> QED BY <1>1, <1>2, PTL DEF Spec

(* PRODUCT_SPEC "DISCARDED cannot be undone": with SQLite a suggestion the  *)
(* presenter rejected, or the TTL discarded, has no slide in the deck.      *)
THEOREM DiscardsAreFinal ==
  ASSUME Serialised
  PROVE  Spec => []DiscardedNotInDeck
<1>1. SerialInv => DiscardedNotInDeck
  <2> SUFFICES ASSUME SerialInv, NEW s \in Suggestion, sug[s] = "discarded",
                      NEW c \in Call, forSug[c] = s, RowOf(c) # {}
               PROVE  FALSE
    BY DEF DiscardedNotInDeck, Landed
  <2>1. call[c].op = "append" /\ call[c].stage \in {"landed", "settled"}
    BY DeckAssumption DEF SerialInv, QueueInv, RowsOK, LinkedCall, RowOf
  <2> QED BY <2>1 DEF SerialInv, SerialOK, UndecidedOK, DecidedOK, Active, Pending
<1> QED BY <1>1, SerialAlways, PTL

(* Every accepted slide gets a page number of its own: between appendSlide's *)
(* SELECT MAX(idx) and its INSERT nobody else inserts, so the UNIQUE index   *)
(* never refuses it.                                                         *)
THEOREM AppendsNeverClash ==
  ASSUME Serialised
  PROVE  Spec => []NoClash
<1>1. SerialInv => NoClash
  <2> SUFFICES ASSUME SerialInv, NEW c \in Call, call[c].op = "append", call[c].stage = "read",
                      NEW r \in rows
               PROVE  r.idx # NewIdx(c)
    BY DEF NoClash, Clashes
  <2>1. TypeOK /\ ReadOK
    BY DEF SerialInv, QueueInv, SerialOK
  <2>2. r.idx \in Nat /\ call[c].seen \in Int /\ r.idx <= call[c].seen
    BY <2>1 DEF ReadOK, TypeOK, DeckTypeOK, Row, CallState, HeadIndex
  <2> QED BY <2>2 DEF NewIdx
<1> QED BY <1>1, SerialAlways, PTL

(* What a step may do to rows and committed_index that are already there.   *)
LEMMA ShownStep ==
  SerialInv /\ [Next]_vars =>
    dbCommitted' >= dbCommitted /\ \A r \in rows : r.idx <= dbCommitted => r \in rows'
<1> SUFFICES ASSUME SerialInv, [Next]_vars
             PROVE  dbCommitted' >= dbCommitted
                    /\ \A r \in rows : r.idx <= dbCommitted => r \in rows'
  OBVIOUS
<1>0. TypeOK /\ ReadOK
  BY DEF SerialInv, QueueInv, SerialOK
<1> USE DEF TypeOK, DeckTypeOK
<1>t. dbCommitted \in Int /\ (\A r \in rows : r.idx \in Int)
      /\ \A c \in Call : call[c].arg \in Int /\ call[c].seen \in Int
  BY <1>0
<1>1. ASSUME NEW c \in Call, CommitWrite(c)
      PROVE  dbCommitted' >= dbCommitted /\ rows' = rows
  <2>1. call[c].seen = dbCommitted
    BY <1>0, <1>1 DEF CommitWrite, ReadOK
  <2> QED BY <1>1, <1>t, <2>1 DEF CommitWrite, Larger
<1>2. ASSUME NEW c \in Call, EditWrite(c)
      PROVE  dbCommitted' = dbCommitted /\ \A r \in rows : r.idx <= dbCommitted => r \in rows'
  <2> DEFINE new(r) == IF r.idx = call[c].arg THEN [r EXCEPT !.content = c] ELSE r
  <2>1. rows' = {new(r) : r \in rows} /\ call[c].arg > dbCommitted
    BY <1>0, <1>2 DEF EditWrite, ReadOK
  <2>2. \A r \in rows : r.idx <= dbCommitted => new(r) = r
    BY <1>t, <2>1
  <2> HIDE DEF new
  <2> QED BY <1>2, <2>1, <2>2 DEF EditWrite
<1>3. CASE rows \subseteq rows' /\ dbCommitted' = dbCommitted
  BY <1>3, <1>t
<1>4. ASSUME NEW c \in Call,
             AppendRead(c) \/ AppendInsert(c) \/ CommitRead(c) \/ EditRead(c)
             \/ EditFind(c) \/ CallFails(c)
      PROVE  rows \subseteq rows' /\ dbCommitted' = dbCommitted
  BY <1>4 DEF AppendRead, AppendInsert, CommitRead, EditRead, EditFind, CallFails
<1>5. CASE \E c \in Call : Repository(c)
  BY <1>1, <1>2, <1>3, <1>4, <1>5, <1>t DEF Repository, DeckStep
<1>6. CASE ~\E c \in Call : Repository(c)
  BY <1>3, <1>6
  DEF Next, Presenter, Suggest, Expire, Reject, Accept, Begin, AppendResolved, AppendRejected,
      PageCommit, EditSlide, Dispose, vars, deckVars
<1> QED BY <1>5, <1>6

(* The persisted committed_index never goes back.                           *)
THEOREM CommittedNeverRetreats ==
  ASSUME Serialised
  PROVE  Spec => CommittedMonotone
<1>1. SerialInv /\ [Next]_vars => [dbCommitted' >= dbCommitted]_deckVars
  BY ShownStep
<1> QED BY <1>1, SerialAlways, PTL DEF Spec, CommittedMonotone

(* I1: no call changes or removes a page at or below the committed head.    *)
THEOREM ShownPagesFrozen ==
  ASSUME Serialised
  PROVE  Spec => ShownFrozen
<1>1. SerialInv /\ [Next]_vars
        => [\A r \in rows : r.idx <= dbCommitted => r \in rows']_deckVars
  BY ShownStep
<1> QED BY <1>1, SerialAlways, PTL DEF Spec, ShownFrozen
-----------------------------------------------------------------------------
(* The refinement.  Which steps move the abstract state machine:            *)
LEMMA NoneInDeck == (\A c \in Call : ~Active(c)) => \A s : ~InDeck(s)
BY DEF Active, InDeck

(* A step that keeps rows and links keeps the abstract deck.                *)
LEMMA DeckMapKept ==
  ASSUME forSug' = forSug, \A c \in Call : (RowOf(c)' = {}) <=> (RowOf(c) = {})
  PROVE  fsmDeck' = fsmDeck
BY DEF fsmDeck

(* Initial states map to initial states.                                    *)
LEMMA FsmInitially == Init => FSM!FsmInit
<1> SUFFICES ASSUME Init PROVE FSM!FsmInit
  OBVIOUS
<1>1. \A c \in Call : RowOf(c) = {}
  BY DeckAssumption DEF Init, DeckInit, RowOf
<1>2. fsmDeck = {}
  BY <1>1 DEF fsmDeck
<1>3. fsmStatus = [s \in Suggestion |-> "idle"]
  BY DEF Init, fsmStatus
<1> QED BY <1>2, <1>3 DEF FSM!FsmInit

(* fsmStatus[s] depends on sug[s] and on InDeck(s) alone.                   *)
LEMMA StatusOf ==
  ASSUME TypeOK, NEW s \in Suggestion
  PROVE  /\ sug[s] = "new" => fsmStatus[s] = "idle"
         /\ sug[s] = "suggested" /\ ~InDeck(s) => fsmStatus[s] = "suggested"
         /\ sug[s] = "suggested" /\ InDeck(s) => fsmStatus[s] = "applied"
         /\ sug[s] = "applied" => fsmStatus[s] = "applied"
         /\ sug[s] \in {"discarded", "dropped"} => fsmStatus[s] = "discarded"
BY DEF fsmStatus, TypeOK

(* The abstract status after a step, one suggestion at a time.              *)
LEMMA StatusOfNext ==
  ASSUME TypeOK', NEW s \in Suggestion
  PROVE  /\ sug'[s] = "suggested" /\ ~InDeck(s)' => fsmStatus'[s] = "suggested"
         /\ sug'[s] = "suggested" /\ InDeck(s)' => fsmStatus'[s] = "applied"
         /\ sug'[s] = "applied" => fsmStatus'[s] = "applied"
         /\ sug'[s] \in {"discarded", "dropped"} => fsmStatus'[s] = "discarded"
BY DEF fsmStatus, TypeOK

(* The abstract status of a suggestion nothing happened to.                 *)
LEMMA StatusKept ==
  ASSUME NEW s \in Suggestion, sug'[s] = sug[s], InDeck(s)' <=> InDeck(s)
  PROVE  fsmStatus'[s] = fsmStatus[s]
BY DEF fsmStatus

(* The abstract status is the function it is written as.                    *)
LEMMA StatusIsFunction ==
  /\ fsmStatus = [s \in Suggestion |-> fsmStatus[s]]
  /\ fsmStatus' = [s \in Suggestion |-> fsmStatus'[s]]
BY DEF fsmStatus

(* If every suggestion keeps its abstract status, so does the function.     *)
LEMMA AllStatusKept ==
  ASSUME \A s \in Suggestion : fsmStatus'[s] = fsmStatus[s]
  PROVE  fsmStatus' = fsmStatus
<1>1. [s \in Suggestion |-> fsmStatus'[s]] = [s \in Suggestion |-> fsmStatus[s]]
  OBVIOUS
<1> QED BY <1>1, StatusIsFunction

(* An event while no call is in progress moves the abstract machine as the  *)
(* queue entry moves: new to suggested, suggested to discarded.             *)
LEMMA EventMaps ==
  ASSUME TypeOK, TypeOK', \A c \in Call : ~Active(c), rows' = rows,
         \A c \in Call : call'[c].stage # "landed",
         \A c \in Call : RowOf(c) # {} => forSug'[c] = forSug[c]
  PROVE  /\ fsmDeck' = fsmDeck
         /\ \A s \in Suggestion : ~InDeck(s) /\ ~InDeck(s)'
<1>1. \A c \in Call : RowOf(c)' = RowOf(c)
  BY DEF RowOf
<1>2. fsmDeck' = fsmDeck
  BY <1>1 DEF fsmDeck
<1> QED BY <1>2 DEF InDeck, Active

(* Discarding the suggestions S while no call is in progress.               *)
LEMMA DiscardMaps ==
  ASSUME TypeOK, TypeOK', NEW S \in SUBSET Suggestion, fsmDeck' = fsmDeck,
         \A s \in Suggestion : InDeck(s)' <=> InDeck(s),
         \A s \in S : Pending(s) /\ ~InDeck(s) /\ sug'[s] \in {"discarded", "dropped"},
         \A s \in Suggestion \ S : sug'[s] = sug[s]
  PROVE  FSM!Discard(S)
<1>1. \A s \in S : fsmStatus[s] = "suggested" /\ fsmStatus'[s] = "discarded"
  BY StatusOf, StatusOfNext DEF Pending
<1>2. \A s \in Suggestion \ S : fsmStatus'[s] = fsmStatus[s]
  BY StatusKept
<1>3. fsmStatus' = [s \in Suggestion |-> IF s \in S THEN "discarded" ELSE fsmStatus[s]]
  BY <1>1, <1>2, StatusIsFunction
<1> QED BY <1>1, <1>3 DEF FSM!Discard

(* Every step maps to a step of the abstract machine, or to a stutter.      *)
LEMMA FsmStep ==
  Serialised /\ SerialInv /\ SerialInv' /\ [Next]_vars => [FSM!FsmNext]_(FSM!fsmVars)
<1> SUFFICES ASSUME Serialised, SerialInv, SerialInv', [Next]_vars
             PROVE  FSM!FsmNext \/ (fsmStatus' = fsmStatus /\ fsmDeck' = fsmDeck)
  BY DEF FSM!fsmVars
<1>0. TypeOK /\ TypeOK' /\ CallsOK /\ RowsOK
  BY DEF SerialInv, QueueInv
<1>q. Quiet => \A c \in Call : ~Active(c)
  BY QuietMeansNoActive
<1>l. \A c \in Call : Active(c) <=> call[c].stage \in {"queued", "checked", "read", "landed", "failed"}
  BY DEF Active
<1>r. \A c \in Call : RowOf(c) # {} => call[c].stage \in {"landed", "settled"}
  BY <1>0, DeckAssumption DEF RowsOK, LinkedCall, RowOf
(* An event that leaves the calls alone.                                    *)
<1>e. ASSUME Quiet, UNCHANGED deckVars, forSug' = forSug
      PROVE  fsmDeck' = fsmDeck /\ \A s \in Suggestion : ~InDeck(s) /\ ~InDeck(s)'
  BY <1>0, <1>q, <1>l, <1>e, EventMaps DEF deckVars
(* An event that begins a call.                                             *)
<1>b. ASSUME Quiet, NEW c \in Call, NEW o, NEW i, Begin(c, o, i),
             \A d \in Call : d # c => forSug'[d] = forSug[d]
      PROVE  fsmDeck' = fsmDeck /\ \A s \in Suggestion : ~InDeck(s) /\ ~InDeck(s)'
  <2>1. \A d \in Call : call'[d].stage # "landed"
    BY <1>0, <1>q, <1>l, <1>b DEF Begin, TypeOK, DeckTypeOK
  <2>2. \A d \in Call : RowOf(d) # {} => forSug'[d] = forSug[d]
    BY <1>r, <1>b DEF Begin
  <2> QED BY <1>0, <1>q, <1>b, <2>1, <2>2, EventMaps DEF Begin
<1>1. ASSUME NEW s \in Suggestion, Suggest(s) PROVE FSM!Offer(s)
  <2>1. fsmDeck' = fsmDeck /\ \A t \in Suggestion : ~InDeck(t) /\ ~InDeck(t)'
    BY <1>e, <1>1 DEF Suggest
  <2>2. sug[s] = "new" /\ sug'[s] = "suggested"
        /\ \A t \in Suggestion : t # s => sug'[t] = sug[t]
    BY <1>0, <1>1 DEF Suggest, TypeOK
  <2>3. fsmStatus[s] = "idle" /\ fsmStatus'[s] = "suggested"
    BY <1>0, <2>1, <2>2, StatusOf, StatusOfNext
  <2>4. \A t \in Suggestion : t # s => fsmStatus'[t] = fsmStatus[t]
    BY <2>1, <2>2, StatusKept
  <2>5. fsmStatus' = [fsmStatus EXCEPT ![s] = "suggested"]
    BY <2>3, <2>4, StatusIsFunction
  <2> QED BY <2>1, <2>3, <2>5 DEF FSM!Offer
<1>2. ASSUME NEW s \in Suggestion, Quiet, Pending(s), Settle(s, "discarded"), UNCHANGED deckVars,
             forSug' = forSug
      PROVE  FSM!Discard({s})
  <2>1. fsmDeck' = fsmDeck /\ \A t \in Suggestion : ~InDeck(t) /\ ~InDeck(t)'
    BY <1>e, <1>2
  <2>2. sug'[s] = "discarded" /\ \A t \in Suggestion \ {s} : sug'[t] = sug[t]
    BY <1>0, <1>2 DEF Settle, TypeOK
  <2> QED BY <1>0, <1>2, <2>1, <2>2, DiscardMaps
<1>3. ASSUME NEW s \in Suggestion, Expire(s) \/ \E auth \in BOOLEAN : Reject(s, auth)
      PROVE  FSM!FsmNext
  <2>1. FSM!Discard({s})
    BY <1>2, <1>3 DEF Expire, Reject
  <2> QED BY <2>1 DEF FSM!FsmNext
<1>4. ASSUME NEW s \in Suggestion, NEW auth \in BOOLEAN, NEW c \in Call, Accept(s, auth, c)
      PROVE  FSM!FsmNext \/ (fsmStatus' = fsmStatus /\ fsmDeck' = fsmDeck)
  <2>1. CASE ~deckBound
    <3>1. FSM!Discard({s})
      BY <1>2, <1>4, <2>1 DEF Accept
    <3> QED BY <3>1 DEF FSM!FsmNext
  <2>2. CASE deckBound
    <3>1. Quiet /\ Begin(c, "append", 0) /\ sug' = sug /\ forSug' = [forSug EXCEPT ![c] = s]
      BY <1>4, <2>2 DEF Accept
    <3>2. fsmDeck' = fsmDeck /\ \A t \in Suggestion : ~InDeck(t) /\ ~InDeck(t)'
      BY <1>0, <1>b, <3>1 DEF TypeOK
    <3> QED BY <3>1, <3>2, StatusKept, AllStatusKept
  <2> QED BY <2>1, <2>2
<1>5. ASSUME NEW c \in Call, NEW i \in Index, PageCommit(i, c) \/ EditSlide(i, c)
      PROVE  fsmStatus' = fsmStatus /\ fsmDeck' = fsmDeck
  <2>1. Quiet /\ sug' = sug /\ forSug' = forSug
        /\ (UNCHANGED deckVars \/ \E o \in {"commit", "edit"} : Begin(c, o, i))
    BY <1>5 DEF PageCommit, EditSlide, queueVars
  <2>2. fsmDeck' = fsmDeck /\ \A t \in Suggestion : ~InDeck(t) /\ ~InDeck(t)'
    BY <1>e, <1>b, <2>1
  <2> QED BY <2>1, <2>2, StatusKept, AllStatusKept
<1>6. CASE Dispose
  <2> DEFINE P == {s \in Suggestion : Pending(s)}
  <2>1. fsmDeck' = fsmDeck /\ \A t \in Suggestion : ~InDeck(t) /\ ~InDeck(t)'
    BY <1>e, <1>6 DEF Dispose
  <2>2. (\A s \in P : sug'[s] = "dropped") /\ \A s \in Suggestion \ P : sug'[s] = sug[s]
    BY <1>6 DEF Dispose
  <2>3. FSM!Discard(P)
    BY <1>0, <2>1, <2>2, DiscardMaps
  <2> QED BY <2>3 DEF FSM!FsmNext
<1>7. ASSUME NEW c \in Call, Repository(c)
      PROVE  FSM!FsmNext \/ (fsmStatus' = fsmStatus /\ fsmDeck' = fsmDeck)
  <2> USE DEF TypeOK, DeckTypeOK
  <2>1. sug' = sug /\ forSug' = forSug /\ \A d \in Call : d # c => call'[d] = call[d]
    BY <1>0, <1>7 DEF Repository, queueVars, DeckStep, AppendRead, AppendInsert, CommitRead,
                      CommitWrite, EditRead, EditFind, EditWrite, CallFails
  <2>2. RowsKept /\ RowsFrom(c)
    BY <1>0, <1>7, RowsOfStep DEF Repository
  <2>3. Active(c) /\ call[c].stage \in {"queued", "checked", "read"}
    BY <1>7 DEF Repository, DeckStep, AppendRead, AppendInsert, CommitRead, CommitWrite, EditRead, EditFind,
                EditWrite, CallFails, Active
  <2>4. \A d \in Call : d # c => call[d].stage # "landed"
    BY <1>l, <2>3 DEF SerialInv, SerialOK, OneActive
  <2>5. \A s \in Suggestion : ~InDeck(s)
    BY <2>3, <2>4 DEF InDeck
  <2>6. CASE AppendInsert(c)
    <3>1. call[c].op = "append" /\ call'[c].stage = "landed"
          /\ [idx |-> NewIdx(c), id |-> c, content |-> c] \in rows'
      BY <1>0, <2>6 DEF AppendInsert
    <3>2. forSug[c] \in Suggestion /\ Pending(forSug[c])
      BY <1>0, <2>3, <3>1 DEF CallsOK, SerialInv, SerialOK, UndecidedOK
    <3>3. InDeck(forSug[c])' /\ \A s \in Suggestion : s # forSug[c] => ~InDeck(s)'
      BY <2>1, <2>4, <3>1 DEF InDeck
    <3>4. fsmStatus[forSug[c]] = "suggested" /\ fsmStatus'[forSug[c]] = "applied"
      BY <1>0, <2>1, <2>5, <3>2, <3>3, StatusOf, StatusOfNext DEF Pending
    <3>5. \A s \in Suggestion : s # forSug[c] => fsmStatus'[s] = fsmStatus[s]
      BY <2>1, <2>5, <3>3, StatusKept
    <3>6. fsmStatus' = [fsmStatus EXCEPT ![forSug[c]] = "applied"]
      BY <3>2, <3>4, <3>5, StatusIsFunction
    <3>7. \A d \in Call : RowOf(d)' # {} <=> RowOf(d) # {} \/ d = c
      <4>1. rows' = rows \cup {[idx |-> NewIdx(c), id |-> c, content |-> c]}
        BY <2>6 DEF AppendInsert
      <4>2. RowOf(c)' # {}
        BY <3>1 DEF RowOf
      <4>3. \A d \in Call : d # c => RowOf(d)' = RowOf(d)
        BY <4>1 DEF RowOf
      <4> QED BY <4>2, <4>3
    <3>8. fsmDeck' = fsmDeck \cup {<<forSug[c], c>>}
      BY <2>1, <3>7 DEF fsmDeck
    <3>9. FSM!Apply(forSug[c], c)
      BY <3>4, <3>6, <3>8 DEF FSM!Apply
    <3> QED BY <3>2, <3>9 DEF FSM!FsmNext
  <2>7. CASE ~AppendInsert(c)
    <3>1. call'[c].stage # "landed"
      BY <1>0, <1>7, <2>7 DEF Repository, DeckStep, AppendRead, CommitRead, CommitWrite, EditRead, EditFind,
                              EditWrite, CallFails
    <3>2. \A s \in Suggestion : ~InDeck(s)'
      BY <2>1, <2>4, <3>1 DEF InDeck
    <3>3. \A d \in Call : (RowOf(d)' = {}) <=> (RowOf(d) = {})
      BY <2>2, <2>7 DEF RowsKept, RowsFrom, SameRow, RowOf
    <3> QED BY <2>1, <2>5, <3>2, <3>3, DeckMapKept, StatusKept, AllStatusKept
  <2> QED BY <2>6, <2>7
<1>8. ASSUME NEW c \in Call, AppendResolved(c) \/ AppendRejected(c)
      PROVE  FSM!FsmNext \/ (fsmStatus' = fsmStatus /\ fsmDeck' = fsmDeck)
  <2>1. /\ call[c].op = "append" /\ call[c].stage \in {"landed", "failed"} /\ Active(c)
        /\ call' = [call EXCEPT ![c].stage = "settled"] /\ rows' = rows /\ forSug' = forSug
    BY <1>8 DEF AppendResolved, AppendRejected, Active
  <2>2. forSug[c] \in Suggestion /\ Pending(forSug[c])
    BY <1>0, <2>1 DEF CallsOK, SerialInv, SerialOK, UndecidedOK, TypeOK
  <2>3. \A d \in Call : d # c => call[d].stage # "landed" /\ call'[d].stage # "landed"
    BY <1>0, <1>l, <2>1 DEF SerialInv, SerialOK, OneActive, TypeOK, DeckTypeOK
  <2>4. call'[c].stage # "landed"
    BY <1>0, <2>1 DEF TypeOK, DeckTypeOK
  <2>5. \A s \in Suggestion : ~InDeck(s)' /\ (s # forSug[c] => ~InDeck(s))
    BY <2>3, <2>4 DEF InDeck
  <2>6. fsmDeck' = fsmDeck
    BY <2>1, DeckMapKept DEF RowOf
  <2>7. CASE AppendResolved(c)
    <3>1. InDeck(forSug[c])
      BY <2>7 DEF AppendResolved, InDeck
    <3>2. sug' = [sug EXCEPT ![forSug[c]] = "applied"]
      BY <2>2, <2>7 DEF AppendResolved, Settle
    <3>3. fsmStatus'[forSug[c]] = fsmStatus[forSug[c]]
      BY <1>0, <2>2, <3>1, <3>2, StatusOf, StatusOfNext DEF Pending, TypeOK
    <3>4. \A s \in Suggestion : s # forSug[c] => fsmStatus'[s] = fsmStatus[s]
      BY <1>0, <2>5, <3>2, StatusKept DEF TypeOK
    <3> QED BY <2>6, <3>3, <3>4, AllStatusKept
  <2>8. CASE AppendRejected(c)
    <3>1. ~InDeck(forSug[c])
      BY <2>3, <2>8 DEF AppendRejected, InDeck
    <3>2. sug' = [sug EXCEPT ![forSug[c]] = "discarded"]
      BY <2>2, <2>8 DEF AppendRejected, Settle
    <3>3. FSM!Discard({forSug[c]})
      BY <1>0, <2>2, <2>5, <2>6, <3>1, <3>2, DiscardMaps DEF TypeOK
    <3> QED BY <2>2, <3>3 DEF FSM!FsmNext
  <2> QED BY <1>8, <2>7, <2>8
<1>9. CASE UNCHANGED vars
  BY <1>9 DEF vars, deckVars, queueVars, fsmStatus, fsmDeck, InDeck, RowOf
<1> QED
  BY <1>1, <1>3, <1>4, <1>5, <1>6, <1>7, <1>8, <1>9 DEF Next, Presenter, FSM!FsmNext

(* With SQLite the queue implements the approval state machine: a slide     *)
(* enters the deck in the step that applies its suggestion, and a discarded *)
(* suggestion never comes back.                                             *)
THEOREM ImplementsApprovalFSM ==
  ASSUME Serialised
  PROVE  Spec => ImplementsFSM
<1>1. Init => FSM!FsmInit
  BY FsmInitially
<1>2. SerialInv /\ SerialInv' /\ [Next]_vars => [FSM!FsmNext]_(FSM!fsmVars)
  BY FsmStep
<1> QED BY <1>1, <1>2, SerialAlways, PTL DEF Spec, ImplementsFSM, FSM!FsmSpec
=============================================================================

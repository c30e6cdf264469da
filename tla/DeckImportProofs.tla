--------------------------- MODULE DeckImportProofs ---------------------------
(***************************************************************************)
(* What the import of a file and the extraction of its texts guarantee, for  *)
(* a file of any length with text on any of its pages, any number of          *)
(* supplement slides and of restarts, and whatever the parser makes of it.    *)
(***************************************************************************)
EXTENDS DeckImport, FiniteSetTheorems, SequenceTheorems, WellFoundedInduction, TLAPS

Gone         == deck.status = "deleted"
Left(task)   == task.todo \cup task.unread \cup task.busy
Originals(i) == {k \in 1..i : slides[k].original}

(* The n-th page of the file is the n-th slide that came from it, wherever   *)
(* the supplements are, and the loop is at the page after them.              *)
RowsOK ==
  /\ \A i \in 1..Len(slides) :
       /\ slides[i].original => slides[i].shows = Cardinality(Originals(i)) /\ slides[i].shows \in Page
       /\ ~slides[i].original => slides[i].shows = Other
  /\ Exists /\ conv.at \in {"store", "enqueue", "start", "raster", "asset", "slide"} =>
       Cardinality(Originals(Len(slides))) = conv.page - 1

(* Where there is no deck there is no slide; it does not come back.          *)
DeckOK ==
  /\ deck.status = "none" => conv = [at |-> "off", page |-> 1]
  /\ deck.status \in {"none", "deleted"} => slides = <<>>

(* A text is that of the page with the slide's number.                       *)
TextsOK ==
  \A i \in 1..Len(slides) :
    slides[i].text # Null => slides[i].text \in {Blank, i} /\ i \in Page /\ deck.originals = N

(* A page that an extraction has still to do is in one of its sets, and      *)
(* nothing is stored for it.                                                 *)
TaskOK(task) ==
  /\ task.at \in {"off", "load"} => Left(task) = {}
  /\ task.todo \cap task.unread = {} /\ task.todo \cap task.busy = {}
  /\ task.at # "read" => task.busy = {}
  /\ task.at = "read" => task.unread = {}
  /\ \A i \in Page : task.parsed[i] \in {Blank, i}
  /\ \A i \in Left(task) : results[i] = 0
  /\ Left(task) # {} => deck.originals = N \/ Gone

WorkOK == \A r \in Run : TaskOK(ext[r])

(* One extraction at a time.                                                 *)
OneRun == \A r, s \in Run : ext[r].at # "off" /\ ext[s].at # "off" => r = s

(* What is stored is on the slide, as long as there is one.                  *)
ResultsOK == \A p \in Page :
  /\ results[p] \in 0..1
  /\ results[p] = 1 => Gone \/ (p <= Len(slides) /\ slides[p].text # Null)

ImportInv == TypeOK /\ RowsOK /\ DeckOK /\ TextsOK /\ WorkOK /\ OneRun /\ ResultsOK
-----------------------------------------------------------------------------
(* Lemmas about the operators. *)

LEMMA MinOfPages ==
  ASSUME NEW T \in SUBSET Page, T # {}
  PROVE  Min(T) \in T
<1>0. T \in SUBSET Nat
  BY DEF Page
<1>1. IsWellFoundedOn(OpToRel(<, Nat), Nat)
  BY NatLessThanWellFounded, Zenon
<1>2. PICK n \in T : \A k \in T : ~(<<k, n>> \in OpToRel(<, Nat))
  BY <1>0, <1>1, WFMin, Zenon
<1>3. \A k \in T : ~(k < n)
  BY <1>0, <1>2 DEF OpToRel
<1>4. \E m \in T : \A k \in T : m =< k
  BY <1>0, <1>3
<1> QED BY <1>4 DEF Min

LEMMA OriginalsFinite ==
  ASSUME NEW i \in Nat
  PROVE  IsFiniteSet(Originals(i)) /\ Cardinality(Originals(i)) \in Nat
<1>1. IsFiniteSet(1..i)
  BY FS_Interval
<1>2. IsFiniteSet(Originals(i))
  BY <1>1, FS_Subset DEF Originals
<1> QED BY <1>2, FS_CardinalityType

(* A row of the table is written.                                            *)
LEMMA RowWritten ==
  ASSUME NEW S, NEW s \in Seq(S), NEW i \in 1..Len(s), NEW row \in S
  PROVE  /\ [s EXCEPT ![i] = row] \in Seq(S) /\ Len([s EXCEPT ![i] = row]) = Len(s)
         /\ \A k \in 1..Len(s) : [s EXCEPT ![i] = row][k] = IF k = i THEN row ELSE s[k]
BY ExceptSeq

LEMMA RowAppended ==
  ASSUME NEW S, NEW s \in Seq(S), NEW row \in S
  PROVE  /\ Append(s, row) \in Seq(S) /\ Len(Append(s, row)) = Len(s) + 1
         /\ \A k \in 1..Len(s) : Append(s, row)[k] = s[k]
         /\ Append(s, row)[Len(s) + 1] = row
BY AppendProperties

(* What the parser gives is used where its pages are those of the file.      *)
LEMMA ParsedText ==
  ASSUME TypeOK, NEW parsed \in Parsed, NEW i \in Page
  PROVE  (IF Aligned(parsed) THEN parsed.of ELSE Unparsed.of)[i] \in {Blank, i}
BY DeckImportAssumption DEF TypeOK, Parsed, Aligned, Unparsed, Text, Page, Blank

LEMMA ImportInit == Init => ImportInv
<1> SUFFICES ASSUME Init PROVE ImportInv
  OBVIOUS
<1> USE DeckImportAssumption DEF Init
<1>1. TypeOK
  BY DEF TypeOK, Stage, Task, NoExt, Page, Blank
<1>2. RowsOK /\ DeckOK /\ TextsOK
  BY DEF RowsOK, DeckOK, TextsOK, Exists
<1>3. WorkOK /\ OneRun
  BY DEF WorkOK, TaskOK, OneRun, NoExt, Left, Page, Blank
<1>4. ResultsOK
  BY DEF ResultsOK
<1> QED BY <1>1, <1>2, <1>3, <1>4 DEF ImportInv
-----------------------------------------------------------------------------
(* The conversion. *)

Early == {"store", "enqueue", "start", "raster", "asset", "slide"}

LEMMA OriginalsSame ==
  ASSUME NEW i \in Nat, \A k \in 1..i : slides'[k].original = slides[k].original
  PROVE  Originals(i)' = Originals(i)
BY DEF Originals

LEMMA NoOriginals == ASSUME slides = <<>> PROVE Cardinality(Originals(Len(slides))) = 0
<1>1. Originals(Len(slides)) = {}
  BY DEF Originals
<1> QED BY <1>1, FS_EmptySet

LEMMA ConversionType ==
  ASSUME ImportInv, Conversion, restarts' = restarts
  PROVE  TypeOK'
<1>0. TypeOK
  BY DEF ImportInv
<1>1. ext' = ext /\ results' = results
  BY DEF Conversion, NoExtraction
<1>2. deck' \in [status : {"none", "processing", "ready", "failed", "deleted"}, originals : {0, N}]
  BY <1>0 DEF TypeOK, Conversion, Create, StoreSource, Enqueue, InitFails, Start, Rasterize, InsertAsset,
              AppendPage, SetOriginalCount, SetReady, Done, Throws, CatchDeck, CatchJob, SetStatus
<1>3. job' \in {"none", "queued", "running", "done", "failed"}
  BY <1>0 DEF TypeOK, Conversion, Create, StoreSource, Enqueue, InitFails, Start, Rasterize, InsertAsset,
              AppendPage, SetOriginalCount, SetReady, Done, Throws, CatchDeck, CatchJob, SetJob
<1>4. images' \subseteq Page
  BY <1>0 DEF TypeOK, Conversion, Create, StoreSource, Enqueue, InitFails, Start, Rasterize, InsertAsset,
              AppendPage, SetOriginalCount, SetReady, Done, Throws, CatchDeck, CatchJob
<1>5. conv' \in [at : Stage, page : Page]
  <2>1. conv.page < N => conv.page + 1 \in Page
    BY <1>0, DeckImportAssumption DEF TypeOK, Page
  <2>2. ASSUME NEW stage \in Stage, Goes(stage) PROVE conv' \in [at : Stage, page : Page]
    BY <1>0, <2>2 DEF TypeOK, Goes
  <2>3. CASE AppendPage
    BY <1>0, <2>1, <2>3 DEF TypeOK, Stage, AppendPage
  <2>4. CASE ~AppendPage
    <3>1. \E stage \in Stage : Goes(stage)
      BY <2>4 DEF Stage, Conversion, Create, StoreSource, Enqueue, InitFails, Start, Rasterize,
                  InsertAsset, SetOriginalCount, SetReady, Done, Throws, CatchDeck, CatchJob
    <3> QED BY <2>2, <3>1
  <2> QED BY <2>3, <2>4
<1>6. slides' \in Seq(Slide)
  <2>1. CASE slides' = slides
    BY <1>0, <2>1 DEF TypeOK
  <2>2. CASE AppendPage
    <3> DEFINE row == [original |-> TRUE, shows |-> conv.page, text |-> Null]
    <3>1. row \in Slide
      BY <1>0, DeckImportAssumption DEF TypeOK, Slide, Page, Null
    <3>2. slides' = Append(slides, row)
      BY <2>2 DEF AppendPage, AppendSlide
    <3> HIDE DEF row
    <3> QED BY <1>0, <3>1, <3>2, RowAppended DEF TypeOK
  <2> QED BY <2>1, <2>2 DEF Conversion, Create, StoreSource, Enqueue, InitFails, Start, Rasterize,
                InsertAsset, SetOriginalCount, SetReady, Done, Throws, CatchDeck, CatchJob
<1> QED BY <1>0, <1>1, <1>2, <1>3, <1>4, <1>5, <1>6 DEF TypeOK

(* A step that leaves the slides and the extraction alone.                   *)
LEMMA SlidesKept ==
  ASSUME ImportInv, TypeOK', slides' = slides, ext' = ext, results' = results,
         DeckOK', Gone => Gone', deck.originals = N => deck'.originals = N \/ Gone',
         Exists' /\ conv'.at \in Early =>
           Cardinality(Originals(Len(slides))) = conv'.page - 1
  PROVE  ImportInv'
<1>0. TypeOK
  BY DEF ImportInv
<1>1. \A i \in 0..Len(slides) : Originals(i)' = Originals(i)
  BY OriginalsSame
<1>2. Len(slides) \in 0..Len(slides)
  BY <1>0 DEF TypeOK
<1>3. RowsOK'
  BY <1>1, <1>2 DEF ImportInv, RowsOK, Early
<1>4. TextsOK'
  <2>1. Gone' => slides = <<>>
    BY DEF DeckOK, Gone
  <2> QED BY <2>1 DEF ImportInv, TextsOK
<1>5. WorkOK' /\ OneRun'
  BY DEF ImportInv, WorkOK, OneRun, TaskOK, Left
<1>6. ResultsOK'
  BY DEF ImportInv, ResultsOK
<1> QED BY <1>3, <1>4, <1>5, <1>6 DEF ImportInv

(* A slide comes behind the others.                                          *)
LEMMA SlideAppended ==
  ASSUME ImportInv, TypeOK', Exists, NEW original \in BOOLEAN, NEW page \in 0..N,
         AppendSlide(original, page), UNCHANGED <<deck, ext, results>>,
         original => page = Cardinality(Originals(Len(slides))) + 1 /\ page \in Page,
         ~original => page = Other,
         conv'.at \in Early =>
           conv'.page = IF original THEN Cardinality(Originals(Len(slides))) + 2
                        ELSE Cardinality(Originals(Len(slides))) + 1
  PROVE  ImportInv'
<1>0. TypeOK /\ Len(slides) \in Nat
  BY DEF ImportInv, TypeOK
<1> DEFINE L == Len(slides)
           row == [original |-> original, shows |-> page, text |-> Null]
<1>1. row \in Slide
  BY DeckImportAssumption DEF Slide, Null
<1>2. slides' = Append(slides, row)
  BY DEF AppendSlide
<1>3. Len(slides') = L + 1 /\ slides'[L + 1] = row /\ \A k \in 1..L : slides'[k] = slides[k]
  BY <1>0, <1>1, <1>2, RowAppended DEF TypeOK
<1>4. ASSUME NEW i \in 0..L PROVE Originals(i)' = Originals(i)
  BY <1>0, <1>3, OriginalsSame
<1>5. IsFiniteSet(Originals(L)) /\ Cardinality(Originals(L)) \in Nat
  BY <1>0, OriginalsFinite
<1>6. ASSUME original PROVE RowsOK'
  <2>1. Originals(Len(slides))' = Originals(L) \cup {L + 1}
    BY <1>0, <1>3, <1>6 DEF Originals
  <2>2. L + 1 \notin Originals(L)
    BY <1>0 DEF Originals
  <2>3. Cardinality(Originals(Len(slides))') = Cardinality(Originals(L)) + 1
    BY <1>5, <2>1, <2>2, FS_AddElement
  <2>4. RowsOK'
    <3>1. ASSUME NEW i \in 1..Len(slides')
          PROVE  /\ slides'[i].original => slides'[i].shows = Cardinality(Originals(i)') /\ slides'[i].shows \in Page
                 /\ ~slides'[i].original => slides'[i].shows = Other
      <4>1. CASE i \in 1..L
        BY <1>0, <1>3, <1>4, <4>1 DEF ImportInv, RowsOK
      <4>2. CASE i = L + 1
        <5>1. Originals(i)' = Originals(Len(slides))'
          BY <1>3, <4>2 DEF Originals
        <5> QED BY <1>3, <1>5, <1>6, <2>3, <4>2, <5>1
      <4> QED BY <1>0, <1>3, <4>1, <4>2
    <3>2. conv'.at \in Early => Cardinality(Originals(Len(slides))') = conv'.page - 1
      BY <1>5, <1>6, <2>3
    <3> QED BY <3>1, <3>2 DEF RowsOK, Early
  <2> QED BY <2>4
<1>7. ASSUME ~original PROVE RowsOK'
  <2>1. Originals(Len(slides))' = Originals(L)
    BY <1>0, <1>3, <1>7 DEF Originals
  <2>4. RowsOK'
    <3>1. ASSUME NEW i \in 1..Len(slides')
          PROVE  /\ slides'[i].original => slides'[i].shows = Cardinality(Originals(i)') /\ slides'[i].shows \in Page
                 /\ ~slides'[i].original => slides'[i].shows = Other
      <4>1. CASE i \in 1..L
        BY <1>0, <1>3, <1>4, <4>1 DEF ImportInv, RowsOK
      <4>2. CASE i = L + 1
        BY <1>3, <1>7, <4>2
      <4> QED BY <1>0, <1>3, <4>1, <4>2
    <3>2. conv'.at \in Early => Cardinality(Originals(Len(slides))') = conv'.page - 1
      BY <1>5, <1>7, <2>1
    <3> QED BY <3>1, <3>2 DEF RowsOK, Early
  <2> QED BY <2>4
<1>8. DeckOK'
  BY DEF ImportInv, DeckOK, Exists
<1>9. TextsOK'
  BY <1>0, <1>3 DEF ImportInv, TextsOK
<1>10. WorkOK' /\ OneRun'
  BY DEF ImportInv, WorkOK, OneRun, TaskOK, Left, Gone
<1>11. ResultsOK'
  <2>1. \A p \in Page : results[p] = 1 => Gone \/ (p \in 1..L /\ slides[p].text # Null)
    BY <1>0 DEF ImportInv, ResultsOK, Page
  <2>2. results' = results /\ (Gone' <=> Gone)
    BY DEF Gone
  <2> QED BY <1>0, <1>3, <2>1, <2>2 DEF ImportInv, ResultsOK, Page
<1>12. RowsOK'
  BY <1>6, <1>7
<1> QED BY <1>8, <1>9, <1>10, <1>11, <1>12 DEF ImportInv

LEMMA ConversionStep ==
  ASSUME ImportInv, Conversion, restarts' = restarts
  PROVE  ImportInv'
<1>0. TypeOK /\ TypeOK' /\ UNCHANGED <<ext, results>>
  BY ConversionType DEF ImportInv, Conversion, NoExtraction
<1>1. CASE Create
  <2>1. slides = <<>> /\ conv = [at |-> "off", page |-> 1] /\ slides' = slides
    BY <1>1 DEF ImportInv, DeckOK, Create
  <2>2. deck'.status = "processing" /\ deck'.originals = deck.originals /\ conv'.page = 1
    BY <1>0, <1>1, <2>1 DEF TypeOK, Create, Goes
  <2>3. Cardinality(Originals(Len(slides))) = conv'.page - 1
    BY <2>1, <2>2, NoOriginals
  <2>4. DeckOK' /\ ~Gone
    BY <1>1, <2>2 DEF DeckOK, Gone, Create
  <2> QED BY <1>0, <2>1, <2>2, <2>3, <2>4, SlidesKept
<1>2. CASE AppendPage
  <2> DEFINE seen == Cardinality(Originals(Len(slides)))
  <2>1. conv.page = seen + 1 /\ conv.page \in Page
    <3>1. seen = conv.page - 1
      BY <1>2 DEF ImportInv, RowsOK, AppendPage
    <3>2. conv.page \in Page
      BY <1>0 DEF TypeOK
    <3> QED BY <3>1, <3>2 DEF Page
  <2>2. conv'.at \in Early => conv'.page = conv.page + 1
    BY <1>0, <1>2 DEF TypeOK, AppendPage, Early
  <2>3. Exists /\ AppendSlide(TRUE, conv.page) /\ deck' = deck
    BY <1>2 DEF AppendPage
  <2>4. conv.page \in 0..N
    BY <2>1, DeckImportAssumption DEF Page
  <2>5. seen \in Nat
    BY <1>0, OriginalsFinite DEF TypeOK
  <2> HIDE DEF seen
  <2>6. conv'.at \in Early => conv'.page = seen + 2
    BY <2>1, <2>2, <2>5
  <2> QED BY <1>0, <2>1, <2>3, <2>4, <2>6, SlideAppended DEF seen
<1>3. CASE ~Create /\ ~AppendPage
  <2>1. slides' = slides
    BY <1>3 DEF Conversion, StoreSource, Enqueue, InitFails, Start, Rasterize, InsertAsset, SetOriginalCount,
                SetReady, Done, Throws, CatchDeck, CatchJob
  <2>2. conv'.at \in Early => conv.at \in Early /\ conv'.page = conv.page
    BY <1>0, <1>3 DEF TypeOK, Goes, Early, Conversion, StoreSource, Enqueue, InitFails, Start, Rasterize, InsertAsset,
                SetOriginalCount, SetReady, Done, Throws, CatchDeck, CatchJob
  <2>3. \/ deck' = deck
        \/ Exists /\ deck' = [deck EXCEPT !.originals = N]
        \/ Exists /\ \E s \in {"ready", "failed"} : deck' = [deck EXCEPT !.status = s]
    BY <1>3 DEF SetStatus, Conversion, StoreSource, Enqueue, InitFails, Start, Rasterize, InsertAsset,
                SetOriginalCount, SetReady, Done, Throws, CatchDeck, CatchJob
  <2>4. (Exists' <=> Exists) /\ (Gone' <=> Gone) /\ (deck'.status = "none" <=> deck.status = "none")
        /\ (deck.originals = N => deck'.originals = N)
    BY <1>0, <2>3 DEF TypeOK, Exists, Gone
  <2>5. conv.at # "off"
    BY <1>3 DEF Conversion, StoreSource, Enqueue, InitFails, Start, Rasterize, InsertAsset, SetOriginalCount,
                SetReady, Done, Throws, CatchDeck, CatchJob
  <2>6. DeckOK'
    BY <2>1, <2>4, <2>5 DEF ImportInv, DeckOK, Gone
  <2>7. Exists' /\ conv'.at \in Early => Cardinality(Originals(Len(slides))) = conv'.page - 1
    BY <2>2, <2>4 DEF ImportInv, RowsOK, Early
  <2> QED BY <1>0, <2>1, <2>4, <2>6, <2>7, SlidesKept
<1> QED BY <1>1, <1>2, <1>3
-----------------------------------------------------------------------------
(* The extraction. *)

Still     == UNCHANGED <<deck, slides, images, job, results, restarts>>
Alone(r)  == \A s \in Run : ext[s].at # "off" => s = r
ConvMoves == \/ conv' = conv
             \/ conv.at \notin Early \cup {"off"} /\ conv' \in [at : Stage \ Early, page : Page]

(* A run goes on, and nothing is stored.                                     *)
LEMMA RunMoves ==
  ASSUME ImportInv, Still, ConvMoves, NEW r \in Run, Alone(r), NEW task \in Task, TaskOK(task),
         ext' = [ext EXCEPT ![r] = task]
  PROVE  ImportInv'
<1> USE DEF Still, Alone, ConvMoves
<1>0. TypeOK
  BY DEF ImportInv
<1>1. TypeOK'
  BY <1>0 DEF TypeOK
<1>2. \A s \in Run : ext'[s] = IF s = r THEN task ELSE ext[s]
  BY <1>0 DEF TypeOK
<1>3. \A i \in 0..Len(slides) : Originals(i)' = Originals(i)
  BY OriginalsSame
<1>4. Len(slides) \in 0..Len(slides)
  BY <1>0 DEF TypeOK
<1>5. conv'.at \in Early => conv' = conv
  BY <1>0 DEF TypeOK
<1>6. RowsOK'
  BY <1>3, <1>4, <1>5 DEF ImportInv, RowsOK, Early, Exists
<1>7. DeckOK' /\ TextsOK' /\ ResultsOK'
  <2>1. conv.at = "off" => conv' = conv
    OBVIOUS
  <2> QED BY <2>1 DEF ImportInv, DeckOK, TextsOK, ResultsOK, Gone
<1>8. WorkOK'
  BY <1>2 DEF ImportInv, WorkOK, TaskOK, Left, Gone
<1>9. OneRun'
  BY <1>2 DEF ImportInv, OneRun
<1> QED BY <1>1, <1>6, <1>7, <1>8, <1>9 DEF ImportInv

LEMMA NoTask == NoExt \in Task /\ TaskOK(NoExt)
<1>1. [i \in Page |-> Blank] \in [Page -> 0..N]
  BY DeckImportAssumption DEF Blank
<1>2. NoExt \in Task
  BY <1>1 DEF NoExt, Task
<1>3. TaskOK(NoExt)
  BY DEF NoExt, TaskOK, Left
<1> QED BY <1>2, <1>3

LEMMA NewTask ==
  ASSUME NEW todo \in SUBSET Page, NEW at \in {"load", "parse", "read"}, at = "load" => todo = {},
         \A i \in todo : results[i] = 0, todo # {} => deck.originals = N \/ Gone
  PROVE  [NoExt EXCEPT !.at = at, !.todo = todo] \in Task /\ TaskOK([NoExt EXCEPT !.at = at, !.todo = todo])
<1>1. NoExt \in Task
  BY NoTask
<1>2. [NoExt EXCEPT !.at = at, !.todo = todo] \in Task
  BY <1>1 DEF Task
<1>3. TaskOK([NoExt EXCEPT !.at = at, !.todo = todo])
  BY DEF NoExt, TaskOK, Left
<1> QED BY <1>2, <1>3

LEMMA LaunchStep ==
  ASSUME ImportInv, Still, ConvMoves, NEW r \in Run, Free, Launch(r)
  PROVE  ImportInv'
<1> DEFINE task == [NoExt EXCEPT !.at = "load"]
<1>1. task \in Task
  BY NoTask DEF Task
<1>2. TaskOK(task)
  BY DEF NoExt, TaskOK, Left
<1>3. ext' = [ext EXCEPT ![r] = task]
  BY DEF Launch, Moves
<1>4. Alone(r)
  BY DEF Free, Alone
<1> HIDE DEF task
<1> QED BY <1>1, <1>2, <1>3, <1>4, RunMoves

LEMMA LoadStep ==
  ASSUME ImportInv, restarts' = restarts, NEW r \in Run, Load(r) \/ GivesUp(r)
  PROVE  ImportInv'
<1>0. TypeOK
  BY DEF ImportInv
<1> DEFINE loaded == [NoExt EXCEPT !.at = "parse", !.todo = Pending]
<1>1. Alone(r)
  BY DEF Alone, ImportInv, OneRun, Load, GivesUp
<1>2. Pending \subseteq Page /\ (Pending # {} => deck.originals = N) /\ \A i \in Pending : results[i] = 0
  <2>1. ASSUME NEW i \in Pending PROVE i \in Page /\ deck.originals = N
    BY <1>0, DeckImportAssumption DEF Pending, TypeOK, Page
  <2>2. ASSUME NEW i \in Pending PROVE results[i] = 0
    <3>1. i \in 1..Len(slides) /\ slides[i].text = Null /\ i <= deck.originals
      BY DEF Pending
    <3>2. ~Gone
      BY <1>0, <3>1 DEF ImportInv, DeckOK, Gone, TypeOK
    <3> QED BY <2>1, <3>1, <3>2 DEF ImportInv, ResultsOK
  <2> QED BY <2>1, <2>2
<1>3. loaded \in Task /\ TaskOK(loaded)
  BY <1>2, NewTask
<1>4. ext' = [ext EXCEPT ![r] = NoExt] \/ ext' = [ext EXCEPT ![r] = loaded]
  BY DEF Load, GivesUp, Moves
<1>5. Still /\ ConvMoves
  BY DEF Still, ConvMoves, Load, GivesUp, NothingStored, NoConversion
<1> HIDE DEF loaded
<1> QED BY <1>1, <1>3, <1>4, <1>5, NoTask, RunMoves

LEMMA ParseStep ==
  ASSUME ImportInv, restarts' = restarts, NEW r \in Run, NEW parsed \in Parsed, Parse(r, parsed)
  PROVE  ImportInv'
<1>0. TypeOK /\ ext[r] \in Task /\ TaskOK(ext[r])
  BY DEF ImportInv, WorkOK, TypeOK
<1> DEFINE texts == IF Aligned(parsed) THEN parsed.of ELSE Unparsed.of
           task  == [ext[r] EXCEPT !.at = "write", !.parsed = texts]
<1>1. texts \in [Page -> 0..N]
  BY DeckImportAssumption DEF Parsed, Unparsed, Text, Page, Blank
<1>2. \A i \in Page : texts[i] \in {Blank, i}
  BY <1>0, ParsedText
<1>3. task \in Task /\ TaskOK(task)
  <2> HIDE DEF texts
  <2> QED BY <1>0, <1>1, <1>2 DEF Parse, Task, TaskOK, Left
<1>4. ext' = [ext EXCEPT ![r] = task] /\ Still /\ ConvMoves
  BY DEF Still, ConvMoves, Parse, Moves, NothingStored, NoConversion
<1>5. Alone(r)
  BY DEF Alone, ImportInv, OneRun, Parse
<1> HIDE DEF task
<1> QED BY <1>3, <1>4, <1>5, RunMoves

LEMMA PageStep ==
  ASSUME ImportInv, restarts' = restarts, NEW r \in Run, NEW i \in Page,
         WriteFails(r, i) \/ LeaveToReading(r, i) \/ ReadFails(r, i)
  PROVE  ImportInv'
<1>0. TypeOK /\ ext[r] \in Task /\ TaskOK(ext[r])
  BY DEF ImportInv, WorkOK, TypeOK
<1>1. Still /\ ConvMoves
  BY DEF Still, ConvMoves, WriteFails, LeaveToReading, ReadFails, NothingStored, NoConversion
<1>2. ext[r].at # "off"
  BY <1>0 DEF WriteFails, LeaveToReading, ReadFails, Writes, Answered, TaskOK, Left
<1>3. Alone(r)
  BY <1>2 DEF Alone, ImportInv, OneRun
<1>4. CASE WriteFails(r, i)
  <2> DEFINE task == [ext[r] EXCEPT !.todo = @ \ {i}]
  <2>1. task \in Task /\ TaskOK(task)
    BY <1>0 DEF Task, TaskOK, Left
  <2>2. ext' = [ext EXCEPT ![r] = task]
    BY <1>4 DEF WriteFails, Moves
  <2> HIDE DEF task
  <2> QED BY <1>1, <1>3, <2>1, <2>2, RunMoves
<1>5. CASE LeaveToReading(r, i)
  <2> DEFINE task == [ext[r] EXCEPT !.todo = @ \ {i}, !.unread = @ \cup {i}]
  <2>1. i \in ext[r].todo /\ ext[r].at = "write"
    BY <1>0, <1>5, MinOfPages DEF LeaveToReading, Writes, Task
  <2>2. task \in Task /\ TaskOK(task)
    BY <1>0, <2>1 DEF Task, TaskOK, Left
  <2>3. ext' = [ext EXCEPT ![r] = task]
    BY <1>5 DEF LeaveToReading, Moves
  <2> HIDE DEF task
  <2> QED BY <1>1, <1>3, <2>2, <2>3, RunMoves
<1>6. CASE ReadFails(r, i)
  <2> DEFINE task == [ext[r] EXCEPT !.busy = @ \ {i}]
  <2>1. task \in Task /\ TaskOK(task)
    BY <1>0 DEF Task, TaskOK, Left
  <2>2. ext' = [ext EXCEPT ![r] = task]
    BY <1>6 DEF ReadFails, Answered, Moves
  <2> HIDE DEF task
  <2> QED BY <1>1, <1>3, <2>1, <2>2, RunMoves
<1> QED BY <1>4, <1>5, <1>6

LEMMA PoolStep ==
  ASSUME ImportInv, restarts' = restarts, NEW r \in Run, Written(r) \/ Take(r) \/ Finally(r)
  PROVE  ImportInv'
<1>0. TypeOK /\ ext[r] \in Task /\ TaskOK(ext[r])
  BY DEF ImportInv, WorkOK, TypeOK
<1>1. Still /\ ConvMoves
  BY DEF Still, ConvMoves, Written, Take, Finally, NothingStored, NoConversion
<1>2. Alone(r)
  BY DEF Alone, ImportInv, OneRun, Written, Take, Finally
<1>3. CASE Written(r)
  <2> DEFINE task == [NoExt EXCEPT !.at = "read", !.todo = Targets(ext[r].unread)]
  <2>1. Targets(ext[r].unread) \subseteq ext[r].unread
    BY DEF Targets
  <2>2. task \in Task /\ TaskOK(task)
    <3>1. Targets(ext[r].unread) \in SUBSET Page
      BY <1>0, <2>1 DEF Task
    <3>2. \A i \in Targets(ext[r].unread) : results[i] = 0
      BY <1>0, <2>1 DEF TaskOK, Left
    <3>3. Targets(ext[r].unread) # {} => deck.originals = N \/ Gone
      BY <1>0, <2>1 DEF TaskOK, Left
    <3> QED BY <3>1, <3>2, <3>3, NewTask
  <2>3. ext' = [ext EXCEPT ![r] = NoExt] \/ ext' = [ext EXCEPT ![r] = task]
    BY <1>3 DEF Written, Moves
  <2> HIDE DEF task
  <2> QED BY <1>1, <1>2, <2>2, <2>3, NoTask, RunMoves
<1>4. CASE Take(r)
  <2> DEFINE i    == Min(ext[r].todo)
             task == [ext[r] EXCEPT !.todo = @ \ {i}, !.busy = IF i \in images THEN @ \cup {i} ELSE @]
  <2>1. i \in ext[r].todo
    BY <1>0, <1>4, MinOfPages DEF Take, Task
  <2>2. ext' = [ext EXCEPT ![r] = task] /\ ext[r].at = "read"
    BY <1>4 DEF Take, Moves
  <2> HIDE DEF i
  <2>3. task \in Task /\ TaskOK(task)
    BY <1>0, <2>1, <2>2 DEF Task, TaskOK, Left
  <2> HIDE DEF task
  <2> QED BY <1>1, <1>2, <2>2, <2>3, RunMoves
<1>5. CASE Finally(r)
  <2>1. ext' = [ext EXCEPT ![r] = NoExt]
    BY <1>5 DEF Finally, Moves
  <2> QED BY <1>1, <1>2, <2>1, NoTask, RunMoves
<1> QED BY <1>3, <1>4, <1>5

(* The text of a page that is still to do is stored.                         *)
LEMMA TextStored ==
  ASSUME ImportInv, UNCHANGED <<deck, images, job, restarts, conv>>,
         NEW r \in Run, Alone(r), NEW i \in Page, NEW text \in {Blank, i}, SetText(i, text),
         NEW task \in Task, TaskOK(task), ext' = [ext EXCEPT ![r] = task],
         i \in Left(ext[r]), i \notin Left(task), Left(task) \subseteq Left(ext[r])
  PROVE  ImportInv'
<1>0. TypeOK /\ Len(slides) \in Nat /\ TaskOK(ext[r])
  BY DEF ImportInv, TypeOK, WorkOK
<1>1. \A s \in Run : ext'[s] = IF s = r THEN task ELSE ext[s]
  BY <1>0 DEF TypeOK
<1>2. \A s \in Run : s # r => Left(ext[s]) = {}
  BY DEF Alone, ImportInv, WorkOK, TaskOK
<1>3. results[i] = 0
  BY <1>0 DEF TaskOK
<1>4. text # Null /\ text \in 0..(N + 1)
  BY DeckImportAssumption DEF Null, Page, Blank
<1>5. DeckOK' /\ OneRun'
  <2>1. slides = <<>> => slides' = slides
    BY DEF SetText, Page
  <2> QED BY <1>1, <2>1 DEF ImportInv, DeckOK, OneRun, Alone
<1>6. CASE ~(i <= Len(slides))
  <2>1. slides' = slides /\ results' = results
    BY <1>6 DEF SetText
  <2> QED BY <1>0, <2>1, RunMoves DEF Still, ConvMoves
<1>7. CASE i <= Len(slides)
  <2> DEFINE row == [slides[i] EXCEPT !.text = text]
  <2>0. i \in 1..Len(slides)
    BY <1>0, <1>7 DEF Page
  <2>1. slides[i] \in Slide
    BY <1>0, <2>0 DEF TypeOK
  <2>2. row \in Slide /\ row.text = text /\ row.original = slides[i].original /\ row.shows = slides[i].shows
    BY <1>4, <2>1 DEF Slide
  <2>3. slides' = [slides EXCEPT ![i] = row] /\ results' = [results EXCEPT ![i] = @ + 1]
    BY <1>7 DEF SetText
  <2> HIDE DEF row
  <2>4. slides' \in Seq(Slide) /\ Len(slides') = Len(slides)
        /\ \A k \in 1..Len(slides) : slides'[k] = IF k = i THEN row ELSE slides[k]
    BY <1>0, <2>0, <2>2, <2>3, RowWritten DEF TypeOK
  <2>5. results' \in [Page -> Nat] /\ results'[i] = 1 /\ \A p \in Page \ {i} : results'[p] = results[p]
    BY <1>0, <1>3, <2>3 DEF TypeOK
  <2>6. ~Gone /\ deck.originals = N
    <3>1. ~Gone
      BY <1>0, <2>0 DEF ImportInv, DeckOK, Gone
    <3> QED BY <1>0, <3>1 DEF TaskOK
  <2>7. TypeOK'
    BY <1>0, <2>4, <2>5 DEF TypeOK
  <2>8. \A k \in 0..Len(slides) : Originals(k)' = Originals(k)
    BY <2>2, <2>4, OriginalsSame
  <2>9. RowsOK'
    <3>1. Len(slides) \in 0..Len(slides)
      BY <1>0
    <3> QED BY <2>2, <2>4, <2>8, <3>1 DEF ImportInv, RowsOK, Exists
  <2>10. TextsOK'
    BY <2>2, <2>4, <2>6 DEF ImportInv, TextsOK
  <2>11. WorkOK'
    <3>1. ASSUME NEW j \in Left(task) PROVE results'[j] = 0
      <4>1. j \in Page /\ j # i /\ results[j] = 0
        BY DEF TaskOK, Left, Task
      <4> QED BY <2>5, <4>1
    <3>2. TaskOK(task)'
      BY <2>6, <3>1 DEF TaskOK, Gone
    <3>3. ASSUME NEW s \in Run, s # r PROVE TaskOK(ext[s])'
      BY <1>1, <1>2, <3>3 DEF ImportInv, WorkOK, TaskOK, Left
    <3> QED BY <1>1, <3>2, <3>3 DEF WorkOK, TaskOK, Left
  <2>12. ResultsOK'
    <3>1. ASSUME NEW p \in Page
          PROVE  /\ results'[p] \in 0..1
                 /\ results'[p] = 1 => p <= Len(slides') /\ slides'[p].text # Null
      <4>1. CASE p = i
        BY <1>4, <2>0, <2>2, <2>4, <2>5, <4>1
      <4>2. CASE p # i
        BY <1>0, <2>4, <2>5, <2>6, <4>2 DEF ImportInv, ResultsOK, Page
      <4> QED BY <4>1, <4>2
    <3> QED BY <3>1 DEF ResultsOK
  <2> QED BY <1>5, <2>7, <2>9, <2>10, <2>11, <2>12 DEF ImportInv
<1> QED BY <1>6, <1>7

LEMMA StoreStep ==
  ASSUME ImportInv, restarts' = restarts, NEW r \in Run, NEW i \in Page, WritePage(r, i) \/ ReadPage(r, i)
  PROVE  ImportInv'
<1>0. TypeOK /\ ext[r] \in Task /\ TaskOK(ext[r])
  BY DEF ImportInv, WorkOK, TypeOK
<1>1. UNCHANGED <<deck, images, job, restarts, conv>>
  BY DEF WritePage, ReadPage, NoConversion
<1>2. CASE WritePage(r, i)
  <2> DEFINE task == [ext[r] EXCEPT !.todo = @ \ {i}]
             text == ext[r].parsed[i]
  <2>1. i \in ext[r].todo /\ ext[r].at = "write"
    BY <1>0, <1>2, MinOfPages DEF WritePage, Writes, Task
  <2>2. ext' = [ext EXCEPT ![r] = task] /\ SetText(i, text)
    BY <1>2 DEF WritePage, Moves
  <2>3. task \in Task /\ TaskOK(task)
    BY <1>0 DEF Task, TaskOK, Left
  <2>4. i \in Left(ext[r]) /\ i \notin Left(task) /\ Left(task) \subseteq Left(ext[r])
    BY <1>0, <2>1 DEF Task, TaskOK, Left
  <2>5. text \in {Blank, i}
    BY <1>0 DEF TaskOK
  <2>6. Alone(r)
    BY <2>1 DEF ImportInv, OneRun, Alone
  <2> HIDE DEF task, text
  <2> QED BY <1>1, <2>2, <2>3, <2>4, <2>5, <2>6, TextStored
<1>3. CASE ReadPage(r, i)
  <2> DEFINE task == [ext[r] EXCEPT !.busy = @ \ {i}]
  <2>1. i \in ext[r].busy
    BY <1>3 DEF ReadPage, Answered
  <2>2. ext' = [ext EXCEPT ![r] = task] /\ SetText(i, Text(i))
    BY <1>3 DEF ReadPage, Answered, Moves, Store
  <2>3. task \in Task /\ TaskOK(task)
    BY <1>0 DEF Task, TaskOK, Left
  <2>4. i \in Left(ext[r]) /\ i \notin Left(task) /\ Left(task) \subseteq Left(ext[r])
    BY <1>0, <2>1 DEF Task, TaskOK, Left
  <2>5. Text(i) \in {Blank, i}
    BY DEF Text
  <2>6. Alone(r)
    BY <1>0, <2>1 DEF ImportInv, OneRun, Alone, TaskOK, Left
  <2> HIDE DEF task
  <2> QED BY <1>1, <2>2, <2>3, <2>4, <2>5, <2>6, TextStored
<1> QED BY <1>2, <1>3
-----------------------------------------------------------------------------
(* Meanwhile. *)

LEMMA SupplementStep ==
  ASSUME ImportInv, restarts' = restarts, Supplement
  PROVE  ImportInv'
<1>0. TypeOK /\ Exists /\ AppendSlide(FALSE, Other) /\ UNCHANGED <<deck, ext, results, conv, job, images>>
  BY DEF ImportInv, Supplement, NoConversion, NoExtraction
<1>1. TypeOK'
  <2> DEFINE row == [original |-> FALSE, shows |-> Other, text |-> Null]
  <2>1. row \in Slide
    BY DeckImportAssumption DEF Slide, Null, Other
  <2>2. slides' = Append(slides, row)
    BY <1>0 DEF AppendSlide
  <2> HIDE DEF row
  <2> QED BY <1>0, <2>1, <2>2, RowAppended DEF TypeOK
<1>2. Cardinality(Originals(Len(slides))) \in Nat
  BY <1>0, OriginalsFinite DEF TypeOK
<1>3. conv.at \in Early => Cardinality(Originals(Len(slides))) = conv.page - 1
  BY <1>0 DEF ImportInv, RowsOK, Early
<1>4. conv'.at \in Early => conv'.page = Cardinality(Originals(Len(slides))) + 1
  BY <1>0, <1>2, <1>3 DEF TypeOK, Page
<1>5. Other \in 0..N
  BY DeckImportAssumption DEF Other
<1> QED BY <1>0, <1>1, <1>4, <1>5, SlideAppended

LEMMA UpdateStep ==
  ASSUME ImportInv, restarts' = restarts, NEW i \in 1..(N + MaxAppend), UpdateSlide(i)
  PROVE  ImportInv'
<1>0. TypeOK /\ Len(slides) \in Nat /\ i \in 1..Len(slides)
  BY DeckImportAssumption DEF ImportInv, TypeOK, UpdateSlide
<1> DEFINE row == [slides[i] EXCEPT !.shows = Other]
<1>1. slides[i] \in Slide /\ ~slides[i].original
  BY <1>0 DEF TypeOK, UpdateSlide, Editable
<1>2. row \in Slide /\ row.text = slides[i].text /\ row.original = slides[i].original /\ row.shows = Other
  BY <1>1, DeckImportAssumption DEF Slide, Other
<1>3. slides' = [slides EXCEPT ![i] = row] /\ UNCHANGED <<deck, ext, results, conv, job, images>>
  BY DEF UpdateSlide, NoConversion, NoExtraction
<1> HIDE DEF row
<1>4. slides' \in Seq(Slide) /\ Len(slides') = Len(slides)
      /\ \A k \in 1..Len(slides) : slides'[k] = IF k = i THEN row ELSE slides[k]
  BY <1>0, <1>2, <1>3, RowWritten DEF TypeOK
<1>5. TypeOK'
  BY <1>0, <1>3, <1>4 DEF TypeOK
<1>6. \A k \in 0..Len(slides) : Originals(k)' = Originals(k)
  BY <1>2, <1>4, OriginalsSame
<1>7. RowsOK'
  <2>1. Len(slides) \in 0..Len(slides)
    BY <1>0
  <2>2. \A k \in 1..Len(slides) : slides'[k].original = slides[k].original
    BY <1>2, <1>4
  <2>3. \A k \in 1..Len(slides) : slides[k].original => slides'[k] = slides[k]
    BY <1>1, <1>4
  <2>4. \A k \in 1..Len(slides) : ~slides[k].original => slides'[k].shows = Other
    BY <1>2, <1>4 DEF ImportInv, RowsOK
  <2> QED BY <1>3, <1>4, <1>6, <2>1, <2>2, <2>3, <2>4 DEF ImportInv, RowsOK, Exists
<1>8. \A k \in 1..Len(slides) : slides'[k].text = slides[k].text
  BY <1>2, <1>4
<1>9. DeckOK' /\ TextsOK' /\ WorkOK' /\ OneRun'
  <2>1. slides # <<>>
    BY <1>0
  <2> QED BY <1>3, <1>4, <1>8, <2>1 DEF ImportInv, DeckOK, TextsOK, WorkOK, TaskOK, OneRun, Left, Gone
<1>10. ResultsOK'
  BY <1>0, <1>3, <1>4, <1>8 DEF ImportInv, ResultsOK, Gone, Page
<1> QED BY <1>5, <1>7, <1>9, <1>10 DEF ImportInv

LEMMA DeleteStep ==
  ASSUME ImportInv, restarts' = restarts, DeleteDeck
  PROVE  ImportInv'
<1>1. slides' = <<>> /\ Gone' /\ ~Exists' /\ UNCHANGED <<ext, results, conv>> /\ deck'.status # "none"
  BY DEF DeleteDeck, NoExtraction, Gone, Exists
<1>2. TypeOK'
  BY DEF ImportInv, TypeOK, DeleteDeck, NoExtraction
<1>3. RowsOK' /\ DeckOK' /\ TextsOK'
  BY <1>1 DEF RowsOK, DeckOK, TextsOK
<1>4. WorkOK' /\ OneRun' /\ ResultsOK'
  BY <1>1 DEF ImportInv, WorkOK, TaskOK, Left, OneRun, ResultsOK
<1> QED BY <1>2, <1>3, <1>4 DEF ImportInv

LEMMA RestartStep ==
  ASSUME ImportInv, Restart
  PROVE  ImportInv'
<1>0. TypeOK /\ UNCHANGED <<slides, results, images>> /\ conv' = [at |-> "off", page |-> 1]
      /\ ext' = [r \in Run |-> NoExt]
  BY DEF ImportInv, Restart
<1>1. deck' = deck \/ (deck.status = "processing" /\ deck' = [deck EXCEPT !.status = "failed"])
  BY DEF Restart, FailDecks
<1>2. deck' \in [status : {"none", "processing", "ready", "failed", "deleted"}, originals : {0, N}]
      /\ deck'.originals = deck.originals /\ (Gone' <=> Gone) /\ (deck'.status = "none" => deck.status = "none")
  BY <1>0, <1>1 DEF TypeOK, Gone
<1>3. TypeOK'
  <2>1. conv' \in [at : Stage, page : Page]
    BY <1>0, DeckImportAssumption DEF Stage, Page
  <2>2. ext' \in [Run -> Task]
    BY <1>0, NoTask
  <2>3. job' \in {"none", "queued", "running", "done", "failed"} /\ restarts' \in 0..MaxRestart
    BY <1>0, DeckImportAssumption DEF TypeOK, Restart
  <2> QED BY <1>0, <1>2, <2>1, <2>2, <2>3 DEF TypeOK
<1>4. \A i \in 0..Len(slides) : Originals(i)' = Originals(i)
  BY <1>0, OriginalsSame
<1>5. RowsOK'
  BY <1>0, <1>4 DEF ImportInv, RowsOK, TypeOK
<1>6. DeckOK' /\ TextsOK' /\ ResultsOK'
  BY <1>0, <1>2 DEF ImportInv, DeckOK, TextsOK, ResultsOK, Gone
<1>7. WorkOK' /\ OneRun'
  BY <1>0 DEF WorkOK, TaskOK, Left, OneRun, NoExt
<1> QED BY <1>3, <1>5, <1>6, <1>7 DEF ImportInv
-----------------------------------------------------------------------------
LEMMA ImportStep == ImportInv /\ [Next]_vars => ImportInv'
<1> SUFFICES ASSUME ImportInv, [Next]_vars PROVE ImportInv'
  OBVIOUS
<1>1. ASSUME ExtractAfterImport, restarts' = restarts PROVE ImportInv'
  <2>0. TypeOK /\ conv.at = "extract" /\ UNCHANGED <<deck, slides, images, job>>
    BY <1>1 DEF ImportInv, ExtractAfterImport
  <2>1. \E stage \in {"wait", "done"} : conv' = [conv EXCEPT !.at = stage]
    BY <1>1 DEF ExtractAfterImport, Goes
  <2>2. conv' \in [at : Stage \ Early, page : Page]
    BY <2>0, <2>1 DEF TypeOK, Stage, Early
  <2>3. ConvMoves
    BY <2>0, <2>2 DEF ConvMoves, Early
  <2>4. CASE Free /\ Launch("import")
    BY <1>1, <2>0, <2>3, <2>4, LaunchStep DEF Still, Launch, Run
  <2>5. CASE NoExtraction
    <3>1. ext' = ext /\ results' = results /\ TypeOK'
      BY <2>0, <2>1, <2>2, <2>5, <1>1 DEF NoExtraction, TypeOK
    <3>2. conv'.at \notin Early /\ DeckOK'
      BY <2>0, <2>2 DEF ImportInv, DeckOK
    <3> QED BY <2>0, <3>1, <3>2, SlidesKept DEF Gone
  <2> QED BY <1>1, <2>4, <2>5 DEF ExtractAfterImport
<1>2. ASSUME Backfill, restarts' = restarts PROVE ImportInv'
  BY <1>2, LaunchStep DEF Backfill, Still, ConvMoves, Launch, NoConversion, Run
<1>3. ASSUME NEW r \in Run, Extraction(r) \/ GivesUp(r), restarts' = restarts PROVE ImportInv'
  BY <1>3, LoadStep, ParseStep, PageStep, PoolStep DEF Extraction
<1>4. ASSUME NEW r \in Run, NEW i \in Page, WritePage(r, i) \/ ReadPage(r, i) \/ ReadFails(r, i), restarts' = restarts
      PROVE  ImportInv'
  BY <1>4, StoreStep, PageStep
<1>5. CASE UNCHANGED vars
  <2>1. TypeOK' /\ DeckOK'
    BY <1>5 DEF ImportInv, TypeOK, DeckOK, vars
  <2>2. Exists' /\ conv'.at \in Early => Cardinality(Originals(Len(slides))) = conv'.page - 1
    BY <1>5 DEF ImportInv, RowsOK, Exists, Early, vars
  <2> QED BY <1>5, <2>1, <2>2, SlidesKept DEF vars, Gone
<1> QED
  BY <1>1, <1>2, <1>3, <1>4, <1>5, ConversionStep, SupplementStep, UpdateStep, DeleteStep, RestartStep DEF Next

LEMMA ImportAlways == Spec => []ImportInv
BY ImportInit, ImportStep, PTL DEF Spec

(* Type correctness.                                                        *)
THEOREM TypeCorrect == Spec => []TypeOK
<1>1. ImportInv => TypeOK
  BY DEF ImportInv
<1> QED BY <1>1, ImportAlways, PTL

(* A slide that came from the file shows its page, whatever a meeting, an    *)
(* edit or a conversion that broke off did around it.                        *)
THEOREM PagesStay == Spec => []OriginalsUntouched
<1>1. ImportInv => OriginalsUntouched
  BY DEF ImportInv, RowsOK, OriginalsUntouched, Page, Other
<1> QED BY <1>1, ImportAlways, PTL

(* The pages of the file are in the deck in its order, each once, wherever   *)
(* supplements came in between: also while the conversion goes on and after  *)
(* it broke off.                                                             *)
THEOREM PagesInOrder == Spec => []RowsOK
<1>1. ImportInv => RowsOK
  BY DEF ImportInv
<1> QED BY <1>1, ImportAlways, PTL

(* A page's text is stored once, by the import or by a later request, also   *)
(* across restarts.                                                          *)
THEOREM PaidOnce == Spec => []ReadOnce
<1>1. ImportInv => ReadOnce
  BY DEF ImportInv, ResultsOK, ReadOnce
<1> QED BY <1>1, ImportAlways, PTL

(* Where the pages are the front of the deck, the text on a slide is that of *)
(* the page it shows.                                                        *)
THEOREM TextMatchesPage == Spec => []TextOfItsPage
<1>1. ImportInv => TextOfItsPage
  <2> SUFFICES ASSUME ImportInv, InFront, NEW i \in 1..Len(slides), slides[i].text \notin {Null, Blank}
               PROVE  slides[i].text = slides[i].shows
    BY DEF TextOfItsPage
  <2>1. slides[i].text = i /\ i \in Page /\ deck.originals = N
    BY DEF ImportInv, TextsOK
  <2>2. \A k \in 1..i : slides[k].original
    BY <2>1, DeckImportAssumption DEF InFront, Page, ImportInv, TypeOK
  <2>3. Originals(i) = 1..i
    BY <2>2 DEF Originals
  <2>4. Cardinality(Originals(i)) = i
    BY <2>1, <2>3, FS_Interval DEF Page
  <2>5. slides[i].original
    BY <2>1, <2>2 DEF Page
  <2> QED BY <2>1, <2>4, <2>5 DEF ImportInv, RowsOK
<1> QED BY <1>1, ImportAlways, PTL
=============================================================================

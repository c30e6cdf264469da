------------------------------ MODULE DeckImport ------------------------------
(***************************************************************************)
(* The import of a presentation file (decks-routes/import-handler.ts,         *)
(* import/conversion-job.ts), the text of its pages (import/text-extract.ts)   *)
(* and what goes on over the same deck meanwhile: a meeting appends slides, a  *)
(* user edits or deletes the deck, the process dies.                          *)
(*                                                                           *)
(* One step is what one database call or one answer of the converter, the      *)
(* parser or the model brings about, as on Postgres.  Slides are counted from 1 *)
(* here and from 0 in the code.  The head of a meeting (I1) is left to          *)
(* DeckStore.                                                                 *)
(***************************************************************************)
EXTENDS Integers, Sequences, FiniteSetsExt

CONSTANTS
  N,           \* the pages of the file
  Lettered,    \* those that have text on them
  MaxPages,    \* TEXT_EXTRACT_VISION_MAX_PAGES
  Pool,        \* TEXT_EXTRACT_VISION_CONCURRENCY
  MaxAppend,   \* bound: the slides meetings append
  MaxRestart   \* bound: how often the process dies

ASSUME DeckImportAssumption ==
  /\ N \in Nat \ {0} /\ Lettered \subseteq 1..N
  /\ MaxPages \in Nat \ {0} /\ Pool \in Nat \ {0}
  /\ MaxAppend \in Nat /\ MaxRestart \in Nat

VARIABLES
  deck,      \* the row: import_status, original_count
  slides,    \* deck_slides: the kind, the page the spec shows, text_extract
  images,    \* the page_image assets, by page_index
  job,       \* import_jobs.status
  conv,      \* where the conversion is, and the page it is at
  ext,       \* the text extractions in flight
  results,   \* how often a text was stored for a page
  restarts

vars == <<deck, slides, images, job, conv, ext, results, restarts>>

Page  == 1..N
Blank == 0         \* '': read, and nothing is on it
Null  == N + 1     \* NULL: not read yet
Other == 0         \* a spec that shows no page of the file

Run    == {"import", "request"}   \* who started an extraction
NoExt  == [at |-> "off", parsed |-> [i \in Page |-> Blank], todo |-> {}, unread |-> {}, busy |-> {}]
Exists == deck.status \notin {"none", "deleted"}
Stage  == {"off", "store", "enqueue", "start", "raster", "asset", "slide", "lock", "ready",
           "extract", "wait", "done", "catchDeck", "catchJob"}

Slide == [original : BOOLEAN, shows : 0..N, text : 0..(N + 1)]
Task  == [at : {"off", "load", "parse", "write", "read"}, parsed : [Page -> 0..N],
          todo : SUBSET Page, unread : SUBSET Page, busy : SUBSET Page]

TypeOK ==
  /\ deck \in [status : {"none", "processing", "ready", "failed", "deleted"}, originals : {0, N}]
  /\ slides \in Seq(Slide)
  /\ images \subseteq Page /\ job \in {"none", "queued", "running", "done", "failed"}
  /\ conv \in [at : Stage, page : Page]
  /\ ext \in [Run -> Task]
  /\ results \in [Page -> Nat] /\ restarts \in 0..MaxRestart

Init ==
  /\ deck = [status |-> "none", originals |-> 0] /\ slides = <<>> /\ images = {} /\ job = "none"
  /\ conv = [at |-> "off", page |-> 1] /\ ext = [r \in Run |-> NoExt]
  /\ results = [p \in Page |-> 0] /\ restarts = 0

Goes(stage) == conv' = [conv EXCEPT !.at = stage]
NoConversion == UNCHANGED <<job, conv, images>>
NoExtraction == UNCHANGED <<ext, results>>

AppendSlide(original, page) ==
  slides' = Append(slides, [original |-> original, shows |-> page, text |-> Null])

(* setImportStatus and setJobStatus update no row once it is deleted.         *)
SetStatus(s) == deck' = IF Exists THEN [deck EXCEPT !.status = s] ELSE deck
SetJob(s)    == job' = IF job = "none" THEN job ELSE s
-----------------------------------------------------------------------------
(* POST /decks/import. *)
Create ==
  /\ deck.status = "none"
  /\ deck' = [deck EXCEPT !.status = "processing"] /\ Goes("store")
  /\ UNCHANGED <<slides, images, job>>

StoreSource ==
  /\ conv.at = "store" /\ Goes("enqueue") /\ UNCHANGED <<deck, slides, images, job>>

(* The job is inserted whether or not the deck is still there.               *)
Enqueue ==
  /\ conv.at = "enqueue" /\ job' = "queued" /\ Goes("start") /\ UNCHANGED <<deck, slides, images>>

(* Writing down that something failed may fail as well.                      *)
InitFails ==
  /\ conv.at \in {"store", "enqueue"} /\ (SetStatus("failed") \/ UNCHANGED deck) /\ Goes("off")
  /\ UNCHANGED <<slides, images, job>>

(* runConversionJob. *)
Start ==
  /\ conv.at = "start" /\ SetJob("running") /\ Goes("raster") /\ UNCHANGED <<deck, slides, images>>

(* Without its source file, which a deletion takes away, there is nothing to  *)
(* convert: Throws.                                                           *)
Rasterize ==
  /\ conv.at = "raster" /\ Exists /\ Goes("asset") /\ UNCHANGED <<deck, slides, images, job>>

InsertAsset ==
  /\ conv.at = "asset" /\ images' = images \cup {conv.page} /\ Goes("slide")
  /\ UNCHANGED <<deck, slides, job>>

AppendPage ==
  /\ conv.at = "slide" /\ Exists
  /\ AppendSlide(TRUE, conv.page)
  /\ conv' = IF conv.page < N THEN [at |-> "asset", page |-> conv.page + 1] ELSE [conv EXCEPT !.at = "lock"]
  /\ UNCHANGED <<deck, images, job>>

SetOriginalCount ==
  /\ conv.at = "lock"
  /\ deck' = IF Exists THEN [deck EXCEPT !.originals = N] ELSE deck
  /\ Goes("ready") /\ UNCHANGED <<slides, images, job>>

SetReady ==
  /\ conv.at = "ready" /\ SetStatus("ready") /\ Goes("extract") /\ UNCHANGED <<slides, images, job>>

Done ==
  /\ \/ conv.at = "done"
     \/ conv.at = "wait" /\ ext["import"].at = "off"
  /\ SetJob("done") /\ Goes("off") /\ UNCHANGED <<deck, slides, images>>

(* Any call may fail (a converter, a database error, a deck that is gone), the *)
(* very last one included, and the catch tries to write both states down, each *)
(* on its own.                                                                *)
Throws ==
  /\ \/ conv.at \in {"start", "raster", "asset", "slide", "lock", "ready", "done"}
     \/ conv.at = "wait" /\ ext["import"].at = "off"
  /\ Goes("catchDeck") /\ UNCHANGED <<deck, slides, images, job>>

CatchDeck ==
  /\ conv.at = "catchDeck" /\ (SetStatus("failed") \/ UNCHANGED deck) /\ Goes("catchJob")
  /\ UNCHANGED <<slides, images, job>>

CatchJob ==
  /\ conv.at = "catchJob" /\ (SetJob("failed") \/ UNCHANGED job) /\ Goes("off")
  /\ UNCHANGED <<deck, slides, images>>

Conversion ==
  /\ \/ Create \/ StoreSource \/ Enqueue \/ InitFails
     \/ Start \/ Rasterize \/ InsertAsset \/ AppendPage \/ SetOriginalCount \/ SetReady \/ Done
     \/ Throws \/ CatchDeck \/ CatchJob
  /\ NoExtraction
-----------------------------------------------------------------------------
(* runTextExtract, called at the end of the import and by a request: the deck *)
(* is in the inFlight set from the call on.                                   *)

(* pendingOriginals                                                          *)
Pending ==
  {i \in 1..Len(slides) : /\ slides[i].original /\ i <= deck.originals
                          /\ slides[i].text = Null}

Moves(r, to)  == ext' = [ext EXCEPT ![r] = to]
NothingStored == UNCHANGED <<deck, slides, results>> /\ NoConversion

(* Mutant: no look at the inFlight set.                                      *)
AlwaysFree == TRUE

Free == \A r \in Run : ext[r].at = "off"

Launch(r) == ext[r].at = "off" /\ Moves(r, [NoExt EXCEPT !.at = "load"]) /\ UNCHANGED results

(* The conversion calls it once the deck is ready, and waits for it; a call   *)
(* that finds the deck in flight returns at once.                             *)
ExtractAfterImport ==
  /\ conv.at = "extract"
  /\ IF Free THEN Launch("import") /\ Goes("wait") ELSE Goes("done") /\ NoExtraction
  /\ UNCHANGED <<deck, slides, images, job>>

(* POST /decks/:id/extract-text.                                             *)
Backfill ==
  /\ Free /\ deck.status = "ready" /\ Pending # {}
  /\ Launch("request") /\ UNCHANGED <<deck, slides>> /\ NoConversion

Load(r) ==
  /\ ext[r].at = "load"
  /\ Moves(r, IF deck.status = "ready" /\ Pending # {}
              THEN [NoExt EXCEPT !.at = "parse", !.todo = Pending] ELSE NoExt)
  /\ NothingStored

(* The rows cannot be read: logged.  Whatever else fails in there costs one    *)
(* page or the parser's texts.                                                *)
GivesUp(r) == ext[r].at = "load" /\ Moves(r, NoExt) /\ NothingStored

(* What the parser makes of the file: nothing; all of its pages; the pages    *)
(* without one, so that all later ones move up; or one page more, which the   *)
(* converter does not show (a hidden one), so that they move down.  That as   *)
(* many pages are the same pages is assumed.                                  *)
Unparsed == [count |-> 0, of |-> [i \in Page |-> Blank]]
Text(p)  == IF p \in Lettered THEN p ELSE Blank
Parsed   == {Unparsed, [count |-> N, of |-> [i \in Page |-> Text(i)]]}
              \cup {[count |-> N - 1, of |-> [i \in Page |-> IF i < q THEN Text(i)
                                                             ELSE IF i < N THEN Text(i + 1) ELSE Blank]] : q \in Page}
              \cup {[count |-> N + 1, of |-> [i \in Page |-> IF i < q THEN Text(i)
                                                             ELSE IF i > q THEN Text(i - 1) ELSE Blank]] : q \in Page}

(* Mutant: texts are written whatever their number.                          *)
AlignedAnyway(parsed) == TRUE

Aligned(parsed) == parsed.count = deck.originals

Parse(r, parsed) ==
  /\ ext[r].at = "parse"
  /\ Moves(r, [ext[r] EXCEPT !.at = "write", !.parsed = IF Aligned(parsed) THEN parsed.of ELSE Unparsed.of])
  /\ NothingStored

(* setSlideTextExtract                                                       *)
SetText(i, text) ==
  /\ slides' = IF i <= Len(slides) THEN [slides EXCEPT ![i].text = text] ELSE slides
  /\ results' = IF i <= Len(slides) THEN [results EXCEPT ![i] = @ + 1] ELSE results

(* One page after the other: enough text is stored, or that fails and the     *)
(* page stays NULL; the rest is left to reading the image.                    *)
Writes(r, i) == ext[r].at = "write" /\ ext[r].todo # {} /\ i = Min(ext[r].todo)

WritePage(r, i) ==
  /\ Writes(r, i) /\ ext[r].parsed[i] # Blank
  /\ SetText(i, ext[r].parsed[i])
  /\ Moves(r, [ext[r] EXCEPT !.todo = @ \ {i}]) /\ UNCHANGED deck /\ NoConversion

WriteFails(r, i) ==
  /\ Writes(r, i) /\ ext[r].parsed[i] # Blank
  /\ Moves(r, [ext[r] EXCEPT !.todo = @ \ {i}]) /\ NothingStored

LeaveToReading(r, i) ==
  /\ Writes(r, i) /\ ext[r].parsed[i] = Blank
  /\ Moves(r, [ext[r] EXCEPT !.todo = @ \ {i}, !.unread = @ \cup {i}]) /\ NothingStored

(* No more than MaxPages images in one go: the first ones.                   *)
Targets(unread) == {i \in unread : Cardinality({k \in unread : k < i}) < MaxPages}

Written(r) ==
  /\ ext[r].at = "write" /\ ext[r].todo = {}
  /\ Moves(r, IF ext[r].unread = {} THEN NoExt
              ELSE [NoExt EXCEPT !.at = "read", !.todo = Targets(ext[r].unread)])
  /\ NothingStored

(* A worker of the pool takes the next page; without an image it leaves it.   *)
Take(r) ==
  /\ ext[r].at = "read" /\ ext[r].todo # {} /\ Cardinality(ext[r].busy) < Pool
  /\ LET i == Min(ext[r].todo) IN
       Moves(r, [ext[r] EXCEPT !.todo = @ \ {i}, !.busy = IF i \in images THEN @ \cup {i} ELSE @])
  /\ NothingStored

(* The answer is stored, also when it is empty.                              *)
(* Mutant: an empty answer is not.                                           *)
StoreLetters(i) ==
  IF Text(i) # Blank THEN SetText(i, Text(i)) ELSE UNCHANGED <<slides, results>>

Store(i) == SetText(i, Text(i))

Answered(r, i) == i \in ext[r].busy /\ Moves(r, [ext[r] EXCEPT !.busy = @ \ {i}])

ReadPage(r, i) == Answered(r, i) /\ Store(i) /\ UNCHANGED deck /\ NoConversion

ReadFails(r, i) == Answered(r, i) /\ NothingStored

Finally(r) ==
  /\ ext[r].at = "read" /\ ext[r].todo = {} /\ ext[r].busy = {}
  /\ Moves(r, NoExt) /\ NothingStored
-----------------------------------------------------------------------------
(* Meanwhile. *)

(* A meeting over the deck accepts a supplement slide.  The copilot page       *)
(* offers every deck, and the server does not ask for its state either.       *)
Supplement ==
  /\ Exists
  /\ Cardinality({i \in 1..Len(slides) : ~slides[i].original}) < MaxAppend
  /\ AppendSlide(FALSE, Other)
  /\ UNCHANGED deck /\ NoConversion /\ NoExtraction

(* PATCH /decks/:id/slides/:index: neither a page of the locked front nor any *)
(* other that came from the file.                                             *)
(* Mutant: only the locked front is guarded.                                  *)
EditableBehindFront(i) == i > deck.originals

Editable(i) == i > deck.originals /\ ~slides[i].original

UpdateSlide(i) ==
  /\ Exists /\ i <= Len(slides) /\ Editable(i)
  /\ slides' = [slides EXCEPT ![i].shows = Other]
  /\ UNCHANGED deck /\ NoConversion /\ NoExtraction

DeleteDeck ==
  /\ Exists
  /\ deck' = [status |-> "deleted", originals |-> 0]
  /\ slides' = <<>> /\ images' = {} /\ job' = "none"
  /\ UNCHANGED conv /\ NoExtraction

(* The process dies; the next one fails the jobs and the decks that are left. *)
FailDecks == deck' = IF deck.status = "processing" THEN [deck EXCEPT !.status = "failed"] ELSE deck

Restart ==
  /\ restarts < MaxRestart /\ restarts' = restarts + 1
  /\ job' = IF job \in {"queued", "running"} THEN "failed" ELSE job
  /\ FailDecks
  /\ conv' = [at |-> "off", page |-> 1] /\ ext' = [r \in Run |-> NoExt]
  /\ UNCHANGED <<slides, images, results>>

Extraction(r) ==
  \/ Load(r) \/ (\E parsed \in Parsed : Parse(r, parsed))
  \/ (\E i \in Page : WriteFails(r, i) \/ LeaveToReading(r, i))
  \/ Written(r) \/ Take(r) \/ Finally(r)

Next ==
  \/ Restart
  \/ /\ \/ Conversion \/ ExtractAfterImport \/ Backfill
        \/ \E r \in Run : \/ Extraction(r) \/ GivesUp(r)
                           \/ \E i \in Page : WritePage(r, i) \/ ReadPage(r, i) \/ ReadFails(r, i)
        \/ Supplement \/ (\E i \in 1..(N + MaxAppend) : UpdateSlide(i)) \/ DeleteDeck
     /\ UNCHANGED restarts

(* The process goes on, converter, parser and model answer or run into their  *)
(* timeouts, somebody asks for the texts again while some are missing, and    *)
(* what is tried again and again (a query, a page) succeeds at last.           *)
Live(A) == A /\ UNCHANGED restarts

Fairness ==
  /\ WF_vars(Live(Conversion)) /\ WF_vars(Live(ExtractAfterImport)) /\ WF_vars(Live(Backfill))
  /\ \A r \in Run : WF_vars(Live(Extraction(r))) /\ SF_vars(Live(Load(r)))
  /\ \A i \in Page : SF_vars(Live(\E r \in Run : WritePage(r, i) \/ ReadPage(r, i)))

Spec     == Init /\ [][Next]_vars
FairSpec == Spec /\ Fairness
-----------------------------------------------------------------------------
(* Safety *)

(* A page that came from the file shows that page, in every state of the      *)
(* import: also when the conversion failed half-way and the front was never    *)
(* locked.                                                                    *)
OriginalsUntouched == \A i \in 1..Len(slides) : slides[i].original => slides[i].shows # Other

(* Where the file's pages are the front of the deck, the text stored for a     *)
(* slide is the text of the page it shows, also when the parser saw more or    *)
(* fewer pages than there are, and whichever way the text came.               *)
InFront == \A i \in 1..Len(slides) : i <= deck.originals => slides[i].original

TextOfItsPage ==
  InFront => \A i \in 1..Len(slides) :
    slides[i].text \notin {Null, Blank} => slides[i].text = slides[i].shows

(* No text is stored twice: a page that has its text, or the mark that it has *)
(* none, is not read again by any run.  (One whose store failed is.)          *)
ReadOnce == \A p \in Page : results[p] <= 1

(* The pages of the file are the front of the deck, in its order              *)
(* (repos-decks.ts: the originals in front, the supplements behind them).     *)
OriginalsInFront ==
  deck.status = "ready" => \A i \in 1..Len(slides) : slides[i].original = (i <= deck.originals)

(* A deleted deck leaves no image behind once the conversion is over          *)
(* (repos-decks.ts, delete).                                                  *)
NothingLeftBehind == deck.status = "deleted" /\ conv.at = "off" => images = {}
-----------------------------------------------------------------------------
(* Liveness *)

(* Every page of a converted deck gets its text or the mark that it has none, *)
(* also beyond the limit of one run (text-extract.ts: no page starves), as    *)
(* long as users ask for the rest and no page fails for ever.                 *)
EveryPageRead == deck.status = "ready" ~> (Pending = {} \/ deck.status # "ready")
=============================================================================

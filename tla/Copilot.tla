------------------------------- MODULE Copilot -------------------------------
(***************************************************************************)
(* What the copilot makes of one meeting's transcript: the rolling window    *)
(* and the single-flight analysis (gemini-analysis.ts), and what each batch  *)
(* of signals sets going in CrmCopilotOrchestrator (realtime/orchestrator.ts *)
(* and retrieval.ts): CRM cards, research, a suggested slide.  They overlap  *)
(* freely; per-meeting maps keep them within their limits.                   *)
(*                                                                          *)
(* Time is counted in Ticks for what is made of a slide, which is given up   *)
(* Deadline Ticks after the model was asked; the database has answered       *)
(* before that within Reads of them.  Any other call may take any time.      *)
(***************************************************************************)
EXTENDS Integers, Sequences, FiniteSets

CONSTANTS
  Job,           \* bound: calls in flight at a time
  Entity,        \* CRM entities the index holds of this company
  SlideLimit,    \* supplementAutoLimitPerMeeting
  Quota,         \* researchAutoLimitPerMeeting
  Throttle,      \* SUPPLEMENT_THROTTLE_MS (40 s), in Ticks
  Deadline,      \* SUPPLEMENT_DEADLINE_MS (20 s), in Ticks
  Reads,         \* bound: Ticks the two reads before a generation may take
  MaxAge,        \* WINDOW_MAX_AGE_MS, in the units of a segment's t
  MaxChars,      \* WINDOW_MAX_CHARS
  MaxT,          \* bound on the audio clock
  SegmentChars,  \* lengths of a segment
  MaxRuntimes    \* bound on the runtimes the meeting gets

ASSUME CopilotAssumption ==
  /\ SlideLimit \in Nat \ {0} /\ Quota \in Nat /\ Throttle \in Nat
  /\ Deadline \in Nat /\ Reads \in Nat /\ Reads + Deadline < Throttle
  /\ MaxAge \in Nat /\ MaxChars \in Nat /\ MaxT \in Nat /\ SegmentChars \subseteq Nat
  /\ MaxRuntimes \in Nat \ {0}

VARIABLES
  live, made, bound,        \* the runtime; bound: it knows the company
  window, analyzing,        \* the engine's
  job,                      \* what each call in flight does, a slide's for how long already
  seen,                     \* cardedEntities
  suggestCount, sinceSlide, \* suggestCount; the age of lastSuggestAt
  research,                 \* runtime.research, what is left of the quota
  cards                     \* history: cards sent per entity in the life of this runtime

maps    == <<seen, suggestCount, sinceSlide, research>>
vars    == <<live, made, bound, window, analyzing, job, maps, cards>>

Segment == [t : 0..MaxT, chars : SegmentChars]
None == [kind |-> "none", age |-> 0, hits |-> {}]
Started(kind) == [kind |-> kind, age |-> 0, hits |-> {}]

TypeOK ==
  /\ live \in BOOLEAN /\ made \in 1..MaxRuntimes /\ bound \in BOOLEAN
  /\ window \in Seq(Segment) /\ analyzing \in BOOLEAN
  /\ job \in [Job -> [kind : {"none", "embed", "trust", "research", "reads", "slide"},
                      age : 0..Throttle, hits : SUBSET Entity]]
  /\ seen \subseteq Entity
  /\ suggestCount \in Nat /\ sinceSlide \in 0..Throttle /\ research \in 0..Quota
  /\ cards \in [Entity -> Nat]

Init ==
  /\ live = TRUE /\ made = 1 /\ bound = TRUE
  /\ window = <<>> /\ analyzing = FALSE
  /\ job = [j \in Job |-> None]
  /\ seen = {} /\ suggestCount = 0 /\ sinceSlide = Throttle /\ research = Quota
  /\ cards = [e \in Entity |-> 0]
-----------------------------------------------------------------------------
(* trimWindow: by age against the segment that came last, then by the        *)
(* characters counted from the end; the last segment always stays.           *)
Newest(w) == w[Len(w)]

(* Mutant: old segments are taken off the front until a young one is met.    *)
FreshFromFront(w) ==
  LET young(n) == Newest(w).t - w[n].t <= MaxAge
      first == CHOOSE n \in 1..Len(w) : young(n) /\ \A k \in 1..(n - 1) : ~young(k)
  IN  SubSeq(w, first, Len(w))

Young(w) == {n \in 1..Len(w) : Newest(w).t - w[n].t <= MaxAge}
Nth(S, k) == CHOOSE n \in S : Cardinality({m \in S : m <= n}) = k

Fresh(w) == [k \in 1..Cardinality(Young(w)) |-> w[Nth(Young(w), k)]]

Chars[w \in Seq(Segment)] == IF w = <<>> THEN 0 ELSE Head(w).chars + Chars[Tail(w)]

Affordable(w, n) == Chars[SubSeq(w, n, Len(w))] <= MaxChars

Trim(w) ==
  LET f == Fresh(w)
      from == {n \in 1..Len(f) : n = Len(f) \/ Affordable(f, n)}
  IN  SubSeq(f, CHOOSE n \in from : \A k \in from : n <= k, Len(f))

Ingest(s) ==
  /\ live
  /\ window' = Trim(Append(window, s))
  /\ UNCHANGED <<live, made, bound, analyzing, job, maps, cards>>

(* maybeAnalyze: one at a time.  (The 5 s throttle is a choice here.)         *)
Analyze ==
  /\ live /\ window # <<>> /\ ~analyzing /\ analyzing' = TRUE
  /\ UNCHANGED <<live, made, bound, window, job, maps, cards>>

AnalysisFails ==
  /\ analyzing /\ analyzing' = FALSE
  /\ UNCHANGED <<live, made, bound, window, job, maps, cards>>
-----------------------------------------------------------------------------
Free == {j \in Job : job[j] = None}

(* maybeSuggestSlide: quota and throttle, checked and occupied at once.      *)
(* Mutant: the throttle window is occupied when the slide is there.          *)
MaySuggestUnthrottled == suggestCount < SlideLimit

MaySuggest == suggestCount < SlideLimit /\ sinceSlide >= Throttle

(* onSignals: a retrieval always, a research on a competitor or an objection *)
(* while the quota lasts, a slide on a signal that is worth one, for which   *)
(* two reads come first.                                                     *)
OnSignals(wantsResearch, wantsSlide) ==
  /\ analyzing /\ analyzing' = FALSE
  /\ IF ~live THEN UNCHANGED <<job, maps, cards>>
     ELSE LET kinds == {"embed"}
                 \cup (IF wantsResearch /\ research > 0 THEN {"research"} ELSE {})
                 \cup (IF wantsSlide /\ MaySuggest THEN {"reads"} ELSE {})
          IN  /\ \E slot \in [kinds -> Free] :
                   /\ \A k, l \in kinds : slot[k] = slot[l] => k = l
                   /\ job' = [j \in Job |->
                                LET k == {kind \in kinds : slot[kind] = j}
                                IN  IF k = {} THEN job[j] ELSE Started(CHOOSE kind \in k : TRUE)]
              /\ research' = IF "research" \in kinds THEN research - 1 ELSE research
              /\ sinceSlide' = IF "reads" \in kinds THEN 0 ELSE sinceSlide
              /\ UNCHANGED <<seen, suggestCount, cards>>
  /\ UNCHANGED <<live, made, bound, window>>

(* The hud's deep_research.                                                  *)
DeepResearch(j) ==
  /\ live /\ research > 0 /\ job[j] = None
  /\ job' = [job EXCEPT ![j] = Started("research")]
  /\ research' = research - 1
  /\ UNCHANGED <<live, made, bound, window, analyzing, seen, suggestCount, sinceSlide, cards>>

Done(j) == job' = [job EXCEPT ![j] = None]

(* retrieveInfoCards: the hits that had no card in this meeting are marked   *)
(* in one go, before the trust of each is looked up.                         *)
(* Mutant: they are marked when their cards are sent.                        *)
MarkedLater(hits) == seen

Marked(hits) == seen \cup hits

(* What the index answers is limited to the meeting's whitelist, which is    *)
(* empty when the runtime does not know its company.                         *)
Embedded(j, hits) ==
  /\ job[j].kind = "embed" /\ (hits # {} => bound)
  /\ job' = [job EXCEPT ![j] = [kind |-> "trust", age |-> 0, hits |-> hits \ seen]]
  /\ seen' = Marked(hits)
  /\ UNCHANGED <<live, made, bound, window, analyzing, suggestCount, sinceSlide, research, cards>>

CardsSent(j) ==
  /\ job[j].kind = "trust" /\ Done(j)
  /\ cards' = [e \in Entity |-> IF e \in job[j].hits THEN cards[e] + 1 ELSE cards[e]]
  /\ seen' = seen \cup job[j].hits
  /\ UNCHANGED <<live, made, bound, window, analyzing, suggestCount, sinceSlide, research>>

(* The name of the company and the last page of the deck are read, neither   *)
(* under a deadline, and the model is asked.                                 *)
ReadsDone(j) ==
  /\ job[j].kind = "reads"
  /\ job' = [job EXCEPT ![j] = Started("slide")]
  /\ UNCHANGED <<live, made, bound, window, analyzing, maps, cards>>

(* The slide counts when it is there; patch.suggest drops it without a       *)
(* runtime.                                                                  *)
SlideGenerated(j) ==
  /\ job[j].kind = "slide" /\ Done(j)
  /\ suggestCount' = suggestCount + 1
  /\ UNCHANGED <<live, made, bound, window, analyzing, seen, sinceSlide, research, cards>>

(* A call may fail or run into its deadline, except where an error is caught *)
(* on the way; a research that is over changes nothing here either way.      *)
Fails(j) ==
  /\ job[j] # None /\ job[j].kind \notin {"trust", "reads"} /\ Done(j)
  /\ UNCHANGED <<live, made, bound, window, analyzing, maps, cards>>

(* Time passes, unless something that is made of a slide is due before.      *)
MayTake(kind) == IF kind = "reads" THEN Reads ELSE Deadline

Timed(j) == job[j].kind \in {"reads", "slide"}

Tick ==
  /\ \A j \in Job : Timed(j) => job[j].age < MayTake(job[j].kind)
  /\ job' = [j \in Job |-> IF Timed(j) THEN [job[j] EXCEPT !.age = @ + 1] ELSE job[j]]
  /\ sinceSlide' = IF sinceSlide < Throttle THEN sinceSlide + 1 ELSE sinceSlide
  /\ UNCHANGED <<live, made, bound, window, analyzing, seen, suggestCount, research, cards>>
-----------------------------------------------------------------------------
Forgotten ==
  /\ window' = <<>> /\ suggestCount' = 0 /\ sinceSlide' = Throttle

(* The meeting ends: disposeSession of hub and orchestrator.  What is in     *)
(* flight goes on, and still shares the set of entities it was given.        *)
End ==
  /\ live /\ live' = FALSE /\ Forgotten
  /\ UNCHANGED <<made, bound, analyzing, job, seen, research, cards>>

(* The runtime of a room that has been empty for five minutes is reclaimed,  *)
(* or the process restarts, and a connection makes a new one.  Nothing is in *)
(* flight any more; the binding is lost.                                     *)
Rematerialise ==
  /\ live /\ Free = Job /\ ~analyzing
  /\ made < MaxRuntimes /\ made' = made + 1 /\ bound' = FALSE
  /\ Forgotten /\ seen' = {} /\ research' = Quota
  /\ cards' = [e \in Entity |-> 0]
  /\ UNCHANGED <<live, analyzing, job>>

Next ==
  \/ \E s \in Segment : Ingest(s)
  \/ Analyze \/ AnalysisFails
  \/ \E r, s \in BOOLEAN : OnSignals(r, s)
  \/ \E j \in Job : \/ DeepResearch(j) \/ CardsSent(j) \/ ReadsDone(j) \/ SlideGenerated(j) \/ Fails(j)
                    \/ \E hits \in SUBSET Entity : Embedded(j, hits)
  \/ Tick \/ End \/ Rematerialise

Spec == Init /\ [][Next]_vars
-----------------------------------------------------------------------------
(* Safety (supplementAutoLimitPerMeeting): generations overlap with          *)
(* analyses, and the quota is checked before one and counted after it; the   *)
(* limit is kept all the same, because the throttle is longer than the reads *)
(* and the generation take together.                                         *)
SlidesWithinLimit == suggestCount <= SlideLimit

(* Safety (cardedEntities): however retrievals overlap, an entity has one    *)
(* card in the life of a runtime.                                            *)
OneCardPerEntity == \A e \in Entity : cards[e] <= 1

(* Safety (trimWindow): no segment in the window is too old for the one that *)
(* came last, in whatever order transcriptions arrive.                       *)
NoStaleSegment ==
  \A n \in 1..Len(window) : Newest(window).t - window[n].t <= MaxAge
=============================================================================

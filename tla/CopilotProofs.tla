---------------------------- MODULE CopilotProofs ----------------------------
(***************************************************************************)
(* What the copilot keeps to in a meeting, for any number of calls in         *)
(* flight, entities and segments and any limits that CopilotAssumption        *)
(* allows: the quota of suggested slides, one card for an entity, and a       *)
(* window without stale segments.                                             *)
(***************************************************************************)
EXTENDS Copilot, FiniteSetTheorems, SequenceTheorems, WellFoundedInduction, TLAPS

Call == [kind : {"none", "embed", "trust", "research", "reads", "slide"}, age : 0..Throttle,
         hits : SUBSET Entity]

(* The part of TypeOK that the limits rest on.                               *)
MapsType ==
  /\ live \in BOOLEAN /\ made \in 1..MaxRuntimes /\ bound \in BOOLEAN /\ analyzing \in BOOLEAN
  /\ job \in [Job -> Call]
  /\ seen \subseteq Entity
  /\ suggestCount \in Nat /\ sinceSlide \in 0..Throttle /\ research \in 0..Quota
  /\ cards \in [Entity -> Nat]

(* One slide is being made at a time: the throttle of a live meeting is as   *)
(* old as the reads, and at most by these older than the generation; both    *)
(* are over before the throttle is.                                          *)
SlideOK ==
  /\ \A i, j \in Job : Timed(i) /\ Timed(j) => i = j
  /\ \A j \in Job : Timed(j) =>
       /\ suggestCount < SlideLimit
       /\ job[j].age <= MayTake(job[j].kind)
       /\ live => sinceSlide <= (IF job[j].kind = "slide" THEN Reads ELSE 0) + job[j].age
  /\ suggestCount <= SlideLimit

(* What a look-up of trust is about was marked for it alone, before any card.*)
CardOK ==
  /\ \A j \in Job : job[j].kind = "trust" =>
       /\ job[j].hits \subseteq seen
       /\ \A e \in job[j].hits : cards[e] = 0
       /\ \A i \in Job : job[i].kind = "trust" /\ i # j => job[i].hits \cap job[j].hits = {}
  /\ \A e \in Entity : cards[e] \in 0..1 /\ (cards[e] = 1 => e \in seen)

LimitsInv == MapsType /\ SlideOK /\ CardOK

LEMMA LimitsInit == Init => LimitsInv
<1> SUFFICES ASSUME Init PROVE LimitsInv
  OBVIOUS
<1>1. live \in BOOLEAN /\ bound \in BOOLEAN /\ analyzing \in BOOLEAN
  BY Zenon DEF Init
<1>2. \A j \in Job : job[j].kind = "none"
  BY DEF Init, None
<1>3. job \in [Job -> Call]
  BY CopilotAssumption DEF Init, None, Call
<1>4. /\ made \in 1..MaxRuntimes /\ seen \subseteq Entity /\ cards \in [Entity -> Nat]
      /\ suggestCount = 0 /\ sinceSlide \in 0..Throttle /\ research \in 0..Quota
      /\ \A e \in Entity : cards[e] = 0
  BY CopilotAssumption DEF Init
<1>5. MapsType
  BY <1>1, <1>3, <1>4 DEF MapsType
<1>6. SlideOK /\ CardOK
  BY <1>2, <1>4, CopilotAssumption DEF SlideOK, CardOK, Timed
<1> QED BY <1>5, <1>6 DEF LimitsInv

(* A step of the window or of the analysis touches no map.                   *)
LEMMA WindowStep ==
  ASSUME LimitsInv, UNCHANGED <<live, made, bound, job, maps, cards>>, analyzing' \in BOOLEAN
  PROVE  LimitsInv'
<1>1. MapsType'
  BY DEF LimitsInv, MapsType, maps
<1>2. SlideOK' /\ CardOK'
  BY DEF LimitsInv, SlideOK, CardOK, Timed, maps
<1> QED BY <1>1, <1>2 DEF LimitsInv

(* What becomes of the calls when some are started.                          *)
LEMMA SignalStep ==
  ASSUME LimitsInv, NEW wantsResearch \in BOOLEAN, NEW wantsSlide \in BOOLEAN, OnSignals(wantsResearch, wantsSlide)
  PROVE  LimitsInv'
<1>0. MapsType /\ analyzing' \in BOOLEAN /\ UNCHANGED <<live, made, bound>>
  BY DEF LimitsInv, OnSignals
<1>1. CASE ~live
  BY <1>0, <1>1, WindowStep DEF OnSignals
<1>2. CASE live
  <2> DEFINE kinds == {"embed"} \cup (IF wantsResearch /\ research > 0 THEN {"research"} ELSE {})
                        \cup (IF wantsSlide /\ MaySuggest THEN {"reads"} ELSE {})
  <2>1. PICK slot \in [kinds -> Free] :
          job' = [j \in Job |-> LET k == {kind \in kinds : slot[kind] = j}
                                IN  IF k = {} THEN job[j] ELSE Started(CHOOSE kind \in k : TRUE)]
    BY <1>2 DEF OnSignals
  <2>2. /\ research' = IF "research" \in kinds THEN research - 1 ELSE research
        /\ sinceSlide' = IF "reads" \in kinds THEN 0 ELSE sinceSlide
        /\ UNCHANGED <<seen, suggestCount, cards>>
    BY <1>2 DEF OnSignals
  <2>3. /\ kinds \subseteq {"embed", "research", "reads"}
        /\ "research" \in kinds => research > 0
        /\ "reads" \in kinds => MaySuggest
    OBVIOUS
  <2> HIDE DEF kinds
  <2>4. ASSUME NEW j \in Job
        PROVE  \/ job'[j] = job[j]
               \/ \E kind \in kinds : slot[kind] = j /\ job'[j] = Started(kind) /\ job[j] = None
    <3> DEFINE k == {kind \in kinds : slot[kind] = j}
    <3>1. job'[j] = IF k = {} THEN job[j] ELSE Started(CHOOSE kind \in k : TRUE)
      BY <2>1
    <3>2. CASE k = {}
      BY <3>1, <3>2
    <3>3. CASE k # {}
      <4>1. PICK kind \in k : kind = CHOOSE x \in k : TRUE
        BY <3>3
      <4>2. job[j] = None
        BY <4>1 DEF Free
      <4> QED BY <3>1, <3>3, <4>1, <4>2
    <3> QED BY <3>2, <3>3
  <2>5. MapsType'
    <3>1. ASSUME NEW j \in Job PROVE job'[j] \in Call
      <4>1. \A kind \in kinds : Started(kind) \in Call
        BY <2>3, CopilotAssumption DEF Started, Call
      <4> QED BY <1>0, <2>4, <4>1 DEF MapsType
    <3>2. job' \in [Job -> Call]
      BY <2>1, <3>1
    <3>3. research' \in 0..Quota /\ sinceSlide' \in 0..Throttle
      BY <1>0, <2>2, <2>3, CopilotAssumption DEF MapsType
    <3> QED BY <1>0, <2>2, <3>2, <3>3 DEF MapsType
  <2>6. ASSUME NEW j \in Job, Timed(j)'
        PROVE  \/ job'[j] = job[j] /\ Timed(j)
               \/ /\ "reads" \in kinds /\ slot["reads"] = j
                  /\ job'[j].age = 0 /\ job'[j].kind = "reads"
    <3>1. \A kind \in kinds : Started(kind).kind = kind /\ Started(kind).age = 0
      BY DEF Started
    <3> QED BY <2>3, <2>4, <2>6, <3>1 DEF Timed
  <2>7. SlideOK'
    <3>1. "reads" \in kinds => suggestCount < SlideLimit /\ \A j \in Job : ~Timed(j)
      BY <1>0, <1>2, <2>3, CopilotAssumption DEF LimitsInv, SlideOK, MaySuggest, MapsType, Call, MayTake, Timed
    <3>2. CASE "reads" \in kinds
      BY <1>0, <2>2, <2>6, <3>1, <3>2, CopilotAssumption DEF LimitsInv, SlideOK, MayTake
    <3>3. CASE "reads" \notin kinds
      BY <1>0, <2>2, <2>6, <3>3 DEF LimitsInv, SlideOK
    <3> QED BY <3>2, <3>3
  <2>8. CardOK'
    <3>1. ASSUME NEW j \in Job, job'[j].kind = "trust" PROVE job'[j] = job[j]
      <4>1. \A kind \in kinds : Started(kind).kind # "trust"
        BY <2>3 DEF Started
      <4> QED BY <2>4, <3>1, <4>1
    <3> QED BY <2>2, <3>1 DEF LimitsInv, CardOK
  <2> QED BY <2>5, <2>7, <2>8 DEF LimitsInv
<1> QED BY <1>0, <1>1, <1>2 DEF MapsType

LEMMA CallStep ==
  ASSUME LimitsInv, NEW j \in Job,
         DeepResearch(j) \/ CardsSent(j) \/ ReadsDone(j) \/ SlideGenerated(j) \/ Fails(j) \/ \E hits \in SUBSET Entity : Embedded(j, hits)
  PROVE  LimitsInv'
<1>0. MapsType
  BY DEF LimitsInv
<1>1. None \in Call /\ None.kind = "none" /\ Started("research") \in Call /\ Started("research").kind = "research"
  BY CopilotAssumption DEF None, Started, Call
<1>2. ASSUME NEW call \in Call, job' = [job EXCEPT ![j] = call], call.kind \in {"none", "research"},
             UNCHANGED <<live, made, bound, analyzing, seen, suggestCount, sinceSlide, cards>>,
             research' \in 0..Quota
      PROVE  LimitsInv'
  <2>1. \A i \in Job : job'[i] = IF i = j THEN call ELSE job[i]
    BY <1>0, <1>2 DEF MapsType
  <2>2. MapsType'
    BY <1>0, <1>2 DEF MapsType
  <2>3. SlideOK' /\ CardOK'
    BY <1>2, <2>1 DEF LimitsInv, SlideOK, CardOK, Timed
  <2> QED BY <2>2, <2>3 DEF LimitsInv
<1>3. CASE DeepResearch(j)
  <2>1. research' \in 0..Quota
    BY <1>0, <1>3, CopilotAssumption DEF MapsType, DeepResearch
  <2> QED BY <1>1, <1>2, <1>3, <2>1 DEF DeepResearch
<1>4. CASE Fails(j)
  BY <1>0, <1>1, <1>2, <1>4 DEF Fails, Done, maps, MapsType
<1>5. CASE SlideGenerated(j)
  <2>1. job' = [job EXCEPT ![j] = None] /\ suggestCount' = suggestCount + 1 /\ job[j].kind = "slide"
        /\ UNCHANGED <<live, made, bound, analyzing, seen, sinceSlide, research, cards>>
    BY <1>5 DEF SlideGenerated, Done
  <2>2. \A i \in Job : job'[i] = IF i = j THEN None ELSE job[i]
    BY <1>0, <2>1 DEF MapsType
  <2>3. MapsType'
    BY <1>0, <1>1, <2>1 DEF MapsType
  <2>4. SlideOK'
    <3>1. \A i \in Job : ~Timed(i)'
      BY <1>1, <2>1, <2>2 DEF LimitsInv, SlideOK, Timed
    <3>2. suggestCount' <= SlideLimit
      BY <1>0, <2>1, CopilotAssumption DEF LimitsInv, SlideOK, MapsType, Timed
    <3> QED BY <3>1, <3>2 DEF SlideOK
  <2>5. CardOK'
    BY <1>1, <2>1, <2>2 DEF LimitsInv, CardOK
  <2> QED BY <2>3, <2>4, <2>5 DEF LimitsInv
<1>6. ASSUME NEW hits \in SUBSET Entity, Embedded(j, hits) PROVE LimitsInv'
  <2> DEFINE call == [kind |-> "trust", age |-> 0, hits |-> hits \ seen]
  <2>1. job' = [job EXCEPT ![j] = call] /\ seen' = seen \cup hits /\ job[j].kind = "embed"
        /\ UNCHANGED <<live, made, bound, analyzing, suggestCount, sinceSlide, research, cards>>
    BY <1>6 DEF Embedded, Marked
  <2>2. call \in Call /\ call.kind = "trust" /\ call.hits = hits \ seen
    BY CopilotAssumption DEF Call
  <2> HIDE DEF call
  <2>3. \A i \in Job : job'[i] = IF i = j THEN call ELSE job[i]
    BY <1>0, <2>1 DEF MapsType
  <2>4. MapsType'
    BY <1>0, <2>1, <2>2 DEF MapsType
  <2>5. SlideOK'
    BY <2>1, <2>2, <2>3 DEF LimitsInv, SlideOK, Timed
  <2>6. CardOK'
    BY <1>0, <2>1, <2>2, <2>3 DEF LimitsInv, CardOK, MapsType
  <2> QED BY <2>4, <2>5, <2>6 DEF LimitsInv
<1>7. CASE CardsSent(j)
  <2>1. /\ job' = [job EXCEPT ![j] = None] /\ job[j].kind = "trust" /\ seen' = seen \cup job[j].hits
        /\ cards' = [e \in Entity |-> IF e \in job[j].hits THEN cards[e] + 1 ELSE cards[e]]
        /\ UNCHANGED <<live, made, bound, analyzing, suggestCount, sinceSlide, research>>
    BY <1>7 DEF CardsSent, Done
  <2>2. \A i \in Job : job'[i] = IF i = j THEN None ELSE job[i]
    BY <1>0, <2>1 DEF MapsType
  <2>3. job[j].hits \subseteq seen /\ \A e \in job[j].hits : cards[e] = 0
    BY <2>1 DEF LimitsInv, CardOK
  <2>4. MapsType'
    BY <1>0, <1>1, <2>1, <2>3 DEF MapsType
  <2>5. SlideOK'
    BY <1>1, <2>1, <2>2 DEF LimitsInv, SlideOK, Timed
  <2>6. CardOK'
    <3>1. ASSUME NEW i \in Job, job'[i].kind = "trust"
          PROVE  /\ job'[i].hits \subseteq seen' /\ job'[i] = job[i] /\ i # j
                 /\ \A e \in job'[i].hits : cards'[e] = 0
      <4>1. i # j /\ job'[i] = job[i] /\ job[i].hits \cap job[j].hits = {}
        BY <1>1, <2>1, <2>2, <3>1 DEF LimitsInv, CardOK
      <4>2. job[i].hits \subseteq Entity
        BY <1>0 DEF MapsType, Call
      <4> QED BY <2>1, <3>1, <4>1, <4>2 DEF LimitsInv, CardOK
    <3>2. ASSUME NEW e \in Entity PROVE cards'[e] \in 0..1 /\ (cards'[e] = 1 => e \in seen')
      BY <2>1, <2>3 DEF LimitsInv, CardOK
    <3> QED BY <3>1, <3>2 DEF LimitsInv, CardOK
  <2> QED BY <2>4, <2>5, <2>6 DEF LimitsInv
<1>8. CASE ReadsDone(j)
  <2>1. /\ job[j].kind = "reads" /\ job' = [job EXCEPT ![j] = Started("slide")]
        /\ UNCHANGED <<live, made, bound, analyzing, seen, suggestCount, sinceSlide, research, cards>>
    BY <1>8 DEF ReadsDone, maps
  <2>2. /\ Started("slide") \in Call /\ Started("slide").kind = "slide"
        /\ Started("slide").age = 0
    BY CopilotAssumption DEF Started, Call
  <2>3. \A i \in Job : job'[i] = IF i = j THEN Started("slide") ELSE job[i]
    BY <1>0, <2>1 DEF MapsType
  <2>4. MapsType'
    BY <1>0, <2>1, <2>2 DEF MapsType
  <2>5. SlideOK'
    <3>1. Timed(j) /\ \A i \in Job : Timed(i)' <=> Timed(i)
      BY <2>1, <2>2, <2>3 DEF Timed
    <3>2. /\ suggestCount' < SlideLimit /\ job'[j].age <= MayTake(job'[j].kind)
          /\ live' => sinceSlide' <= Reads + job'[j].age
      <4>1. sinceSlide \in Nat /\ job[j].age <= Reads /\ job[j].age \in Nat
        BY <1>0, <2>1, <3>1, CopilotAssumption DEF LimitsInv, SlideOK, MapsType, MayTake, Call
      <4>2. suggestCount < SlideLimit /\ (live => sinceSlide <= 0 + job[j].age)
        BY <2>1, <3>1 DEF LimitsInv, SlideOK
      <4> QED BY <2>1, <2>2, <2>3, <4>1, <4>2, CopilotAssumption DEF MayTake
    <3>3. \A i \in Job : Timed(i)' => i = j
      BY <3>1 DEF LimitsInv, SlideOK
    <3>4. job'[j].kind = "slide" /\ suggestCount' <= SlideLimit
      BY <2>1, <2>2, <2>3 DEF LimitsInv, SlideOK
    <3> QED BY <3>2, <3>3, <3>4 DEF SlideOK
  <2>6. CardOK'
    BY <2>1, <2>2, <2>3 DEF LimitsInv, CardOK
  <2> QED BY <2>4, <2>5, <2>6 DEF LimitsInv
<1> QED BY <1>3, <1>4, <1>5, <1>6, <1>7, <1>8

LEMMA TimeStep ==
  ASSUME LimitsInv, Tick \/ End \/ Rematerialise
  PROVE  LimitsInv'
<1>0. MapsType
  BY DEF LimitsInv
<1>1. CASE Tick
  <2>1. ASSUME NEW j \in Job
        PROVE  /\ job'[j] \in Call /\ job'[j].kind = job[j].kind /\ job'[j].hits = job[j].hits
               /\ Timed(j) => job'[j].age = job[j].age + 1 /\ job[j].age < MayTake(job[j].kind)
    <3>1. /\ job[j] \in Call /\ job'[j] = IF Timed(j) THEN [job[j] EXCEPT !.age = @ + 1] ELSE job[j]
          /\ Timed(j) => job[j].age < MayTake(job[j].kind)
      BY <1>0, <1>1 DEF Tick, MapsType
    <3>2. CASE ~Timed(j)
      BY <3>1, <3>2
    <3>3. CASE Timed(j)
      <4>1. job[j].age + 1 \in 0..Throttle
        BY <3>1, <3>3, CopilotAssumption DEF Call, MayTake
      <4> QED BY <3>1, <3>3, <4>1 DEF Call
    <3> QED BY <3>2, <3>3
  <2>2. sinceSlide' \in 0..Throttle /\ sinceSlide' <= sinceSlide + 1
        /\ UNCHANGED <<live, made, bound, analyzing, seen, suggestCount, research, cards>>
    BY <1>0, <1>1, CopilotAssumption DEF Tick, MapsType
  <2>3. job' \in [Job -> Call]
    BY <1>1, <2>1 DEF Tick
  <2>4. MapsType'
    BY <1>0, <2>2, <2>3 DEF MapsType
  <2>5. SlideOK'
    <3>1. \A j \in Job : Timed(j)' <=> Timed(j)
      BY <2>1 DEF Timed
    <3>2. ASSUME NEW j \in Job, Timed(j)
          PROVE  /\ suggestCount' < SlideLimit /\ job'[j].age <= MayTake(job'[j].kind)
                 /\ live' => sinceSlide' <= (IF job'[j].kind = "slide" THEN Reads ELSE 0) + job'[j].age
      <4>1. /\ job[j].age \in Nat /\ job'[j].kind = job[j].kind /\ MayTake(job[j].kind) \in Nat
            /\ job'[j].age = job[j].age + 1 /\ job[j].age < MayTake(job[j].kind)
        BY <1>0, <2>1, <3>2, CopilotAssumption DEF MapsType, Call, MayTake
      <4>2. /\ suggestCount < SlideLimit
            /\ live => sinceSlide <= (IF job[j].kind = "slide" THEN Reads ELSE 0) + job[j].age
        BY <3>2 DEF LimitsInv, SlideOK
      <4> QED BY <1>0, <2>2, <4>1, <4>2, CopilotAssumption DEF MapsType
    <3> QED BY <2>2, <3>1, <3>2 DEF LimitsInv, SlideOK
  <2>6. CardOK'
    BY <2>1, <2>2 DEF LimitsInv, CardOK
  <2> QED BY <2>4, <2>5, <2>6 DEF LimitsInv
<1>2. CASE End
  <2>1. /\ live' = FALSE /\ suggestCount' = 0 /\ sinceSlide' = Throttle
        /\ UNCHANGED <<made, bound, analyzing, job, seen, research, cards>>
    BY <1>2 DEF End, Forgotten
  <2>2. MapsType'
    <3>1. live' \in BOOLEAN /\ (bound \in BOOLEAN)' /\ (analyzing \in BOOLEAN)'
      BY <1>0, <2>1, Zenon DEF MapsType
    <3>2. suggestCount' \in Nat /\ sinceSlide' \in 0..Throttle
      BY <2>1, CopilotAssumption
    <3> QED BY <1>0, <2>1, <3>1, <3>2 DEF MapsType
  <2>3. SlideOK' /\ CardOK'
    BY <2>1, CopilotAssumption DEF LimitsInv, SlideOK, CardOK, Timed
  <2> QED BY <2>2, <2>3 DEF LimitsInv
<1>3. CASE Rematerialise
  <2>1. /\ suggestCount' = 0 /\ sinceSlide' = Throttle /\ seen' = {} /\ research' = Quota
        /\ cards' = [e \in Entity |-> 0] /\ made' = made + 1 /\ made < MaxRuntimes /\ bound' = FALSE
        /\ UNCHANGED <<live, analyzing, job>>
    BY <1>3 DEF Rematerialise, Forgotten
  <2>2. \A j \in Job : job[j].kind = "none"
    BY <1>3 DEF Rematerialise, Free, None
  <2>3. MapsType'
    <3>1. (live \in BOOLEAN)' /\ bound' \in BOOLEAN /\ (analyzing \in BOOLEAN)'
      BY <1>0, <2>1, Zenon DEF MapsType
    <3>2. /\ suggestCount' \in Nat /\ sinceSlide' \in 0..Throttle /\ research' \in 0..Quota
          /\ made' \in 1..MaxRuntimes
      BY <1>0, <2>1, CopilotAssumption DEF MapsType
    <3>3. job' \in [Job -> Call] /\ seen' \subseteq Entity /\ cards' \in [Entity -> Nat]
      BY <1>0, <2>1 DEF MapsType
    <3> QED BY <3>1, <3>2, <3>3 DEF MapsType
  <2>4. SlideOK' /\ CardOK'
    BY <2>1, <2>2, CopilotAssumption DEF SlideOK, CardOK, Timed
  <2> QED BY <2>3, <2>4 DEF LimitsInv
<1> QED BY <1>1, <1>2, <1>3

LEMMA LimitsStep == LimitsInv /\ [Next]_vars => LimitsInv'
<1> SUFFICES ASSUME LimitsInv, [Next]_vars PROVE LimitsInv'
  OBVIOUS
<1>1. ASSUME NEW s \in Segment, Ingest(s) PROVE LimitsInv'
  BY <1>1, WindowStep DEF Ingest, LimitsInv, MapsType
<1>2. CASE Analyze \/ AnalysisFails
  BY <1>2, WindowStep DEF Analyze, AnalysisFails
<1>3. CASE UNCHANGED vars
  BY <1>3, WindowStep DEF vars, LimitsInv, MapsType
<1> QED BY <1>1, <1>2, <1>3, SignalStep, CallStep, TimeStep DEF Next

(* Safety (supplementAutoLimitPerMeeting): the slides suggested in a meeting *)
(* stay within the limit, whatever overlaps with their generation.           *)
THEOREM QuotaKept == Spec => []SlidesWithinLimit
<1>1. LimitsInv => SlidesWithinLimit
  BY DEF LimitsInv, SlideOK, SlidesWithinLimit
<1> QED BY <1>1, LimitsInit, LimitsStep, PTL DEF Spec

(* Safety (cardedEntities): one card per entity, however retrievals overlap. *)
THEOREM CardedOnce == Spec => []OneCardPerEntity
<1>1. LimitsInv => OneCardPerEntity
  BY DEF LimitsInv, CardOK, OneCardPerEntity
<1> QED BY <1>1, LimitsInit, LimitsStep, PTL DEF Spec
-----------------------------------------------------------------------------
(* The window: what trimWindow keeps.                                        *)
LEMMA LeastOf ==
  ASSUME NEW T \in SUBSET Nat, T # {}
  PROVE  \E n \in T : \A k \in T : n <= k
<1>1. IsWellFoundedOn(OpToRel(<, Nat), Nat)
  BY NatLessThanWellFounded, Zenon
<1>2. PICK n \in T : \A k \in T : ~(<<k, n>> \in OpToRel(<, Nat))
  BY <1>1, WFMin, Zenon
<1>3. \A k \in T : ~(k < n)
  BY <1>2 DEF OpToRel
<1> QED BY <1>3

Upto(S, n) == {m \in S : m <= n}

(* How the number of positions up to n grows with n.                         *)
LEMMA UptoOf ==
  ASSUME NEW L \in Nat, NEW S \in SUBSET (1..L)
  PROVE  /\ \A n \in Nat : IsFiniteSet(Upto(S, n)) /\ Cardinality(Upto(S, n)) \in Nat
         /\ Cardinality(Upto(S, 0)) = 0 /\ Upto(S, L) = S
         /\ \A n \in Nat : Cardinality(Upto(S, n + 1)) =
                            IF n + 1 \in S THEN Cardinality(Upto(S, n)) + 1 ELSE Cardinality(Upto(S, n))
<1>0. \A m \in S : m \in Nat /\ 1 <= m /\ m <= L
  OBVIOUS
<1>1. IsFiniteSet(S)
  <2>1. IsFiniteSet(1..L)
    BY FS_Interval
  <2> QED BY <2>1, FS_Subset
<1>2. ASSUME NEW n \in Nat PROVE IsFiniteSet(Upto(S, n)) /\ Cardinality(Upto(S, n)) \in Nat
  <2>1. Upto(S, n) \in SUBSET S
    BY DEF Upto
  <2> QED BY <1>1, <2>1, FS_Subset, FS_CardinalityType
<1>3. Upto(S, L) = S
  <2>1. \A m : m \in Upto(S, L) <=> m \in S
    BY <1>0 DEF Upto
  <2> QED BY <2>1
<1>4. Cardinality(Upto(S, 0)) = 0
  <2>1. ASSUME NEW m \in S PROVE ~(m <= 0)
    BY <1>0
  <2>2. Upto(S, 0) = {}
    BY <2>1, Zenon DEF Upto
  <2> QED BY <2>2, FS_EmptySet
<1>5. ASSUME NEW n \in Nat
      PROVE  Cardinality(Upto(S, n + 1)) =
               IF n + 1 \in S THEN Cardinality(Upto(S, n)) + 1 ELSE Cardinality(Upto(S, n))
  <2>0. ASSUME NEW m \in S PROVE m <= n + 1 <=> m <= n \/ m = n + 1
    BY <1>0
  <2>1. CASE n + 1 \in S
    <3>1. \A m : m \in Upto(S, n + 1) <=> m \in Upto(S, n) \cup {n + 1}
      BY <2>1, <2>0, Zenon DEF Upto
    <3>2. Upto(S, n + 1) = Upto(S, n) \cup {n + 1}
      BY <3>1
    <3>3. n + 1 \notin Upto(S, n)
      BY DEF Upto
    <3> QED BY <1>2, <2>1, <3>2, <3>3, FS_AddElement
  <2>2. CASE n + 1 \notin S
    <3>1. \A m : m \in Upto(S, n + 1) <=> m \in Upto(S, n)
      BY <2>0, <2>2, Zenon DEF Upto
    <3> QED BY <2>2, <3>1
  <2> QED BY <2>1, <2>2
<1> QED BY <1>2, <1>3, <1>4, <1>5

(* A set of positions has a k-th one for every k up to its size.             *)
LEMMA NthOf ==
  ASSUME NEW L \in Nat, NEW S \in SUBSET (1..L), NEW k \in 1..Cardinality(S)
  PROVE  Nth(S, k) \in S /\ Cardinality({m \in S : m <= Nth(S, k)}) = k
<1> DEFINE size(n) == Cardinality(Upto(S, n))
           reach == {n \in Nat : size(n) >= k}
<1>1. /\ \A n \in Nat : size(n) \in Nat
      /\ size(0) = 0 /\ size(L) = Cardinality(S)
      /\ \A n \in Nat : size(n + 1) = IF n + 1 \in S THEN size(n) + 1 ELSE size(n)
  BY UptoOf
<1> HIDE DEF size
<1>2. L \in reach
  BY <1>1
<1>3. PICK n \in Nat : size(n) >= k /\ \A i \in Nat : size(i) >= k => n <= i
  BY <1>2, LeastOf
<1>4. n \in Nat /\ n - 1 \in Nat /\ n = (n - 1) + 1
  BY <1>1, <1>3
<1>5. size(n - 1) \in Nat /\ size(n - 1) < k
  BY <1>1, <1>3, <1>4
<1>6. size(n) = IF n \in S THEN size(n - 1) + 1 ELSE size(n - 1)
  BY <1>1, <1>4
<1>7. n \in S /\ size(n) = k
  BY <1>3, <1>5, <1>6
<1>8. n \in S /\ Cardinality({m \in S : m <= n}) = k
  BY <1>7 DEF size, Upto
<1> QED BY <1>8 DEF Nth

(* Trimming by age keeps young segments only, and the last one last.         *)
LEMMA FreshOf ==
  ASSUME NEW w \in Seq(Segment), w # <<>>
  PROVE  /\ Fresh(w) \in Seq(Segment) /\ Len(Fresh(w)) \in Nat \ {0}
         /\ Fresh(w)[Len(Fresh(w))] = Newest(w)
         /\ \A k \in 1..Len(Fresh(w)) : Newest(w).t - Fresh(w)[k].t <= MaxAge
<1> DEFINE Y == Young(w)
           c == Cardinality(Y)
<1>1. Len(w) \in Nat \ {0} /\ \A n \in 1..Len(w) : w[n] \in Segment
  BY EmptySeq
<1>2. Y \in SUBSET (1..Len(w)) /\ \A n \in Y : Newest(w).t - w[n].t <= MaxAge
  BY DEF Young
<1>3. Len(w) \in Y
  BY <1>1, CopilotAssumption DEF Young, Newest, Segment
<1>4. IsFiniteSet(Y) /\ c \in Nat \ {0}
  <2>1. IsFiniteSet(1..Len(w))
    BY <1>1, FS_Interval
  <2>2. IsFiniteSet(Y) /\ c \in Nat
    BY <1>2, <2>1, FS_Subset, FS_CardinalityType
  <2>3. c # 0
    BY <1>3, <2>2, FS_EmptySet
  <2> QED BY <2>2, <2>3
<1>5. \A k \in 1..c : Nth(Y, k) \in Y /\ Cardinality({m \in Y : m <= Nth(Y, k)}) = k
  BY <1>1, <1>2, NthOf
<1>6. Nth(Y, c) = Len(w)
  <2>1. {m \in Y : m <= Nth(Y, c)} \in SUBSET Y /\ Cardinality({m \in Y : m <= Nth(Y, c)}) = Cardinality(Y)
    BY <1>4, <1>5
  <2>2. {m \in Y : m <= Nth(Y, c)} = Y
    BY <1>4, <2>1, FS_Subset
  <2>3. Nth(Y, c) \in 1..Len(w) /\ Len(w) <= Nth(Y, c)
    BY <1>2, <1>3, <1>4, <1>5, <2>2
  <2> QED BY <1>1, <2>3
<1>7. Fresh(w) = [k \in 1..c |-> w[Nth(Y, k)]]
  BY DEF Fresh
<1> HIDE DEF Y, c
<1>8. Fresh(w) \in [1..c -> Segment]
  BY <1>1, <1>2, <1>5, <1>7
<1>9. Fresh(w) \in Seq(Segment) /\ Len(Fresh(w)) = c
  BY <1>4, <1>8, SeqDef
<1>10. Fresh(w)[c] = Newest(w)
  BY <1>4, <1>6, <1>7 DEF Newest
<1>11. \A k \in 1..c : Newest(w).t - Fresh(w)[k].t <= MaxAge
  BY <1>2, <1>5, <1>7
<1> QED BY <1>4, <1>9, <1>10, <1>11

LEMMA TrimOf ==
  ASSUME NEW w \in Seq(Segment), w # <<>>
  PROVE  /\ Trim(w) \in Seq(Segment)
         /\ \A n \in 1..Len(Trim(w)) : Newest(Trim(w)).t - Trim(w)[n].t <= MaxAge
<1> DEFINE f == Fresh(w)
           from == {n \in 1..Len(f) : n = Len(f) \/ Affordable(f, n)}
           first == CHOOSE n \in from : \A k \in from : n <= k
<1>1. /\ f \in Seq(Segment) /\ Len(f) \in Nat \ {0} /\ f[Len(f)] = Newest(w)
      /\ \A k \in 1..Len(f) : Newest(w).t - f[k].t <= MaxAge
  BY FreshOf
<1>2. Trim(w) = SubSeq(f, first, Len(f))
  BY DEF Trim
<1>3. first \in 1..Len(f)
  <2>1. from \in SUBSET Nat /\ from # {}
    BY <1>1
  <2>2. first \in from
    BY <2>1, LeastOf
  <2> QED BY <2>2
<1> HIDE DEF f, first
<1>4. \A i \in first..Len(f) : f[i] \in Segment
  BY <1>1, <1>3
<1>5. /\ Trim(w) \in Seq(Segment) /\ Len(Trim(w)) = Len(f) - first + 1
      /\ \A i \in 1..(Len(f) - first + 1) : Trim(w)[i] = f[first + i - 1]
  BY <1>1, <1>2, <1>3, <1>4, SubSeqProperties
<1>6. Newest(Trim(w)) = Newest(w)
  BY <1>1, <1>3, <1>5 DEF Newest
<1>7. ASSUME NEW n \in 1..Len(Trim(w)) PROVE Newest(Trim(w)).t - Trim(w)[n].t <= MaxAge
  <2>1. first + n - 1 \in 1..Len(f) /\ Trim(w)[n] = f[first + n - 1]
    BY <1>1, <1>3, <1>5
  <2> QED BY <1>1, <1>6, <2>1
<1> QED BY <1>5, <1>7

WindowInv == window \in Seq(Segment) /\ NoStaleSegment

LEMMA WindowInit == Init => WindowInv
BY EmptySeq DEF Init, WindowInv, NoStaleSegment

LEMMA WindowNext == WindowInv /\ [Next]_vars => WindowInv'
<1> SUFFICES ASSUME WindowInv, [Next]_vars PROVE WindowInv'
  OBVIOUS
<1>1. ASSUME NEW s \in Segment, Ingest(s) PROVE WindowInv'
  <2>1. window' = Trim(Append(window, s))
    BY <1>1 DEF Ingest
  <2>2. Append(window, s) \in Seq(Segment) /\ Append(window, s) # <<>>
    BY AppendProperties DEF WindowInv
  <2> QED BY <2>1, <2>2, TrimOf DEF WindowInv, NoStaleSegment
<1>2. CASE window' = <<>>
  BY <1>2, EmptySeq DEF WindowInv, NoStaleSegment
<1>3. CASE window' = window
  BY <1>3 DEF WindowInv, NoStaleSegment, Newest
<1>4. Analyze \/ AnalysisFails \/ Tick \/ UNCHANGED vars => window' = window
  BY DEF Analyze, AnalysisFails, Tick, vars
<1>5. \A r, s \in BOOLEAN : OnSignals(r, s) => window' = window
  BY DEF OnSignals
<1>6. ASSUME NEW j \in Job,
             DeepResearch(j) \/ CardsSent(j) \/ ReadsDone(j) \/ SlideGenerated(j) \/ Fails(j) \/ \E hits \in SUBSET Entity : Embedded(j, hits)
      PROVE  window' = window
  BY <1>6 DEF DeepResearch, CardsSent, ReadsDone, SlideGenerated, Fails, Embedded
<1>7. End \/ Rematerialise => window' = <<>>
  BY DEF End, Rematerialise, Forgotten
<1> QED BY <1>1, <1>2, <1>3, <1>4, <1>5, <1>6, <1>7 DEF Next

(* Safety (trimWindow): no segment of the window is too old for the last.    *)
THEOREM WindowFresh == Spec => []NoStaleSegment
<1>1. WindowInv => NoStaleSegment
  BY DEF WindowInv
<1> QED BY <1>1, WindowInit, WindowNext, PTL DEF Spec

(* Type correctness of the copilot's state.                                  *)
THEOREM TypeCorrect == Spec => []TypeOK
<1>1. LimitsInv /\ WindowInv => TypeOK
  BY DEF LimitsInv, MapsType, WindowInv, TypeOK, Call
<1> QED BY <1>1, LimitsInit, LimitsStep, WindowInit, WindowNext, PTL DEF Spec
=============================================================================

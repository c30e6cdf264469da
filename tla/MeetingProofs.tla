---------------------------- MODULE MeetingProofs ----------------------------
(***************************************************************************)
(* What a running meeting keeps to, beside its runtime and its approvals.   *)
(*                                                                          *)
(* First part, AudioPipeline: for segments of any length and any number of  *)
(* frames and runtimes, what is labelled by channel is right, no stretch is *)
(* heard twice, nothing is delivered without consent, an outage is reported *)
(* once, and the first runtime bills each final.                            *)
(*                                                                          *)
(* Second part, Checklist: for any items, pages and number of call chains,  *)
(* type correctness on either driver; with SQLite (Serialised), what the HUD *)
(* and the engine are told are the rows, and every tick is one step of the  *)
(* contract (ChecklistContract), so what the presenter decided stands.      *)
(***************************************************************************)
EXTENDS AudioPipeline, Checklist, FiniteSetTheorems, SequenceTheorems, TLAPS

(* TypeOK in parts.                                                          *)
FlagType == live \in BOOLEAN /\ consent \in BOOLEAN

CountType ==
  /\ made \in 1..MaxRuntimes /\ mode \in {1, 2} /\ clock \in 0..MaxFrames /\ cut \in 0..MaxFrames
  /\ chunkSeq \in Nat /\ finals \in Nat /\ toasts \in Nat /\ outbreaks \in Nat
  /\ outages \subseteq Track /\ usage \subseteq Nat

AsrType ==
  /\ asr \in [Track -> Provider]
  /\ \A tr \in Track : Len(asr[tr].buf) < MaxSegment /\ asr[tr].succeeded <= asr[tr].dispatched

SegmentType == transcribing \subseteq Segment /\ inferring \subseteq Segment /\ heard \subseteq Final

(* A buffer holds frames of the present mode only, taken before now; in mono *)
(* the right one is empty.  A frame makes two segments at most.              *)
BufferOK ==
  \A tr \in Track :
    /\ asr[tr].dispatched <= 2 * clock
    /\ mode = 1 /\ tr = "right" => asr[tr].buf = <<>>
    /\ \A n \in 1..Len(asr[tr].buf) : asr[tr].buf[n].t < clock /\ asr[tr].buf[n].channels = mode

Segments == transcribing \cup inferring \cup {d.segment : d \in heard}

(* No frame of one was taken when one of the other was.                      *)
Apart(f, g) == \A m \in 1..Len(f), n \in 1..Len(g) : f[m].t # g[n].t

OneVoice(s) ==
  \A n \in 1..Len(s.frames) :
    /\ s.frames[n].t < clock /\ s.frames[n].channels = s.frames[1].channels
    /\ s.track = "right" => s.frames[n].channels = 2

(* Wherever a segment is on its way, it is of one mode, and what its track   *)
(* buffers and its other segments are of another time.                       *)
SegmentsOK ==
  /\ \A s \in transcribing : s.seq <= asr[s.track].dispatched
  /\ \A s \in Segments : OneVoice(s) /\ Apart(s.frames, asr[s.track].buf)
  /\ \A s, u \in Segments : s.track = u.track /\ s # u => Apart(s.frames, u.frames)
  /\ \A d \in heard : d.speaker = Speaker(d.segment)

AudioInv == FlagType /\ CountType /\ AsrType /\ SegmentType /\ BufferOK /\ SegmentsOK
-----------------------------------------------------------------------------
LEMMA SegmentHas ==
  ASSUME NEW s \in Segment
  PROVE  /\ s.track \in Track /\ s.frames \in Seq(Frame) /\ Len(s.frames) \in Nat \ {0}
         /\ s.seq \in 1..(2 * MaxFrames)
         /\ \A n \in 1..Len(s.frames) : s.frames[n] \in Frame
BY AudioAssumption DEF Segment

LEMMA AllSegments == SegmentType => Segments \subseteq Segment
BY DEF SegmentType, Segments, Final

LEMMA AudioInit == Init => AudioInv
<1> SUFFICES ASSUME Init PROVE AudioInv
  OBVIOUS
<1>1. FlagType
  BY Zenon DEF Init, FlagType
<1>2. CountType
  BY AudioAssumption DEF Init, CountType
<1>3. NewProvider \in Provider /\ NewProvider.buf = <<>> /\ NewProvider.succeeded = 0 /\ NewProvider.dispatched = 0
  BY EmptySeq DEF NewProvider, Provider
<1>4. \A tr \in Track : asr[tr] = NewProvider
  BY DEF Init
<1>5. AsrType
  BY <1>3, <1>4, EmptySeq, AudioAssumption DEF Init, AsrType
<1>6. SegmentType /\ Segments = {} /\ transcribing = {} /\ heard = {}
  BY DEF Init, SegmentType, Segments
<1>7. BufferOK
  BY <1>2, <1>3, <1>4, EmptySeq DEF BufferOK, CountType
<1>8. SegmentsOK
  BY <1>6 DEF SegmentsOK
<1> QED BY <1>1, <1>2, <1>5, <1>6, <1>7, <1>8 DEF AudioInv
-----------------------------------------------------------------------------
(* A frame comes in: what one track's buffer and recogniser get.             *)
Old(tr) == asr[tr].buf

LEMMA FilledOf ==
  ASSUME AudioInv, clock < MaxFrames,
         NEW channels \in {1, 2}, NEW loud \in [Track -> BOOLEAN], NEW tr \in Track
  PROVE  LET f == Filled(tr, channels, loud) IN
         /\ f \in Seq(Frame) /\ Len(f) <= MaxSegment
         /\ \A n \in 1..Len(f) :
              /\ f[n].channels = channels /\ f[n].t <= clock
              /\ f[n].t = clock \/ (channels = mode /\ n \in 1..Len(Old(tr)) /\ f[n].t = Old(tr)[n].t)
         /\ tr \notin Fed(channels) => f = <<>>
         /\ channels = 1 /\ tr = "right" => tr \notin Fed(channels)
<1> DEFINE f == Filled(tr, channels, loud)
           b == BeforeFrame(tr, channels).buf
           fr == [t |-> clock, channels |-> channels, loud |-> loud[tr]]
<1>1. b = IF channels = mode THEN Old(tr) ELSE <<>>
  BY DEF BeforeFrame, Old
<1>2. /\ Old(tr) \in Seq(Frame) /\ Len(Old(tr)) \in Nat /\ Len(Old(tr)) < MaxSegment
      /\ \A n \in 1..Len(Old(tr)) : Old(tr)[n].t < clock /\ Old(tr)[n].channels = mode /\ Old(tr)[n] \in Frame
      /\ mode = 1 /\ tr = "right" => Old(tr) = <<>>
  BY DEF AudioInv, AsrType, Provider, BufferOK, Old
<1>3. /\ b \in Seq(Frame) /\ Len(b) \in Nat /\ Len(b) < MaxSegment
      /\ \A n \in 1..Len(b) : channels = mode /\ n \in 1..Len(Old(tr)) /\ b[n] = Old(tr)[n]
                              /\ b[n] \in Frame /\ b[n].channels = channels /\ b[n].t < clock
      /\ channels = 1 /\ tr = "right" => b = <<>>
  BY <1>1, <1>2, EmptySeq, AudioAssumption
<1>4. fr.t = clock /\ fr.channels = channels
  OBVIOUS
<1>5. fr \in Frame
  <2>1. loud[tr] \in BOOLEAN
    BY Zenon
  <2>2. clock \in 0..(MaxFrames - 1)
    BY AudioAssumption DEF AudioInv, CountType
  <2> QED BY <2>1, <2>2 DEF Frame
<1>6. f = IF tr \in Fed(channels) THEN Append(b, fr) ELSE b
  BY DEF Filled
<1>7. tr \notin Fed(channels) => channels = 1 /\ tr = "right"
  BY DEF Fed, Track
<1>8. channels = 1 /\ tr = "right" => tr \notin Fed(channels)
  BY DEF Fed
<1>9. clock \in Nat
  BY DEF AudioInv, CountType
<1> HIDE DEF b, fr, f
<1>10. CASE tr \in Fed(channels)
  <2>1. f \in Seq(Frame) /\ Len(f) = Len(b) + 1 /\ f[Len(b) + 1] = fr /\ \A n \in 1..Len(b) : f[n] = b[n]
    BY <1>3, <1>5, <1>6, <1>10, AppendProperties
  <2>2. ASSUME NEW n \in 1..Len(f)
        PROVE  /\ f[n].channels = channels /\ f[n].t <= clock
               /\ f[n].t = clock \/ (channels = mode /\ n \in 1..Len(Old(tr)) /\ f[n].t = Old(tr)[n].t)
    <3>1. CASE n = Len(b) + 1
      BY <1>4, <1>9, <2>1, <3>1
    <3>2. CASE n # Len(b) + 1
      <4>1. n \in 1..Len(b) /\ f[n] = b[n]
        BY <1>3, <2>1, <3>2
      <4>2. b[n].t \in Int
        BY <1>3, <4>1 DEF Frame
      <4> QED BY <1>3, <1>9, <4>1, <4>2
    <3> QED BY <3>1, <3>2
  <2>3. Len(f) <= MaxSegment
    BY <1>3, <2>1, AudioAssumption
  <2> QED BY <1>8, <1>10, <2>1, <2>2, <2>3 DEF f
<1>11. CASE tr \notin Fed(channels)
  <2>1. f = <<>>
    BY <1>3, <1>6, <1>7, <1>11
  <2> QED BY <1>7, <1>11, <2>1, EmptySeq, AudioAssumption DEF f
<1> QED BY <1>10, <1>11

(* What is sent is the old buffer when the mode changes, or the new one.     *)
LEMMA SentOf ==
  ASSUME AudioInv, clock < MaxFrames,
         NEW channels \in {1, 2}, NEW loud \in [Track -> BOOLEAN], NEW tr \in Track
  PROVE  LET f == Filled(tr, channels, loud)
             S == Sent(tr, channels, loud)
         IN /\ Cardinality(S) \in 0..2
            /\ \A s \in S : /\ s \in Segment /\ s.track = tr
                            /\ s.seq <= asr[tr].dispatched + Cardinality(S)
                            /\ \/ s.frames = Old(tr) /\ channels # mode
                               \/ s.frames = f /\ Complete(f)
            /\ \A s, u \in S : s # u => \/ s.frames = Old(tr) /\ u.frames = f /\ channels # mode
                                        \/ s.frames = f /\ u.frames = Old(tr) /\ channels # mode
<1> DEFINE f == Filled(tr, channels, loud)
           S == Sent(tr, channels, loud)
           A == BeforeFrame(tr, channels).segments
           n == asr[tr].dispatched
           a == [track |-> tr, seq |-> n + 1, frames |-> Old(tr)]
           due == tr \in Fed(channels) /\ Complete(f)
           B == Emitted(tr, f, n + Cardinality(A), due)
           b == [track |-> tr, seq |-> n + Cardinality(A) + 1, frames |-> f]
<1>1. S = A \cup B
  BY DEF Sent
<1>2. A = {} \/ (A = {a} /\ channels # mode /\ Len(Old(tr)) >= MinSegment)
  BY DEF BeforeFrame, Emitted, Old
<1>3. B = {} \/ (B = {b} /\ Complete(f))
  BY DEF Emitted
<1>4. /\ n \in Nat /\ clock \in Nat /\ n <= 2 * clock /\ Old(tr) \in Seq(Frame)
      /\ Len(Old(tr)) \in Nat /\ Len(Old(tr)) < MaxSegment
  BY DEF AudioInv, AsrType, Provider, BufferOK, Old, CountType
<1>5. f \in Seq(Frame) /\ Len(f) \in Nat /\ Len(f) <= MaxSegment /\ (Complete(f) => Len(f) >= MinSegment)
  BY FilledOf, AudioAssumption DEF Complete
<1> HIDE DEF A, B, S, n, f
<1>6. Cardinality(A) \in 0..1 /\ (A = {} <=> Cardinality(A) = 0) /\ IsFiniteSet(A)
  <2> HIDE DEF a
  <2>1. CASE A = {}
    BY <2>1, FS_EmptySet
  <2>2. CASE A # {}
    <3>1. A = {a}
      BY <1>2, <2>2
    <3>2. IsFiniteSet(A) /\ Cardinality(A) = 1
      BY <3>1, FS_Singleton
    <3> QED BY <2>2, <3>2
  <2> QED BY <2>1, <2>2
<1>7. b.seq = n + Cardinality(A) + 1 /\ b.track = tr /\ b.frames = f
      /\ a.seq = n + 1 /\ a.track = tr /\ a.frames = Old(tr)
  OBVIOUS
<1>8. /\ A # {} => a \in Segment
      /\ B # {} => b \in Segment
  <2>1. n + 1 \in 1..(2 * MaxFrames) /\ n + Cardinality(A) + 1 \in 1..(2 * MaxFrames)
    BY <1>4, <1>6, AudioAssumption
  <2>2. A # {} => Len(Old(tr)) \in MinSegment..MaxSegment
    BY <1>2, <1>4, AudioAssumption
  <2>3. B # {} => Len(f) \in MinSegment..MaxSegment
    BY <1>3, <1>5, AudioAssumption
  <2> QED BY <1>4, <1>5, <2>1, <2>2, <2>3 DEF Segment
<1>9. Cardinality(S) = Cardinality(A) + (IF B = {} THEN 0 ELSE 1)
  <2>1. CASE B = {}
    <3>1. S = A
      BY <1>1, <2>1
    <3> QED BY <1>6, <2>1, <3>1
  <2>2. CASE B # {}
    <3>1. S = A \cup {b}
      BY <1>1, <1>3, <2>2
    <3>2. b \notin A
      BY <1>2, <1>4, <1>6, <1>7
    <3> HIDE DEF b
    <3>3. Cardinality(S) = Cardinality(A) + 1
      BY <1>6, <3>1, <3>2, FS_AddElement
    <3> QED BY <2>2, <3>3
  <2> QED BY <2>1, <2>2
<1> HIDE DEF a, b
<1>10. Cardinality(S) \in 0..2
  BY <1>6, <1>9
<1>11. ASSUME NEW s \in S
       PROVE  /\ s \in Segment /\ s.track = tr /\ s.seq <= n + Cardinality(S)
              /\ \/ s.frames = Old(tr) /\ channels # mode
                 \/ s.frames = f /\ Complete(f)
  <2>1. CASE s \in A
    BY <1>2, <1>4, <1>6, <1>7, <1>8, <1>9, <2>1
  <2>2. CASE s \in B
    BY <1>3, <1>4, <1>6, <1>7, <1>8, <1>9, <2>2
  <2> QED BY <1>1, <2>1, <2>2
<1>12. ASSUME NEW s \in S, NEW u \in S, s # u
       PROVE  \/ s.frames = Old(tr) /\ u.frames = f /\ channels # mode
              \/ s.frames = f /\ u.frames = Old(tr) /\ channels # mode
  <2>1. {s, u} \subseteq {a, b} /\ A # {}
    BY <1>1, <1>2, <1>3, <1>12
  <2> QED BY <1>2, <1>7, <1>12, <2>1
<1> QED BY <1>10, <1>11, <1>12 DEF S, f, n

(* The new segments of a frame, of either track.                             *)
New(channels, loud) == UNION {Sent(tr, channels, loud) : tr \in Track}

LEMMA PushType ==
  ASSUME AudioInv, NEW channels \in {1, 2}, NEW loud \in [Track -> BOOLEAN], PushAudio(channels, loud)
  PROVE  FlagType' /\ CountType' /\ AsrType' /\ SegmentType' /\ BufferOK'
<1>0. /\ clock < MaxFrames /\ clock \in Nat /\ clock' = clock + 1 /\ mode' = channels /\ transcribing' = transcribing \cup New(channels, loud)
      /\ UNCHANGED <<live, made, consent, outages, chunkSeq, inferring, heard, usage, toasts, finals, outbreaks, cut>>
  <2>1. clock \in Nat
    BY DEF AudioInv, CountType
  <2>2. clock < MaxFrames /\ clock' = clock + 1 /\ mode' = channels
    BY Zenon DEF PushAudio
  <2>3. transcribing' = transcribing \cup New(channels, loud)
    BY Zenon DEF PushAudio, New
  <2>4. UNCHANGED <<live, made, consent, outages, chunkSeq, inferring, heard, usage, toasts, finals, outbreaks, cut>>
    BY Zenon DEF PushAudio, history
  <2> QED BY <2>1, <2>2, <2>3, <2>4
<1>1. FlagType'
  <2>1. live' = live /\ consent' = consent
    BY <1>0
  <2> QED BY <2>1, Zenon DEF AudioInv, FlagType
<1>2. CountType'
  BY <1>0, AudioAssumption DEF AudioInv, CountType
<1>3. ASSUME NEW tr \in Track
      PROVE  /\ asr'[tr] \in Provider /\ Len(asr'[tr].buf) < MaxSegment
             /\ asr'[tr].succeeded <= asr'[tr].dispatched /\ asr'[tr].dispatched <= 2 * clock'
             /\ mode' = 1 /\ tr = "right" => asr'[tr].buf = <<>>
             /\ \A n \in 1..Len(asr'[tr].buf) : asr'[tr].buf[n].t < clock' /\ asr'[tr].buf[n].channels = mode'
  <2> DEFINE f == Filled(tr, channels, loud)
             c == Cardinality(Sent(tr, channels, loud))
             new == IF tr \in Fed(channels) THEN Kept(f) ELSE f
  <2>1. asr'[tr] = [asr[tr] EXCEPT !.buf = new, !.dispatched = @ + c]
    BY DEF PushAudio
  <2>2. c \in 0..2
    BY <1>0, SentOf
  <2>3. /\ f \in Seq(Frame) /\ Len(f) <= MaxSegment
        /\ \A n \in 1..Len(f) : f[n].channels = channels /\ f[n].t <= clock
        /\ tr \notin Fed(channels) => f = <<>>
        /\ channels = 1 /\ tr = "right" => tr \notin Fed(channels)
    <3> HIDE DEF new, c
    <3>1. f \in Seq(Frame) /\ Len(f) <= MaxSegment
      BY <1>0, FilledOf
    <3>2. \A n \in 1..Len(f) : f[n].channels = channels /\ f[n].t <= clock
      BY <1>0, FilledOf
    <3>3. /\ tr \notin Fed(channels) => f = <<>>
          /\ channels = 1 /\ tr = "right" => tr \notin Fed(channels)
      BY <1>0, FilledOf
    <3> QED BY <3>1, <3>2, <3>3
  <2>4. new = <<>> \/ (new = f /\ ~Complete(f) /\ tr \in Fed(channels))
    BY <2>3 DEF Kept
  <2> HIDE DEF c, f
  <2>5. /\ new \in Seq(Frame) /\ Len(new) < MaxSegment
        /\ \A n \in 1..Len(new) : new[n] \in Frame /\ new[n].channels = channels /\ new[n].t <= clock
        /\ channels = 1 /\ tr = "right" => new = <<>>
    <3> HIDE DEF new
    <3>1. CASE new = <<>>
      BY <3>1, EmptySeq, AudioAssumption
    <3>2. CASE new = f /\ ~Complete(f) /\ tr \in Fed(channels)
      <4>1. Len(f) \in Nat /\ Len(f) < MaxSegment
        BY <2>3, <3>2, AudioAssumption DEF Complete
      <4>2. \A n \in 1..Len(f) : f[n] \in Frame
        BY <2>3
      <4> QED BY <2>3, <3>2, <4>1, <4>2
    <3> QED BY <2>4, <3>1, <3>2
  <2> HIDE DEF new
  <2>6. asr[tr] \in Provider /\ asr[tr].succeeded <= asr[tr].dispatched /\ asr[tr].dispatched <= 2 * clock
    BY DEF AudioInv, AsrType, BufferOK
  <2>7. /\ asr'[tr].buf = new /\ asr'[tr].dispatched = asr[tr].dispatched + c
        /\ asr'[tr].succeeded = asr[tr].succeeded /\ asr'[tr] \in Provider
    <3>1. asr[tr].dispatched \in Nat /\ asr[tr].dispatched + c \in Nat
      BY <2>2, <2>6 DEF Provider
    <3>2. asr'[tr] = [buf |-> new, dispatched |-> asr[tr].dispatched + c,
                      succeeded |-> asr[tr].succeeded, down |-> asr[tr].down]
      BY <2>1, <2>6 DEF Provider
    <3>3. asr[tr].succeeded \in Nat /\ asr[tr].down \in BOOLEAN
      BY <2>6, Zenon DEF Provider
    <3> QED BY <2>5, <3>1, <3>2, <3>3 DEF Provider
  <2>8. asr'[tr].succeeded <= asr'[tr].dispatched /\ asr'[tr].dispatched <= 2 * clock'
    BY <1>0, <2>2, <2>6, <2>7 DEF Provider
  <2>9. \A n \in 1..Len(new) : new[n].t < clock'
    BY <1>0, <2>5 DEF Frame
  <2> QED BY <1>0, <2>5, <2>7, <2>8, <2>9
<1>4. AsrType'
  <2>1. asr' \in [Track -> Provider]
    BY <1>3 DEF PushAudio
  <2> QED BY <1>3, <2>1 DEF AsrType
<1>5. SegmentType'
  <2>1. \A tr \in Track : Sent(tr, channels, loud) \subseteq Segment
    BY <1>0, SentOf
  <2> QED BY <1>0, <2>1 DEF New, AudioInv, SegmentType
<1>6. BufferOK'
  BY <1>3 DEF BufferOK
<1> QED BY <1>1, <1>2, <1>4, <1>5, <1>6

LEMMA PushSegments ==
  ASSUME AudioInv, NEW channels \in {1, 2}, NEW loud \in [Track -> BOOLEAN], PushAudio(channels, loud)
  PROVE  SegmentsOK'
<1>0. /\ clock < MaxFrames /\ clock \in Nat /\ clock' = clock + 1
      /\ transcribing' = transcribing \cup New(channels, loud)
      /\ UNCHANGED <<inferring, heard>>
  <2>1. clock \in Nat
    BY DEF AudioInv, CountType
  <2>2. clock < MaxFrames /\ clock' = clock + 1 /\ UNCHANGED <<inferring, heard>>
    BY Zenon DEF PushAudio
  <2>3. transcribing' = transcribing \cup New(channels, loud)
    BY Zenon DEF PushAudio, New
  <2> QED BY <2>1, <2>2, <2>3
<1>1. Segments' = Segments \cup New(channels, loud) /\ Segments \subseteq Segment
  BY <1>0, AllSegments DEF AudioInv, Segments
<1>2. ASSUME NEW tr \in Track
      PROVE  /\ asr'[tr].dispatched = asr[tr].dispatched + Cardinality(Sent(tr, channels, loud))
             /\ asr'[tr].buf = <<>> \/ (asr'[tr].buf = Filled(tr, channels, loud) /\ ~Complete(Filled(tr, channels, loud)))
             /\ asr[tr].dispatched \in Nat /\ Cardinality(Sent(tr, channels, loud)) \in 0..2
  <2>1. asr[tr] \in Provider
    BY DEF AudioInv, AsrType
  <2>2. asr'[tr] = [asr[tr] EXCEPT !.buf = IF tr \in Fed(channels) THEN Kept(Filled(tr, channels, loud))
                                           ELSE Filled(tr, channels, loud),
                                   !.dispatched = @ + Cardinality(Sent(tr, channels, loud))]
    BY DEF PushAudio
  <2>3. Cardinality(Sent(tr, channels, loud)) \in 0..2 /\ (tr \notin Fed(channels) => Filled(tr, channels, loud) = <<>>)
    BY <1>0, SentOf, FilledOf
  <2> QED BY <2>1, <2>2, <2>3 DEF Provider, Kept
(* A segment sent now is the old buffer, or frames of it in the old mode and *)
(* the one that just came in.                                                *)
<1>3. ASSUME NEW s \in New(channels, loud)
      PROVE  /\ s \in Segment /\ s \in Sent(s.track, channels, loud) /\ s.track \in Track
             /\ s.seq <= asr'[s.track].dispatched
             /\ \/ s.frames = Old(s.track) /\ channels # mode
                \/ s.frames = Filled(s.track, channels, loud) /\ Complete(Filled(s.track, channels, loud))
  <2>1. PICK tr \in Track : s \in Sent(tr, channels, loud)
    BY DEF New
  <2> QED BY <1>0, <1>2, <2>1, SentOf
<1>4. ASSUME NEW tr \in Track
      PROVE  \A n \in 1..Len(Filled(tr, channels, loud)) :
               LET f == Filled(tr, channels, loud) IN
               /\ f[n].channels = channels /\ f[n].t <= clock
               /\ f[n].t = clock \/ (channels = mode /\ n \in 1..Len(Old(tr)) /\ f[n].t = Old(tr)[n].t)
               /\ channels = 1 => tr # "right"
  <2>1. /\ tr \notin Fed(channels) => Filled(tr, channels, loud) = <<>>
        /\ channels = 1 /\ tr = "right" => tr \notin Fed(channels)
    BY <1>0, FilledOf
  <2> QED BY <1>0, <2>1, FilledOf, EmptySeq
<1>5. ASSUME NEW tr \in Track
      PROVE  \A n \in 1..Len(Old(tr)) : Old(tr)[n].t < clock /\ Old(tr)[n].channels = mode
                                        /\ (tr = "right" => mode = 2) /\ Old(tr)[n].t \in Int
  <2>1. Old(tr) \in Seq(Frame)
    BY DEF AudioInv, AsrType, Provider, Old
  <2>2. \A n \in 1..Len(Old(tr)) : Old(tr)[n] \in Frame
    BY <2>1
  <2>3. tr = "right" /\ mode # 2 => Old(tr) = <<>>
    BY DEF AudioInv, BufferOK, CountType, Old
  <2> QED BY <2>2, <2>3, EmptySeq DEF AudioInv, BufferOK, Old, Frame
<1>6. ASSUME NEW s \in Segments
      PROVE  /\ \A n \in 1..Len(s.frames) : s.frames[n].t < clock
             /\ Apart(s.frames, Old(s.track)) /\ s.track \in Track
             /\ Apart(s.frames, Filled(s.track, channels, loud))
             /\ \A n \in 1..Len(s.frames) : s.frames[n].t \in Int
  <2>1. s \in Segment /\ s.track \in Track /\ \A n \in 1..Len(s.frames) : s.frames[n].t \in Int
    BY <1>1, SegmentHas DEF Frame
  <2>2. OneVoice(s) /\ Apart(s.frames, Old(s.track))
    BY DEF AudioInv, SegmentsOK, Old
  <2> QED BY <1>0, <1>4, <2>1, <2>2 DEF OneVoice, Apart
<1>7. ASSUME NEW s \in Segments' PROVE OneVoice(s)'
  <2>1. CASE s \in Segments
    <3>1. OneVoice(s)
      BY <2>1 DEF AudioInv, SegmentsOK
    <3> QED BY <1>0, <1>6, <2>1, <3>1 DEF OneVoice
  <2>2. CASE s \in New(channels, loud)
    <3>1. s.track \in Track /\ Len(s.frames) \in Nat \ {0}
      BY <1>3, <2>2, SegmentHas
    <3>2. CASE s.frames = Old(s.track)
      BY <1>0, <1>5, <3>1, <3>2 DEF OneVoice
    <3>3. CASE s.frames = Filled(s.track, channels, loud)
      <4>1. s \in Segment /\ \A n \in 1..Len(s.frames) : s.frames[n].t \in Int
        <5>1. s \in Segment /\ \A n \in 1..Len(s.frames) : s.frames[n] \in Frame
          BY <1>3, <2>2, SegmentHas
        <5> QED BY <5>1 DEF Frame
      <4> QED BY <1>0, <1>4, <3>1, <3>3, <4>1 DEF OneVoice
    <3> QED BY <1>3, <2>2, <3>2, <3>3
  <2> QED BY <1>1, <2>1, <2>2
<1>8. ASSUME NEW s \in Segments' PROVE Apart(s.frames, asr'[s.track].buf)
  <2>1. s.track \in Track
    BY <1>1, <1>3, <1>6
  <2>2. CASE asr'[s.track].buf = <<>>
    BY <2>2, EmptySeq DEF Apart
  <2>3. CASE asr'[s.track].buf = Filled(s.track, channels, loud) /\ ~Complete(Filled(s.track, channels, loud))
    <3>1. CASE s \in Segments
      BY <1>6, <2>3, <3>1
    <3>2. CASE s \in New(channels, loud)
      <4>1. s.frames = Old(s.track) /\ channels # mode
        BY <1>3, <2>3, <3>2
      <4> QED BY <1>0, <1>4, <1>5, <2>1, <2>3, <4>1 DEF Apart
    <3> QED BY <1>1, <3>1, <3>2
  <2> QED BY <1>2, <2>1, <2>2, <2>3
<1>9. ASSUME NEW s \in Segments', NEW u \in Segments', s.track = u.track, s # u
      PROVE  Apart(s.frames, u.frames)
  <2>1. ASSUME NEW x \in Segments, NEW y \in New(channels, loud), x.track = y.track
        PROVE  Apart(x.frames, y.frames) /\ Apart(y.frames, x.frames)
    <3>1. Apart(x.frames, Old(x.track)) /\ Apart(x.frames, Filled(x.track, channels, loud))
      BY <1>6, <2>1
    <3>2. y.frames \in {Old(x.track), Filled(x.track, channels, loud)}
      BY <1>3, <2>1
    <3> QED BY <3>1, <3>2 DEF Apart
  <2>2. CASE s \in New(channels, loud) /\ u \in New(channels, loud)
    <3> DEFINE tr == s.track
               f == Filled(tr, channels, loud)
    <3>1. s \in Sent(tr, channels, loud) /\ u \in Sent(tr, channels, loud) /\ tr \in Track
      BY <1>3, <1>9, <2>2
    <3>2. channels # mode /\ ((s.frames = Old(tr) /\ u.frames = f) \/ (s.frames = f /\ u.frames = Old(tr)))
      BY <1>0, <1>9, <3>1, SentOf
    <3>3. \A n \in 1..Len(f) : f[n].t = clock
      BY <1>4, <3>1, <3>2
    <3>4. \A n \in 1..Len(Old(tr)) : Old(tr)[n].t # clock
      BY <1>0, <1>5, <3>1
    <3> HIDE DEF f, tr
    <3> QED BY <3>2, <3>3, <3>4 DEF Apart
  <2>3. CASE s \in Segments /\ u \in Segments
    BY <1>9, <2>3 DEF AudioInv, SegmentsOK
  <2> QED BY <1>1, <1>9, <2>1, <2>2, <2>3
<1>10. ASSUME NEW s \in transcribing' PROVE s.seq <= asr'[s.track].dispatched
  <2>1. CASE s \in New(channels, loud)
    BY <1>3, <2>1
  <2>2. CASE s \in transcribing
    <3>1. s \in Segment /\ s.track \in Track /\ s.seq \in Int /\ s.seq <= asr[s.track].dispatched
      BY <2>2, SegmentHas DEF AudioInv, SegmentType, SegmentsOK
    <3> QED BY <1>2, <3>1
  <2> QED BY <1>0, <2>1, <2>2
<1>11. \A d \in heard' : d.speaker = Speaker(d.segment)
  BY <1>0 DEF AudioInv, SegmentsOK
<1> QED BY <1>7, <1>8, <1>9, <1>10, <1>11 DEF SegmentsOK
-----------------------------------------------------------------------------
(* Everything but a new frame and a new runtime: segments move on or are     *)
(* dropped, buffers stay or are emptied.                                     *)
Carries ==
  /\ clock' = clock /\ mode' = mode
  /\ asr' \in [Track -> Provider]
  /\ \A tr \in Track : /\ asr'[tr].buf \in {<<>>, asr[tr].buf}
                       /\ asr'[tr].dispatched = asr[tr].dispatched
                       /\ asr'[tr].succeeded <= asr[tr].dispatched
  /\ transcribing' \subseteq transcribing /\ Segments' \subseteq Segments
  /\ \A d \in heard' : d \in heard \/ d.speaker = Speaker(d.segment)

LEMMA CarryStep ==
  ASSUME AudioInv, Carries
  PROVE  AsrType' /\ BufferOK' /\ SegmentsOK'
<1>1. AsrType'
  BY EmptySeq, AudioAssumption DEF AudioInv, AsrType, Carries
<1>2. BufferOK'
  BY EmptySeq DEF AudioInv, BufferOK, Carries
<1>3. \A s \in transcribing' : s.seq <= asr'[s.track].dispatched
  <2>1. \A s \in transcribing : s.track \in Track
    BY SegmentHas DEF AudioInv, SegmentType
  <2> QED BY <2>1 DEF AudioInv, SegmentsOK, Carries
<1>4. ASSUME NEW s \in Segments' PROVE OneVoice(s)' /\ Apart(s.frames, asr'[s.track].buf)
  <2>1. s \in Segments /\ s.track \in Track
    BY AllSegments, SegmentHas DEF AudioInv, Carries
  <2>2. OneVoice(s) /\ Apart(s.frames, asr[s.track].buf)
    BY <2>1 DEF AudioInv, SegmentsOK
  <2>3. OneVoice(s)'
    BY <2>2 DEF OneVoice, Carries
  <2>4. Apart(s.frames, asr'[s.track].buf)
    <3>1. asr'[s.track].buf \in {<<>>, asr[s.track].buf}
      BY <2>1 DEF Carries
    <3> QED BY <2>2, <3>1, EmptySeq DEF Apart
  <2> QED BY <2>3, <2>4
<1>5. \A s, u \in Segments' : s.track = u.track /\ s # u => Apart(s.frames, u.frames)
  BY DEF AudioInv, SegmentsOK, Carries
<1>6. \A d \in heard' : d.speaker = Speaker(d.segment)
  BY DEF AudioInv, SegmentsOK, Carries
<1> QED BY <1>1, <1>2, <1>3, <1>4, <1>5, <1>6 DEF SegmentsOK

(* The providers are as they were.                                           *)
LEMMA SameProviders ==
  ASSUME AudioInv, UNCHANGED asr
  PROVE  /\ asr' \in [Track -> Provider]
         /\ \A tr \in Track : /\ asr'[tr].buf \in {<<>>, asr[tr].buf}
                              /\ asr'[tr].dispatched = asr[tr].dispatched
                              /\ asr'[tr].succeeded <= asr[tr].dispatched
BY DEF AudioInv, AsrType

LEMMA DownSet ==
  ASSUME NEW p \in Provider, NEW b
  PROVE  [p EXCEPT !.down = b] =
           [buf |-> p.buf, dispatched |-> p.dispatched, succeeded |-> p.succeeded, down |-> b]
BY DEF Provider

LEMMA SucceededSet ==
  ASSUME NEW p \in Provider, NEW n
  PROVE  [p EXCEPT !.succeeded = n] =
           [buf |-> p.buf, dispatched |-> p.dispatched, succeeded |-> n, down |-> p.down]
BY DEF Provider

(* What an answer does to the provider of its track.                         *)
LEMMA HealthyProvider ==
  ASSUME AudioInv, NEW s \in transcribing, Healthy(s)
  PROVE  /\ asr' \in [Track -> Provider]
         /\ \A tr \in Track : /\ asr'[tr].buf \in {<<>>, asr[tr].buf}
                              /\ asr'[tr].dispatched = asr[tr].dispatched
                              /\ asr'[tr].succeeded <= asr[tr].dispatched
                              /\ asr'[tr].down = IF tr = s.track THEN FALSE ELSE asr[tr].down
         /\ outages' \subseteq outages
         /\ outages' = IF asr[s.track].down THEN outages \ {s.track} ELSE outages
<1> DEFINE p == asr[s.track]
           n == IF s.seq > p.succeeded THEN s.seq ELSE p.succeeded
           q == [buf |-> p.buf, dispatched |-> p.dispatched, succeeded |-> n, down |-> FALSE]
<1>1. /\ s.track \in Track /\ p \in Provider /\ s.seq \in Nat
      /\ s.seq <= p.dispatched /\ p.succeeded <= p.dispatched /\ asr \in [Track -> Provider]
  BY SegmentHas DEF AudioInv, SegmentType, SegmentsOK, AsrType
<1>2. n \in Nat /\ n <= p.dispatched
  BY <1>1 DEF Provider
<1>3. asr' = [asr EXCEPT ![s.track].down = FALSE,
                         ![s.track].succeeded = IF s.seq > @ THEN s.seq ELSE @]
  BY DEF Healthy
<1>4. asr' = [asr EXCEPT ![s.track] = q]
  <2> DEFINE mid == [asr EXCEPT ![s.track].down = FALSE]
             r == [buf |-> p.buf, dispatched |-> p.dispatched, succeeded |-> p.succeeded, down |-> FALSE]
  <2>1. asr' = [mid EXCEPT ![s.track].succeeded = IF s.seq > @ THEN s.seq ELSE @]
    BY <1>3, Zenon
  <2>2. [p EXCEPT !.down = FALSE] = r
    BY <1>1, DownSet, Zenon
  <2>3. mid = [asr EXCEPT ![s.track] = r] /\ mid[s.track] = r
    BY <1>1, <2>2
  <2>4. [r EXCEPT !.succeeded = IF s.seq > r.succeeded THEN s.seq ELSE r.succeeded] = q
    <3>1. r \in Provider /\ r.buf = p.buf /\ r.dispatched = p.dispatched /\ r.succeeded = p.succeeded
      BY <1>1 DEF Provider
    <3>2. r.down = FALSE
      BY Zenon
    <3> HIDE DEF r
    <3>3. [r EXCEPT !.succeeded = n] = [buf |-> r.buf, dispatched |-> r.dispatched, succeeded |-> n, down |-> r.down]
      BY <3>1, SucceededSet, Zenon
    <3>4. n = IF s.seq > r.succeeded THEN s.seq ELSE r.succeeded
      BY <3>1
    <3> HIDE DEF n
    <3> QED BY <3>1, <3>2, <3>3, <3>4, Zenon
  <2> HIDE DEF r, q, mid
  <2>5. asr' = [mid EXCEPT ![s.track] = q]
    BY <2>1, <2>3, <2>4
  <2>6. mid \in [Track -> {r} \cup Provider]
    BY <1>1, <2>3
  <2> QED BY <1>1, <2>3, <2>5, <2>6
<1>5. q \in Provider /\ q.buf = p.buf /\ q.dispatched = p.dispatched /\ q.succeeded = n /\ q.down = FALSE
  BY <1>1, <1>2 DEF Provider
<1> HIDE DEF q, n
<1>6. asr' \in [Track -> Provider] /\ \A tr \in Track : asr'[tr] = IF tr = s.track THEN q ELSE asr[tr]
  BY <1>1, <1>4, <1>5
<1>7. \A tr \in Track : asr[tr].succeeded <= asr[tr].dispatched
  BY DEF AudioInv, AsrType
<1>8. outages' = IF asr[s.track].down THEN outages \ {s.track} ELSE outages
  BY DEF Healthy
<1> QED BY <1>1, <1>2, <1>5, <1>6, <1>7, <1>8

(* What a failure does.                                                      *)
LEMMA FailedProvider ==
  ASSUME AudioInv, NEW tr \in Track, asr' = asr \/ asr' = [asr EXCEPT ![tr].down = TRUE]
  PROVE  /\ asr' \in [Track -> Provider]
         /\ \A t \in Track : /\ asr'[t].buf \in {<<>>, asr[t].buf}
                             /\ asr'[t].dispatched = asr[t].dispatched
                             /\ asr'[t].succeeded <= asr[t].dispatched
         /\ \A t \in Track : asr' # asr => asr'[t].down = IF t = tr THEN TRUE ELSE asr[t].down
<1>1. asr \in [Track -> Provider] /\ \A t \in Track : asr[t].succeeded <= asr[t].dispatched
  BY DEF AudioInv, AsrType
<1>2. CASE asr' = asr
  BY <1>1, <1>2
<1>3. CASE asr' = [asr EXCEPT ![tr].down = TRUE]
  <2> DEFINE p == asr[tr]
             q == [buf |-> p.buf, dispatched |-> p.dispatched, succeeded |-> p.succeeded, down |-> TRUE]
  <2>1. p \in Provider
    BY <1>1
  <2>2. asr' = [asr EXCEPT ![tr] = q]
    BY <1>3, <2>1 DEF Provider
  <2>3. q \in Provider /\ q.buf = p.buf /\ q.dispatched = p.dispatched /\ q.succeeded = p.succeeded /\ q.down = TRUE
    BY <2>1 DEF Provider
  <2> HIDE DEF q
  <2>4. asr' \in [Track -> Provider] /\ \A t \in Track : asr'[t] = IF t = tr THEN q ELSE asr[t]
    BY <1>1, <2>2, <2>3
  <2> QED BY <1>1, <2>3, <2>4
<1> QED BY <1>2, <1>3
-----------------------------------------------------------------------------
LEMMA DeliveryOf ==
  ASSUME NEW s \in Segment
  PROVE  Delivery(s) \in Final /\ Delivery(s).segment = s /\ Delivery(s).speaker = Speaker(s)
BY DEF Delivery, Final, Speaker

(* A segment that is answered goes on to one place or is dropped.            *)
LEMMA FinalEffect ==
  ASSUME AudioInv, NEW s \in transcribing, OnAsrFinal(s)
  PROVE  /\ inferring' \subseteq inferring \cup {s} /\ heard' \subseteq heard \cup {Delivery(s)}
         /\ finals' \in Nat /\ usage' \subseteq Nat /\ chunkSeq' \in Nat
<1>0. finals \in Nat /\ usage \subseteq Nat /\ chunkSeq \in Nat
  BY DEF AudioInv, CountType
<1>1. CASE consent
  <2>1. finals' = finals + 1 /\ usage' = usage \cup {chunkSeq} /\ chunkSeq' = chunkSeq + 1
    BY <1>1 DEF OnAsrFinal, ChunkKey
  <2>2. inferring' \subseteq inferring \cup {s} /\ heard' \subseteq heard \cup {Delivery(s)}
    BY <1>1 DEF OnAsrFinal
  <2> QED BY <1>0, <2>1, <2>2
<1>2. CASE ~consent
  BY <1>0, <1>2 DEF OnAsrFinal
<1> QED BY <1>1, <1>2

LEMMA MoveStep ==
  ASSUME AudioInv, NEW s \in transcribing \cup inferring,
         transcribing' \subseteq transcribing,
         inferring' \subseteq inferring \cup {s}, heard' \subseteq heard \cup {Delivery(s)}
  PROVE  /\ SegmentType' /\ Segments' \subseteq Segments
         /\ \A d \in heard' : d \in heard \/ d.speaker = Speaker(d.segment)
<1>1. s \in Segment
  BY DEF AudioInv, SegmentType
<1>2. SegmentType'
  BY <1>1, DeliveryOf DEF AudioInv, SegmentType
<1> QED BY <1>1, <1>2, DeliveryOf DEF Segments

LEMMA AnswerStep ==
  ASSUME AudioInv, NEW s \in transcribing, Transcribed(s) \/ TranscribedBlank(s) \/ TranscriptionFails(s)
  PROVE  AudioInv'
<1>0. s.track \in Track
  BY SegmentHas DEF AudioInv, SegmentType
<1>1. FlagType' /\ clock' = clock /\ mode' = mode /\ transcribing' \subseteq transcribing
  <2>1. /\ live' = live /\ consent' = consent /\ clock' = clock /\ mode' = mode
        /\ transcribing' = transcribing \ {s}
    BY Zenon DEF Transcribed, TranscribedBlank, TranscriptionFails
  <2> QED BY <2>1, Zenon DEF AudioInv, FlagType
<1>2. /\ inferring' \subseteq inferring \cup {s} /\ heard' \subseteq heard \cup {Delivery(s)}
      /\ finals' \in Nat /\ usage' \subseteq Nat /\ chunkSeq' \in Nat /\ made' = made /\ cut' = cut
  <2>1. CASE Transcribed(s)
    BY <2>1, FinalEffect DEF Transcribed
  <2>2. CASE TranscribedBlank(s) \/ TranscriptionFails(s)
    BY <2>2 DEF TranscribedBlank, TranscriptionFails, history, AudioInv, CountType
  <2> QED BY <2>1, <2>2
<1>3. /\ asr' \in [Track -> Provider]
      /\ \A tr \in Track : /\ asr'[tr].buf \in {<<>>, asr[tr].buf}
                           /\ asr'[tr].dispatched = asr[tr].dispatched
                           /\ asr'[tr].succeeded <= asr[tr].dispatched
  <2>1. CASE Transcribed(s) \/ TranscribedBlank(s)
    BY <2>1, HealthyProvider DEF Transcribed, TranscribedBlank
  <2>2. CASE TranscriptionFails(s)
    <3>1. asr' = asr \/ asr' = [asr EXCEPT ![s.track].down = TRUE]
      BY <2>2, Zenon DEF TranscriptionFails
    <3> QED BY <1>0, <3>1, FailedProvider
  <2> QED BY <2>1, <2>2
<1>4. toasts' \in Nat /\ outbreaks' \in Nat /\ outages' \subseteq Track
  <2>1. CASE Transcribed(s) \/ TranscribedBlank(s)
    <3>1. outages' \subseteq outages
      BY <2>1, HealthyProvider DEF Transcribed, TranscribedBlank
    <3>2. toasts' = toasts /\ outbreaks' = outbreaks
      BY <2>1 DEF Transcribed, TranscribedBlank, history
    <3> QED BY <3>1, <3>2 DEF AudioInv, CountType
  <2>2. CASE TranscriptionFails(s)
    <3>1. \/ outages' = outages /\ toasts' = toasts /\ outbreaks' = outbreaks
          \/ /\ outages' = outages \cup {s.track}
             /\ toasts' \in {toasts, toasts + 1} /\ outbreaks' \in {outbreaks, outbreaks + 1}
      BY <2>2 DEF TranscriptionFails
    <3> QED BY <1>0, <3>1 DEF AudioInv, CountType
  <2> QED BY <2>1, <2>2
<1>5. CountType'
  BY <1>1, <1>2, <1>4 DEF AudioInv, CountType
<1>6. SegmentType' /\ Carries
  BY <1>1, <1>2, <1>3, MoveStep DEF Carries
<1> QED BY <1>1, <1>5, <1>6, CarryStep DEF AudioInv

LEMMA OtherStep ==
  ASSUME AudioInv,
         (\E granted \in BOOLEAN : SetConsent(granted)) \/ (\E s \in inferring : SpeakerInferred(s)) \/ Dispose
         \/ UNCHANGED vars
  PROVE  AudioInv'
<1>0. FlagType /\ CountType /\ AsrType /\ SegmentType
  BY DEF AudioInv
<1>1. ASSUME NEW granted \in BOOLEAN, SetConsent(granted) PROVE AudioInv'
  <2>1. FlagType'
    BY <1>0, <1>1, Zenon DEF SetConsent, FlagType
  <2>2. /\ UNCHANGED <<made, mode, clock, asr, transcribing, outages, chunkSeq, inferring, heard, usage, toasts, finals, outbreaks>>
        /\ cut' \in {cut, clock}
    BY <1>1 DEF SetConsent, asrVars
  <2>3. CountType' /\ SegmentType'
    BY <1>0, <2>2 DEF CountType, SegmentType
  <2>4. Carries
    BY <2>2, SameProviders DEF Carries, Segments
  <2> QED BY <2>1, <2>3, <2>4, CarryStep DEF AudioInv
<1>2. ASSUME NEW s \in inferring, SpeakerInferred(s) PROVE AudioInv'
  <2>1. FlagType'
    BY <1>0, <1>2, Zenon DEF SpeakerInferred, FlagType
  <2>2. /\ UNCHANGED <<made, mode, clock, asr, transcribing, outages, chunkSeq, usage, toasts, finals, outbreaks, cut>>
        /\ inferring' = inferring \ {s} /\ heard' \in {heard, heard \cup {Delivery(s)}}
    BY <1>2 DEF SpeakerInferred, asrVars, history
  <2>3. CountType'
    BY <1>0, <2>2 DEF CountType
  <2>4. SegmentType' /\ Carries
    BY <2>2, SameProviders, MoveStep DEF Carries
  <2> QED BY <2>1, <2>3, <2>4, CarryStep DEF AudioInv
<1>3. CASE Dispose
  <2>1. FlagType'
    BY <1>0, <1>3, Zenon DEF Dispose, FlagType
  <2>2. /\ UNCHANGED <<made, mode, clock, transcribing, chunkSeq, inferring, heard, usage, toasts, finals, outbreaks, cut>>
        /\ outages' = {}
    BY <1>3 DEF Dispose, history
  <2>3. CountType' /\ SegmentType'
    BY <1>0, <2>2 DEF CountType, SegmentType
  <2>4. ASSUME NEW tr \in Track
        PROVE  /\ asr'[tr] \in Provider /\ asr'[tr].buf = <<>> /\ asr'[tr].dispatched = asr[tr].dispatched
               /\ asr'[tr].succeeded <= asr[tr].dispatched
    <3>1. asr'[tr] = [asr[tr] EXCEPT !.buf = <<>>] /\ asr[tr] \in Provider /\ asr[tr].succeeded <= asr[tr].dispatched
      BY <1>0, <1>3 DEF Dispose, AsrType
    <3> QED BY <3>1, EmptySeq DEF Provider
  <2>5. asr' \in [Track -> Provider]
    BY <1>3, <2>4 DEF Dispose
  <2>6. Carries
    BY <2>2, <2>4, <2>5 DEF Carries, Segments
  <2> QED BY <2>1, <2>3, <2>6, CarryStep DEF AudioInv
<1>4. CASE UNCHANGED vars
  <2>1. FlagType'
    BY <1>0, <1>4, Zenon DEF vars, FlagType
  <2>2. UNCHANGED <<made, mode, clock, asr, transcribing, outages, chunkSeq, inferring, heard, usage, toasts, finals, outbreaks, cut>>
    BY <1>4 DEF vars, asrVars, history
  <2>3. CountType' /\ SegmentType'
    BY <1>0, <2>2 DEF CountType, SegmentType
  <2>4. Carries
    BY <2>2, SameProviders DEF Carries, Segments
  <2> QED BY <2>1, <2>3, <2>4, CarryStep DEF AudioInv
<1> QED BY <1>1, <1>2, <1>3, <1>4

LEMMA RematerialiseStep ==
  ASSUME AudioInv, Rematerialise
  PROVE  AudioInv'
<1>1. FlagType'
  BY Zenon DEF Rematerialise, FlagType
<1>2. /\ made' = made + 1 /\ made < MaxRuntimes /\ mode' = 1 /\ clock' = 0 /\ cut' = 0 /\ chunkSeq' = 0
      /\ toasts' = 0 /\ outbreaks' = 0 /\ transcribing' = {} /\ inferring' = {} /\ heard' = {}
      /\ UNCHANGED <<outages, usage, finals>> /\ asr' = [tr \in Track |-> NewProvider]
  BY DEF Rematerialise
<1>3. CountType'
  BY <1>2, AudioAssumption DEF AudioInv, CountType
<1>4. NewProvider \in Provider /\ NewProvider.buf = <<>> /\ NewProvider.succeeded = 0 /\ NewProvider.dispatched = 0
  BY EmptySeq DEF NewProvider, Provider
<1>5. AsrType' /\ BufferOK'
  BY <1>2, <1>4, EmptySeq, AudioAssumption DEF AsrType, BufferOK
<1>6. SegmentType' /\ Segments' = {}
  BY <1>2 DEF SegmentType, Segments
<1>7. SegmentsOK'
  BY <1>2, <1>6 DEF SegmentsOK
<1> QED BY <1>1, <1>3, <1>5, <1>6, <1>7 DEF AudioInv

LEMMA AudioStep == AudioInv /\ [Next]_vars => AudioInv'
<1> SUFFICES ASSUME AudioInv, [Next]_vars PROVE AudioInv'
  OBVIOUS
<1>1. ASSUME NEW channels \in {1, 2}, NEW loud \in [Track -> BOOLEAN], PushAudio(channels, loud) PROVE AudioInv'
  BY <1>1, PushType, PushSegments DEF AudioInv
<1> QED BY <1>1, AnswerStep, OtherStep, RematerialiseStep DEF Next

LEMMA AudioAlways == Spec => []AudioInv
BY AudioInit, AudioStep, PTL DEF Spec

(* Type correctness of the pipeline's state.                                 *)
THEOREM TypeCorrect == Spec => []TypeOK
<1>1. AudioInv => TypeOK
  BY DEF AudioInv, FlagType, CountType, AsrType, SegmentType, TypeOK
<1> QED BY <1>1, AudioAlways, PTL
-----------------------------------------------------------------------------
(* Safety (wireAsr, flushPending): a label by channel is right for every     *)
(* frame of the segment, whatever mode changes came in between.              *)
THEOREM LabelsTrue == Spec => []SpeakerTrue
<1>1. ASSUME AudioInv, NEW d \in heard, NEW f \in FramesOf(d.segment)
      PROVE  d.speaker # "inferred" <=> f.channels = 2
  <2> DEFINE s == d.segment
  <2>1. s \in Segments /\ s \in Segment /\ d.speaker = Speaker(s)
    BY <1>1, AllSegments DEF AudioInv, SegmentsOK, Segments
  <2>2. OneVoice(s) /\ s.track \in Track /\ Len(s.frames) \in Nat \ {0}
    BY <1>1, <2>1, SegmentHas DEF AudioInv, SegmentsOK
  <2>3. PICK n \in 1..Len(s.frames) : f = s.frames[n]
    BY DEF FramesOf
  <2>4. f.channels = s.frames[1].channels /\ (s.track = "right" => s.frames[1].channels = 2)
    BY <2>2, <2>3 DEF OneVoice
  <2> HIDE DEF s
  <2> QED BY <2>1, <2>4 DEF Speaker
<1>2. AudioInv => SpeakerTrue
  BY <1>1 DEF SpeakerTrue
<1> QED BY <1>2, AudioAlways, PTL

(* Safety (Chunker, handleAudioFrame): no stretch of a track is heard twice. *)
THEOREM NothingTwice == Spec => []HeardOnce
<1>1. ASSUME AudioInv, NEW d \in heard, NEW e \in heard, d # e, d.segment.track = e.segment.track
      PROVE  FramesOf(d.segment) \cap FramesOf(e.segment) = {}
  <2>1. /\ d \in Final /\ e \in Final /\ d.segment \in Segments /\ e.segment \in Segments
        /\ d.speaker = Speaker(d.segment) /\ e.speaker = Speaker(e.segment)
    BY <1>1 DEF AudioInv, SegmentType, SegmentsOK, Segments
  <2>2. d.segment # e.segment
    BY <1>1, <2>1 DEF Final
  <2>3. Apart(d.segment.frames, e.segment.frames)
    BY <1>1, <2>1, <2>2 DEF AudioInv, SegmentsOK
  <2> QED BY <2>3 DEF Apart, FramesOf
<1>2. AudioInv => HeardOnce
  BY <1>1 DEF HeardOnce
<1> QED BY <1>2, AudioAlways, PTL

(* Action property (the consent gate of onAsrFinal, looked at again after    *)
(* the inference): what is delivered is delivered with consent.              *)
THEOREM ConsentGates == Spec => ConsentAtDelivery
<1>1. ASSUME [Next]_vars, ~(heard' \subseteq heard) PROVE consent
  <2>1. \A channels \in {1, 2}, loud \in [Track -> BOOLEAN] : PushAudio(channels, loud) => heard' = heard
    BY DEF PushAudio
  <2>2. \A granted \in BOOLEAN : SetConsent(granted) => heard' = heard
    BY DEF SetConsent
  <2>3. Dispose \/ UNCHANGED vars => heard' = heard
    BY DEF Dispose, vars
  <2>4. Rematerialise => heard' = {}
    BY DEF Rematerialise
  <2>5. ASSUME NEW s \in transcribing, Transcribed(s) \/ TranscribedBlank(s) \/ TranscriptionFails(s)
        PROVE  heard' = heard \/ consent
    BY <2>5 DEF Transcribed, TranscribedBlank, TranscriptionFails, OnAsrFinal
  <2>6. ASSUME NEW s \in inferring, SpeakerInferred(s) PROVE heard' = heard \/ consent
    BY <2>6 DEF SpeakerInferred, StillConsents
  <2> QED BY <1>1, <2>1, <2>2, <2>3, <2>4, <2>5, <2>6 DEF Next
<1>2. [Next]_vars => [~(heard' \subseteq heard) => consent]_vars
  BY <1>1
<1> QED BY <1>2, PTL DEF Spec, ConsentAtDelivery
-----------------------------------------------------------------------------
(* A live runtime counts as an outage exactly what is down, and a disposed   *)
(* one nothing; nothing that ends after its runtime is reported.             *)
OutageInv ==
  /\ outages = IF live THEN {tr \in Track : asr[tr].down} ELSE {}
  /\ toasts = outbreaks

LEMMA OutageInit == Init => OutageInv
BY DEF Init, OutageInv, NewProvider

LEMMA OutageStep == AudioInv /\ OutageInv /\ [Next]_vars => OutageInv'
<1> SUFFICES ASSUME AudioInv, OutageInv, [Next]_vars PROVE OutageInv'
  OBVIOUS
<1>0. asr \in [Track -> Provider] /\ toasts \in Nat
  BY DEF AudioInv, AsrType, CountType
<1>1. ASSUME live' = live, \A tr \in Track : asr'[tr].down = asr[tr].down, UNCHANGED <<outages, toasts, outbreaks>>
      PROVE  OutageInv'
  BY <1>1 DEF OutageInv
<1>2. ASSUME NEW channels \in {1, 2}, NEW loud \in [Track -> BOOLEAN], PushAudio(channels, loud) PROVE OutageInv'
  <2>1. live' = live /\ UNCHANGED <<outages, toasts, outbreaks>>
    BY <1>2, Zenon DEF PushAudio, history
  <2>2. ASSUME NEW tr \in Track PROVE asr'[tr].down = asr[tr].down
    <3> DEFINE b == IF tr \in Fed(channels) THEN Kept(Filled(tr, channels, loud)) ELSE Filled(tr, channels, loud)
               c == Cardinality(Sent(tr, channels, loud))
    <3>1. asr'[tr] = [asr[tr] EXCEPT !.buf = b, !.dispatched = @ + c]
      BY <1>2 DEF PushAudio
    <3>2. asr[tr] \in Provider
      BY <1>0
    <3> HIDE DEF b, c
    <3> QED BY <3>1, <3>2 DEF Provider
  <2> QED BY <1>1, <2>1, <2>2
<1>3. ASSUME NEW granted \in BOOLEAN, SetConsent(granted) PROVE OutageInv'
  <2>1. live' = live /\ asr' = asr /\ UNCHANGED <<outages, toasts, outbreaks>>
    BY <1>3, Zenon DEF SetConsent, asrVars
  <2> QED BY <1>1, <2>1
<1>4. ASSUME NEW s \in inferring, SpeakerInferred(s) PROVE OutageInv'
  <2>1. live' = live /\ asr' = asr /\ UNCHANGED <<outages, toasts, outbreaks>>
    BY <1>4, Zenon DEF SpeakerInferred, asrVars, history
  <2> QED BY <1>1, <2>1
<1>5. CASE UNCHANGED vars
  <2>1. live' = live /\ asr' = asr /\ UNCHANGED <<outages, toasts, outbreaks>>
    BY <1>5, Zenon DEF vars, asrVars, history
  <2> QED BY <1>1, <2>1
<1>6. CASE Dispose
  BY <1>6 DEF Dispose, OutageInv, history
<1>7. CASE Rematerialise
  BY <1>7 DEF Rematerialise, OutageInv, NewProvider
<1>8. ASSUME NEW s \in transcribing, Transcribed(s) \/ TranscribedBlank(s) PROVE OutageInv'
  <2>1. live' = live /\ toasts' = toasts /\ outbreaks' = outbreaks
    BY <1>8, Zenon DEF Transcribed, TranscribedBlank, history
  <2>2. /\ \A tr \in Track : asr'[tr].down = IF tr = s.track THEN FALSE ELSE asr[tr].down
        /\ outages' = IF asr[s.track].down THEN outages \ {s.track} ELSE outages
    BY <1>8, HealthyProvider DEF Transcribed, TranscribedBlank
  <2>3. s.track \in Track
    BY SegmentHas DEF AudioInv, SegmentType
  <2> QED BY <2>1, <2>2, <2>3 DEF OutageInv
<1>9. ASSUME NEW s \in transcribing, TranscriptionFails(s) PROVE OutageInv'
  <2>0. s.track \in Track
    BY SegmentHas DEF AudioInv, SegmentType
  <2>1. live' = live
    BY <1>9, Zenon DEF TranscriptionFails
  <2>2. CASE s.seq > asr[s.track].succeeded /\ ~asr[s.track].down
    <3>1. asr' = [asr EXCEPT ![s.track].down = TRUE]
      BY <1>9, <2>2 DEF TranscriptionFails
    <3>2. asr' # asr
      <4>1. asr'[s.track].down = TRUE
        BY <1>0, <2>0, <3>1 DEF Provider
      <4> QED BY <2>2, <4>1, Zenon
    <3>3. \A t \in Track : asr'[t].down = IF t = s.track THEN TRUE ELSE asr[t].down
      BY <2>0, <3>1, <3>2, FailedProvider
    <3>4. CASE live
      <4>1. /\ outages' = outages \cup {s.track}
            /\ toasts' = IF outages = {} THEN toasts + 1 ELSE toasts
            /\ outbreaks' = IF \E tr \in Track : asr[tr].down THEN outbreaks ELSE outbreaks + 1
        BY <1>9, <2>2, <3>4 DEF TranscriptionFails, FirstOutage
      <4>2. outages = {tr \in Track : asr[tr].down} /\ toasts = outbreaks
        BY <3>4 DEF OutageInv
      <4>3. toasts' = outbreaks'
        BY <4>1, <4>2
      <4>4. outages' = {tr \in Track : asr'[tr].down}
        BY <2>0, <3>3, <4>1, <4>2
      <4> QED BY <2>1, <3>4, <4>3, <4>4 DEF OutageInv
    <3>5. CASE ~live
      BY <1>9, <2>1, <2>2, <3>5 DEF TranscriptionFails, OutageInv
    <3> QED BY <3>4, <3>5
  <2>3. CASE ~(s.seq > asr[s.track].succeeded /\ ~asr[s.track].down)
    <3>1. asr' = asr /\ UNCHANGED <<outages, toasts, outbreaks>>
      BY <1>9, <2>3, Zenon DEF TranscriptionFails
    <3> QED BY <1>1, <2>1, <3>1
  <2> QED BY <2>2, <2>3
<1> QED BY <1>2, <1>3, <1>4, <1>5, <1>6, <1>7, <1>8, <1>9 DEF Next

(* Safety (hub.wireAsr): one message per outage, however many tracks go down *)
(* in it and in whatever order the answers come.                             *)
THEOREM OutageToldOnce == Spec => []OneToastPerOutage
<1>1. OutageInv => OneToastPerOutage
  BY DEF OutageInv, OneToastPerOutage
<1> QED BY <1>1, AudioInit, AudioStep, OutageInit, OutageStep, PTL DEF Spec

(* The first runtime has used the keys from 0 on, one for each final.        *)
BilledInv == made = 1 => chunkSeq = finals /\ usage = 0..(chunkSeq - 1)

LEMMA BilledInit == Init => BilledInv
BY DEF Init, BilledInv

LEMMA BilledStep == AudioInv /\ BilledInv /\ [Next]_vars => BilledInv'
<1> SUFFICES ASSUME AudioInv, BilledInv, [Next]_vars PROVE BilledInv'
  OBVIOUS
<1>0. chunkSeq \in Nat /\ finals \in Nat /\ usage \subseteq Nat /\ made \in Nat \ {0}
  BY DEF AudioInv, CountType
<1>1. ASSUME UNCHANGED <<made, chunkSeq, finals, usage>> PROVE BilledInv'
  BY <1>1 DEF BilledInv
<1>2. ASSUME NEW s \in transcribing, Transcribed(s) PROVE BilledInv'
  <2>1. made' = made /\ OnAsrFinal(s)
    BY <1>2 DEF Transcribed
  <2>2. CASE consent
    <3>1. finals' = finals + 1 /\ usage' = usage \cup {chunkSeq} /\ chunkSeq' = chunkSeq + 1
      BY <2>1, <2>2 DEF OnAsrFinal, ChunkKey
    <3>2. (0..(chunkSeq - 1)) \cup {chunkSeq} = 0..chunkSeq
      BY <1>0
    <3>3. chunkSeq + 1 - 1 = chunkSeq
      BY <1>0
    <3> QED BY <1>0, <2>1, <3>1, <3>2, <3>3 DEF BilledInv
  <2>3. CASE ~consent
    BY <1>1, <2>1, <2>3 DEF OnAsrFinal
  <2> QED BY <2>2, <2>3
<1>3. ASSUME NEW s \in transcribing, TranscribedBlank(s) \/ TranscriptionFails(s) PROVE BilledInv'
  BY <1>1, <1>3 DEF TranscribedBlank, TranscriptionFails, history
<1>4. \A channels \in {1, 2}, loud \in [Track -> BOOLEAN] : PushAudio(channels, loud) => BilledInv'
  BY <1>1 DEF PushAudio, history
<1>5. \A granted \in BOOLEAN : SetConsent(granted) => BilledInv'
  BY <1>1 DEF SetConsent
<1>6. \A s \in inferring : SpeakerInferred(s) => BilledInv'
  BY <1>1 DEF SpeakerInferred, history
<1>7. Dispose \/ UNCHANGED vars => BilledInv'
  BY <1>1 DEF Dispose, vars, history
<1>8. CASE Rematerialise
  BY <1>0, <1>8 DEF Rematerialise, BilledInv
<1> QED BY <1>2, <1>3, <1>4, <1>5, <1>6, <1>7, <1>8 DEF Next

(* Safety (onAsrFinal, usage_events): as long as the meeting has its first   *)
(* runtime, each final that was let through has a usage row of its own.      *)
THEOREM FirstRuntimeBills == Spec => []BilledByFirstRuntime
<1>1. AudioInv /\ BilledInv => BilledByFirstRuntime
  <2> SUFFICES ASSUME AudioInv, BilledInv, made = 1 PROVE Cardinality(usage) = finals
    BY DEF BilledByFirstRuntime, BilledEach
  <2>1. chunkSeq \in Nat /\ chunkSeq = finals /\ usage = 0..(chunkSeq - 1)
    BY DEF AudioInv, CountType, BilledInv
  <2>2. Cardinality(0..(chunkSeq - 1)) = IF 0 > chunkSeq - 1 THEN 0 ELSE chunkSeq - 1 - 0 + 1
    BY <2>1, FS_Interval
  <2> QED BY <2>1, <2>2
<1> QED BY <1>1, AudioInit, AudioStep, BilledInit, BilledStep, PTL DEF Spec
-----------------------------------------------------------------------------
(* Second part: Checklist.                                                  *)

(* The call chains in progress are those in the queue, each once.            *)
SchedOK ==
  /\ jobs \in [Job -> JobState] /\ queue \in Seq(Job)
  /\ \A j \in Job : Free(j) <=> ~Contains(queue, j)
  /\ \A m, n \in 1..Len(queue) : queue[m] = queue[n] => m = n

RowsType ==
  /\ status \in [Item -> Status] /\ by \in [Item -> Source]
  /\ dbHead \in -1..MaxIndex /\ head \in -1..MaxIndex
  /\ lastCommit \in {"never", "recent", "old"}
  /\ hint \subseteq Item /\ cooling \subseteq Item
  /\ timer \in BOOLEAN
  /\ hud \in [Item -> Status] \cup {NoSnapshot}
  /\ corrected \subseteq Item /\ owed \subseteq Item
  /\ faulted \in BOOLEAN

(* Where a call chain of each kind can be.                                   *)
InTransaction == {"update", "fnReturns", "commit"}

PhasesOf(k) ==
  CASE k = "free" -> {"free"} [] k = "head" -> InTransaction [] k = "snapshot" -> {"send"}
    [] k = "slide" -> {"listed", "begin", "after", "setPending"} \cup InTransaction
    [] k \in {"transcript", "check", "uncheck", "skip"} -> {"after", "setPending"} \cup InTransaction

Placed(job) ==
  /\ job.phase \in PhasesOf(job.kind)
  /\ job.kind = "head" => job.items = {}
  /\ job.kind \in {"check", "uncheck", "skip"} => \E it \in Item : job.items = {it}

AllPlaced == \A j \in Job : Placed(jobs[j])

ChecklistBase == RowsType /\ SchedOK /\ AllPlaced

LEMMA ChecklistTypes == RowsType /\ SchedOK => ChecklistTypeOK
BY DEF RowsType, SchedOK, ChecklistTypeOK, Free

(* The queue without one of its call chains.                                 *)
LEMMA RestOf ==
  ASSUME SchedOK, NEW j \in Job, Contains(queue, j)
  PROVE  /\ Rest(j) \in Seq(Job)
         /\ \A k \in Job : Contains(Rest(j), k) <=> k # j /\ Contains(queue, k)
         /\ \A m, n \in 1..Len(Rest(j)) : Rest(j)[m] = Rest(j)[n] => m = n
<1> DEFINE p == Place(j)
           front == SubSeq(queue, 1, p - 1)
           back == SubSeq(queue, p + 1, Len(queue))
<1>1. p \in 1..Len(queue) /\ queue[p] = j
  BY DEF Contains, Place
<1>2. queue \in Seq(Job) /\ Len(queue) \in Nat /\ \A m, n \in 1..Len(queue) : queue[m] = queue[n] => m = n
  BY DEF SchedOK
<1> HIDE DEF p
<1>3. front \in Seq(Job) /\ Len(front) = p - 1 /\ \A n \in 1..(p - 1) : front[n] = queue[n]
  BY <1>1, <1>2, SubSeqProperties
<1>4. back \in Seq(Job) /\ Len(back) = Len(queue) - p /\ \A n \in 1..(Len(queue) - p) : back[n] = queue[p + n]
  BY <1>1, <1>2, SubSeqProperties
<1>5. Rest(j) = front \o back
  BY DEF Rest, RemoveAt, p
<1> HIDE DEF front, back
<1>6. Rest(j) \in Seq(Job) /\ Len(Rest(j)) = Len(queue) - 1
  <2>1. Rest(j) \in Seq(Job) /\ Len(Rest(j)) = Len(front) + Len(back)
    BY <1>3, <1>4, <1>5, ConcatProperties
  <2> QED BY <1>1, <1>2, <1>3, <1>4, <2>1
<1>7. ASSUME NEW n \in 1..Len(Rest(j))
      PROVE  Rest(j)[n] = IF n < p THEN queue[n] ELSE queue[n + 1]
  <2>1. Rest(j)[n] = IF n <= Len(front) THEN front[n] ELSE back[n - Len(front)]
    BY <1>3, <1>4, <1>5, <1>7, ConcatProperties
  <2>2. CASE n < p
    BY <1>1, <1>3, <1>6, <1>7, <2>1, <2>2
  <2>3. CASE n >= p
    <3>1. n - (p - 1) \in 1..(Len(queue) - p) /\ p + (n - (p - 1)) = n + 1
      BY <1>1, <1>2, <1>6, <1>7, <2>3
    <3>2. Rest(j)[n] = back[n - (p - 1)]
      BY <1>1, <1>3, <2>1, <2>3
    <3> QED BY <1>1, <1>2, <1>4, <1>7, <2>3, <3>1, <3>2
  <2> QED BY <1>1, <1>2, <1>6, <1>7, <2>2, <2>3
<1>8. \A m, n \in 1..Len(Rest(j)) : Rest(j)[m] = Rest(j)[n] => m = n
  <2> TAKE m, n \in 1..Len(Rest(j))
  <2> DEFINE at(i) == IF i < p THEN i ELSE i + 1
  <2>1. \A i \in 1..Len(Rest(j)) : at(i) \in 1..Len(queue) /\ Rest(j)[i] = queue[at(i)]
    BY <1>1, <1>2, <1>6, <1>7
  <2>2. at(m) = at(n) => m = n
    BY <1>1, <1>2, <1>6
  <2> HIDE DEF at
  <2> QED BY <1>2, <2>1, <2>2
<1>9. ASSUME NEW k \in Job PROVE Contains(Rest(j), k) <=> k # j /\ Contains(queue, k)
  <2>1. ASSUME Contains(Rest(j), k) PROVE k # j /\ Contains(queue, k)
    <3>1. PICK n \in 1..Len(Rest(j)) : Rest(j)[n] = k
      BY <2>1 DEF Contains
    <3> DEFINE i == IF n < p THEN n ELSE n + 1
    <3>2. i \in 1..Len(queue) /\ queue[i] = k /\ i # p
      BY <1>1, <1>2, <1>6, <1>7, <3>1
    <3> QED BY <1>1, <1>2, <3>2 DEF Contains
  <2>2. ASSUME k # j, Contains(queue, k) PROVE Contains(Rest(j), k)
    <3>1. PICK i \in 1..Len(queue) : queue[i] = k
      BY <2>2 DEF Contains
    <3> DEFINE n == IF i < p THEN i ELSE i - 1
    <3>2. i # p
      BY <1>1, <2>2, <3>1
    <3>3. n \in 1..Len(Rest(j)) /\ (IF n < p THEN n ELSE n + 1) = i
      BY <1>1, <1>2, <1>6, <3>2
    <3>4. Rest(j)[n] = k
      BY <1>7, <3>1, <3>3
    <3> QED BY <3>3, <3>4 DEF Contains
  <2> QED BY <2>1, <2>2
<1> QED BY <1>6, <1>8, <1>9

(* A call chain is put behind the others.                                    *)
LEMMA AppendOf ==
  ASSUME NEW q \in Seq(Job), NEW j \in Job, ~Contains(q, j),
         \A m, n \in 1..Len(q) : q[m] = q[n] => m = n
  PROVE  /\ Append(q, j) \in Seq(Job)
         /\ \A k \in Job : Contains(Append(q, j), k) <=> k = j \/ Contains(q, k)
         /\ \A m, n \in 1..Len(Append(q, j)) : Append(q, j)[m] = Append(q, j)[n] => m = n
<1>1. /\ Append(q, j) \in Seq(Job) /\ Len(q) \in Nat /\ Len(Append(q, j)) = Len(q) + 1
      /\ Append(q, j)[Len(q) + 1] = j /\ \A n \in 1..Len(q) : Append(q, j)[n] = q[n]
  BY AppendProperties
<1>2. \A n \in 1..(Len(q) + 1) : n \in 1..Len(q) \/ n = Len(q) + 1
  BY <1>1
<1>3. \A n \in 1..Len(q) : q[n] # j
  BY DEF Contains
<1> HIDE DEF Contains
<1>4. \A k \in Job : Contains(Append(q, j), k) <=> k = j \/ Contains(q, k)
  BY <1>1, <1>2 DEF Contains
<1> QED BY <1>1, <1>2, <1>3, <1>4

LEMMA AppendTwoOf ==
  ASSUME NEW q \in Seq(Job), NEW j \in Job, NEW k \in Job
  PROVE  q \o <<j, k>> = Append(Append(q, j), k)
<1>1. <<j, k>> \in Seq(Job) /\ Len(<<j, k>>) = 2 /\ <<j, k>>[1] = j /\ <<j, k>>[2] = k
  OBVIOUS
<1>2. Append(q, j) \in Seq(Job) /\ Append(Append(q, j), k) \in Seq(Job)
  BY AppendProperties
<1> DEFINE a == q \o <<j, k>>
           b == Append(Append(q, j), k)
<1>3. a \in Seq(Job) /\ Len(a) = Len(q) + 2 /\ Len(q) \in Nat
  BY <1>1, ConcatProperties, LenProperties
<1>4. Len(b) = Len(q) + 2
  BY <1>2, <1>3, AppendProperties
<1>5. \A n \in 1..(Len(q) + 2) : a[n] = IF n <= Len(q) THEN q[n] ELSE <<j, k>>[n - Len(q)]
  BY <1>1, <1>3, ConcatProperties
<1>6. \A n \in 1..Len(q) : b[n] = q[n]
  BY <1>2, <1>3, AppendProperties
<1>7. b[Len(q) + 1] = j /\ b[Len(q) + 2] = k
  BY <1>2, <1>3, AppendProperties
<1>8. ASSUME NEW n \in 1..(Len(q) + 2) PROVE a[n] = b[n]
  <2>1. CASE n \in 1..Len(q)
    BY <1>3, <1>5, <1>6, <2>1
  <2>2. CASE n = Len(q) + 1
    <3>1. n - Len(q) = 1 /\ ~(n <= Len(q))
      BY <1>3, <2>2
    <3> QED BY <1>1, <1>5, <1>7, <2>2, <3>1
  <2>3. CASE n = Len(q) + 2
    <3>1. n - Len(q) = 2 /\ ~(n <= Len(q))
      BY <1>3, <2>3
    <3> QED BY <1>1, <1>5, <1>7, <2>3, <3>1
  <2> QED BY <1>3, <2>1, <2>2, <2>3
<1> HIDE DEF a, b
<1>9. a = b
  BY <1>2, <1>3, <1>4, <1>8, SeqEqual DEF b
<1> QED BY <1>9 DEF a, b

(* What the scheduler does to the set of call chains.                        *)
LEMMA Waiting ==
  ASSUME SchedOK, NEW j \in Job, Runs(j)
  PROVE  Contains(queue, j) /\ ~Free(j)
BY DEF SchedOK, Runs, Contains

LEMMA MinusOneIsAPage == ChecklistAssumption => -1 \in -1..MaxIndex
BY DEF ChecklistAssumption

LEMMA Began ==
  ASSUME SchedOK, AllPlaced, NEW j \in Job, NEW job \in JobState, job.kind # "free", Placed(job),
         Start(j, job)
  PROVE  SchedOK' /\ AllPlaced'
<1>1. /\ jobs \in [Job -> JobState] /\ queue \in Seq(Job) /\ ~Contains(queue, j)
      /\ \A k \in Job : Free(k) <=> ~Contains(queue, k)
      /\ \A m, n \in 1..Len(queue) : queue[m] = queue[n] => m = n
  BY DEF SchedOK, Start
<1>2. /\ jobs' \in [Job -> JobState] /\ jobs'[j] = job
      /\ \A k \in Job : k # j => jobs'[k] = jobs[k]
  BY <1>1 DEF Start
<1>3. queue' = Append(queue, j)
  BY DEF Start
<1>4. /\ queue' \in Seq(Job)
      /\ \A k \in Job : Contains(queue', k) <=> k = j \/ Contains(queue, k)
      /\ \A m, n \in 1..Len(queue') : queue'[m] = queue'[n] => m = n
  <2> HIDE DEF Contains
  <2> QED BY <1>1, <1>3, AppendOf
<1>5. \A k \in Job : Free(k)' <=> ~Contains(queue', k)
  <2> HIDE DEF Contains
  <2> QED BY <1>1, <1>2, <1>4 DEF Free
<1>6. SchedOK'
  <2> HIDE DEF Contains
  <2> QED BY <1>2, <1>4, <1>5 DEF SchedOK
<1> QED BY <1>2, <1>6 DEF AllPlaced

LEMMA Went ==
  ASSUME SchedOK, AllPlaced, NEW j \in Job, NEW job \in JobState, job.kind # "free", Placed(job),
         Runs(j), Continue(j, job)
  PROVE  SchedOK' /\ AllPlaced'
<1>1. /\ jobs \in [Job -> JobState] /\ queue \in Seq(Job) /\ Contains(queue, j)
      /\ \A k \in Job : Free(k) <=> ~Contains(queue, k)
  BY Waiting DEF SchedOK
<1>2. /\ jobs' \in [Job -> JobState] /\ jobs'[j] = job
      /\ \A k \in Job : k # j => jobs'[k] = jobs[k]
  BY <1>1 DEF Continue
<1>3. queue' = Append(Rest(j), j)
  BY DEF Continue
<1>4. /\ Rest(j) \in Seq(Job)
      /\ \A k \in Job : Contains(Rest(j), k) <=> k # j /\ Contains(queue, k)
      /\ \A m, n \in 1..Len(Rest(j)) : Rest(j)[m] = Rest(j)[n] => m = n
  BY <1>1, RestOf
<1>5. /\ queue' \in Seq(Job)
      /\ \A k \in Job : Contains(queue', k) <=> k = j \/ Contains(Rest(j), k)
      /\ \A m, n \in 1..Len(queue') : queue'[m] = queue'[n] => m = n
  <2> HIDE DEF Contains, Rest
  <2> QED BY <1>3, <1>4, AppendOf
<1>6. \A k \in Job : Free(k)' <=> ~Contains(queue', k)
  <2> HIDE DEF Contains, Rest
  <2> QED BY <1>1, <1>2, <1>4, <1>5 DEF Free
<1>7. SchedOK'
  <2> HIDE DEF Contains
  <2> QED BY <1>2, <1>5, <1>6 DEF SchedOK
<1> QED BY <1>2, <1>7 DEF AllPlaced

Over(job) == [job EXCEPT !.kind = "free", !.phase = "free", !.items = {}, !.page = -1,
                         !.read = AllPending]

LEMMA Ended ==
  ASSUME ChecklistAssumption, SchedOK, AllPlaced, NEW j \in Job, Runs(j), Finish(j)
  PROVE  SchedOK' /\ AllPlaced' /\ jobs' = [jobs EXCEPT ![j] = Over(jobs[j])]
<1>1. /\ jobs \in [Job -> JobState] /\ queue \in Seq(Job) /\ Contains(queue, j)
      /\ \A k \in Job : Free(k) <=> ~Contains(queue, k)
  BY Waiting DEF SchedOK
<1>2. jobs' = [jobs EXCEPT ![j] = Over(jobs[j])]
  BY DEF Finish, Over
<1>3. Over(jobs[j]) \in JobState /\ Over(jobs[j]).kind = "free" /\ Over(jobs[j]).phase = "free"
      /\ Over(jobs[j]).items = {}
  BY <1>1, MinusOneIsAPage DEF Over, JobState, Kind, Phase, Status, AllPending
<1>4. /\ jobs' \in [Job -> JobState] /\ jobs'[j] = Over(jobs[j])
      /\ \A k \in Job : k # j => jobs'[k] = jobs[k]
  BY <1>1, <1>2, <1>3
<1>5. /\ queue' \in Seq(Job)
      /\ \A k \in Job : Contains(queue', k) <=> k # j /\ Contains(queue, k)
      /\ \A m, n \in 1..Len(queue') : queue'[m] = queue'[n] => m = n
  BY <1>1, RestOf DEF Finish
<1>6. \A k \in Job : Free(k)' <=> ~Contains(queue', k)
  <2> HIDE DEF Contains
  <2> QED BY <1>1, <1>3, <1>4, <1>5 DEF Free
<1>7. SchedOK'
  <2> HIDE DEF Contains
  <2> QED BY <1>4, <1>5, <1>6 DEF SchedOK
<1>8. Placed(Over(jobs[j]))
  BY <1>3 DEF Placed, PhasesOf
<1> QED BY <1>2, <1>4, <1>7, <1>8 DEF AllPlaced

LEMMA JobIsTyped ==
  ASSUME ChecklistAssumption, RowsType, NEW k \in Kind, NEW p \in Phase, NEW S \in SUBSET Item,
         NEW i \in -1..MaxIndex
  PROVE  NewJob(k, p, S, i) \in JobState
BY DEF NewJob, JobState, RowsType

LEMMA BaseInit == ChecklistAssumption /\ ChecklistInit => ChecklistBase
<1> SUFFICES ASSUME ChecklistAssumption, ChecklistInit PROVE ChecklistBase
  OBVIOUS
<1>1. RowsType
  BY MinusOneIsAPage DEF ChecklistInit, RowsType, AllPending, Status, Source
<1>2. jobs = [j \in Job |-> NewJob("free", "free", {}, -1)] /\ queue = <<>>
  BY DEF ChecklistInit
<1>3. jobs \in [Job -> JobState]
  BY <1>1, <1>2, MinusOneIsAPage, JobIsTyped DEF Kind, Phase
<1>4. \A j \in Job : Free(j) /\ ~Contains(queue, j) /\ Placed(jobs[j])
  BY <1>2 DEF Free, NewJob, Placed, PhasesOf, Contains
<1>5. SchedOK
  <2> HIDE DEF Contains
  <2> QED BY <1>2, <1>3, <1>4 DEF SchedOK
<1> QED BY <1>1, <1>4, <1>5 DEF ChecklistBase, AllPlaced

(* The events: each puts the call chains it starts behind the others.        *)
LEMMA EventsKeepBase ==
  ASSUME ChecklistAssumption, ChecklistBase,
         \/ \E j \in Job : TimerFires(j) \/ HudJoins(j)
         \/ \E j \in Job, it \in Item, a \in {"check", "uncheck", "skip"} : Manual(it, a, j)
         \/ \E j \in Job, S \in SUBSET Item : Analysed(S, j)
         \/ \E j, k \in Job, i \in 0..MaxIndex : PageCommit(i, j, k)
         \/ \E it \in Item : WindowTurns(it)
         \/ TwentySecondsPass
  PROVE  ChecklistBase'
<1> USE DEF ChecklistBase
<1>1. ASSUME NEW j \in Job, TimerFires(j) \/ HudJoins(j) PROVE ChecklistBase'
  <2>1. NewJob("snapshot", "send", {}, -1) \in JobState
    BY JobIsTyped, MinusOneIsAPage DEF Kind, Phase
  <2>2. NewJob("snapshot", "send", {}, -1).kind # "free" /\ Placed(NewJob("snapshot", "send", {}, -1))
    BY DEF NewJob, Placed, PhasesOf
  <2>3. Start(j, NewJob("snapshot", "send", {}, -1))
    BY <1>1 DEF TimerFires, HudJoins
  <2>4. SchedOK' /\ AllPlaced'
    BY <2>1, <2>2, <2>3, Began
  <2>5. RowsType'
    BY <1>1 DEF RowsType, TimerFires, HudJoins, dbVars, histVars
  <2> QED BY <2>4, <2>5
<1>2. ASSUME NEW j \in Job, NEW it \in Item, NEW a \in {"check", "uncheck", "skip"}, Manual(it, a, j)
      PROVE  ChecklistBase'
  <2>1. NewJob(a, "update", {it}, -1) \in JobState
    BY JobIsTyped, MinusOneIsAPage DEF Kind, Phase
  <2>2. NewJob(a, "update", {it}, -1).kind # "free" /\ Placed(NewJob(a, "update", {it}, -1))
    BY DEF NewJob, Placed, PhasesOf, InTransaction
  <2>3. SchedOK' /\ AllPlaced'
    BY <1>2, <2>1, <2>2, Began DEF Manual
  <2>4. RowsType'
    BY <1>2 DEF RowsType, Manual, dbVars, memVars, histVars
  <2> QED BY <2>3, <2>4
<1>3. ASSUME NEW j \in Job, NEW S \in SUBSET Item, Analysed(S, j) PROVE ChecklistBase'
  <2> DEFINE P == Pending(status, Targets(S))
  <2>1. P \in SUBSET Item
    BY DEF Pending, Targets
  <2>2. NewJob("transcript", "update", P, -1) \in JobState
    BY <2>1, JobIsTyped, MinusOneIsAPage DEF Kind, Phase
  <2>3. NewJob("transcript", "update", P, -1).kind # "free" /\ Placed(NewJob("transcript", "update", P, -1))
    BY DEF NewJob, Placed, PhasesOf, InTransaction
  <2>4. SchedOK' /\ AllPlaced'
    BY <1>3, <2>2, <2>3, Began DEF Analysed
  <2>5. RowsType'
    BY <1>3 DEF RowsType, Analysed, dbVars, memVars, histVars
  <2> QED BY <2>4, <2>5
<1>4. ASSUME NEW j \in Job, NEW k \in Job, NEW i \in 0..MaxIndex, PageCommit(i, j, k)
      PROVE  ChecklistBase'
  <2> DEFINE H == NewJob("head", "update", {}, i)
             L == NewJob("slide", "listed", {}, head)
  <2>1. i \in -1..MaxIndex /\ head \in -1..MaxIndex
    BY DEF ChecklistAssumption, RowsType
  <2>2. H \in JobState /\ L \in JobState
    BY <2>1, JobIsTyped DEF Kind, Phase
  <2>3. H.kind # "free" /\ Placed(H) /\ L.kind # "free" /\ Placed(L)
    BY DEF NewJob, Placed, PhasesOf, InTransaction
  <2> HIDE DEF H, L
  <2>4. RowsType'
    BY <1>4, <2>1 DEF RowsType, PageCommit, dbVars, Pending
  <2>5. CASE Start(k, H)
    BY <2>2, <2>3, <2>4, <2>5, Began
  <2>6. CASE /\ Free(j) /\ Free(k) /\ j # k
             /\ jobs' = [jobs EXCEPT ![j] = L, ![k] = H]
             /\ queue' = queue \o <<j, k>>
    <3>1. /\ jobs \in [Job -> JobState] /\ queue \in Seq(Job) /\ ~Contains(queue, j) /\ ~Contains(queue, k)
          /\ \A m \in Job : Free(m) <=> ~Contains(queue, m)
          /\ \A m, n \in 1..Len(queue) : queue[m] = queue[n] => m = n
      BY <2>6 DEF SchedOK
    <3>2. /\ jobs' \in [Job -> JobState] /\ jobs'[j] = L /\ jobs'[k] = H
          /\ \A m \in Job \ {j, k} : jobs'[m] = jobs[m]
      BY <2>2, <2>6, <3>1
    <3> DEFINE q == Append(queue, j)
    <3>3. queue' = Append(q, k)
      BY <2>6, <3>1, AppendTwoOf
    <3>4. /\ q \in Seq(Job)
          /\ \A m \in Job : Contains(q, m) <=> m = j \/ Contains(queue, m)
          /\ \A m, n \in 1..Len(q) : q[m] = q[n] => m = n
      <4> HIDE DEF Contains
      <4> QED BY <3>1, AppendOf
    <3> HIDE DEF q
    <3>5. /\ queue' \in Seq(Job)
          /\ \A m \in Job : Contains(queue', m) <=> m = k \/ Contains(q, m)
          /\ \A m, n \in 1..Len(queue') : queue'[m] = queue'[n] => m = n
      <4>1. ~Contains(q, k)
        <5> HIDE DEF Contains
        <5> QED BY <2>6, <3>1, <3>4
      <4> HIDE DEF Contains
      <4> QED BY <3>3, <3>4, <4>1, AppendOf
    <3>6. \A m \in Job : Free(m)' <=> ~Contains(queue', m)
      <4> HIDE DEF Contains
      <4> QED BY <2>3, <3>1, <3>2, <3>4, <3>5 DEF Free
    <3>7. SchedOK'
      <4> HIDE DEF Contains
      <4> QED BY <3>2, <3>5, <3>6 DEF SchedOK
    <3> QED BY <2>3, <2>4, <3>2, <3>7 DEF AllPlaced
  <2> QED BY <1>4, <2>5, <2>6 DEF PageCommit, H, L
<1>5. ASSUME NEW it \in Item, WindowTurns(it) PROVE ChecklistBase'
  <2>1. UNCHANGED <<jobs, queue>>
    BY <1>5 DEF WindowTurns
  <2>2. RowsType'
    BY <1>5 DEF RowsType, WindowTurns, dbVars
  <2> QED BY <2>1, <2>2 DEF SchedOK, AllPlaced, Free
<1>6. CASE TwentySecondsPass
  <2>1. UNCHANGED <<jobs, queue>>
    BY <1>6 DEF TwentySecondsPass
  <2>2. RowsType'
    BY <1>6 DEF RowsType, TwentySecondsPass, dbVars, histVars
  <2> QED BY <2>1, <2>2 DEF SchedOK, AllPlaced, Free
<1> QED BY <1>1, <1>2, <1>3, <1>4, <1>5, <1>6

(* The continuations: each leaves its call chain at the next await, or ended. *)
LEMMA StepsKeepBase ==
  ASSUME ChecklistAssumption, ChecklistBase, NEW j \in Job, Step(j)
  PROVE  ChecklistBase'
<1> USE DEF ChecklistBase
<1> DEFINE job == jobs[j]
<1>1. /\ Runs(j) /\ job \in JobState /\ job.kind # "free" /\ Placed(job)
  BY Waiting DEF Step, SchedOK, Free, AllPlaced
<1>2. ASSUME NEW from, NEW to \in Phase, Advance(j, from, to), to \in PhasesOf(job.kind)
      PROVE  ChecklistBase'
  <2>1. [job EXCEPT !.phase = to] \in JobState
    BY <1>1 DEF JobState
  <2>2. [job EXCEPT !.phase = to].kind # "free" /\ Placed([job EXCEPT !.phase = to])
    BY <1>1, <1>2 DEF JobState, Placed
  <2>3. SchedOK' /\ AllPlaced'
    BY <1>1, <1>2, <2>1, <2>2, Went DEF Advance
  <2>4. RowsType'
    BY <1>2 DEF RowsType, Advance, dbVars, memVars, histVars
  <2> QED BY <2>3, <2>4
<1>3. CASE Advance(j, "listed", "begin")
  <2>1. "begin" \in PhasesOf(job.kind)
    BY <1>1, <1>3 DEF Advance, Placed, PhasesOf, InTransaction, JobState, Kind
  <2> QED BY <1>2, <1>3, <2>1 DEF Phase
<1>4. CASE Begin(j)
  <2> DEFINE bound == {i \in Pending(job.read, Item) : PageOf[i] = job.page}
             next == [job EXCEPT !.phase = "update", !.items = Pending(status, bound)]
  <2>1. Finish(j) \/ Continue(j, next)
    BY <1>4 DEF Begin
  <2>2. job.kind = "slide"
    BY <1>1, <1>4 DEF Begin, Placed, PhasesOf, InTransaction, JobState, Kind
  <2>3. Pending(status, bound) \subseteq Item
    BY DEF Pending
  <2>4. next \in JobState
    BY <1>1, <2>3 DEF JobState, Phase
  <2>5. next.kind # "free" /\ Placed(next)
    BY <1>1, <2>2 DEF JobState, Placed, PhasesOf, InTransaction
  <2>6. SchedOK' /\ AllPlaced'
    <3> HIDE DEF next, job
    <3> QED BY <1>1, <2>1, <2>4, <2>5, Went, Ended
  <2>7. RowsType'
    BY <1>4 DEF RowsType, Begin, dbVars, memVars, histVars
  <2> QED BY <2>6, <2>7
<1>5. CASE Update(j)
  <2>1. "fnReturns" \in PhasesOf(job.kind)
    BY <1>1, <1>5 DEF Update, Advance, Placed, PhasesOf, InTransaction, JobState, Kind
  <2> QED BY <1>2, <1>5, <2>1 DEF Phase, Update
<1>6. CASE Advance(j, "fnReturns", "commit")
  <2>1. "commit" \in PhasesOf(job.kind)
    BY <1>1, <1>6 DEF Advance, Placed, PhasesOf, InTransaction, JobState, Kind
  <2> QED BY <1>2, <1>6, <2>1 DEF Phase
<1>7. CASE Commit(j)
  <2> DEFINE next == [job EXCEPT !.phase = "after"]
  <2>1. (job.items = {} /\ Finish(j)) \/ (job.items # {} /\ Continue(j, next))
    BY <1>7 DEF Commit
  <2>2. next \in JobState
    BY <1>1 DEF JobState, Phase
  <2>3. job.items # {} => next.kind # "free" /\ Placed(next)
    BY <1>1, <1>7 DEF JobState, Kind, Placed, PhasesOf, InTransaction, Commit
  <2>4. SchedOK' /\ AllPlaced'
    <3> HIDE DEF next
    <3> QED BY <1>1, <2>1, <2>2, <2>3, Went, Ended
  <2>5. RowsType'
    <3>1. /\ job.items \subseteq Item /\ job.page \in -1..MaxIndex /\ NewStatus(job.kind) \in Status
          /\ (job.items # {} => NewSource(job.kind) \in Source)
      BY <1>1, <1>7 DEF JobState, Kind, NewStatus, NewSource, Status, Source, Placed, PhasesOf, Commit
    <3>2. status' \in [Item -> Status] /\ by' \in [Item -> Source] /\ dbHead' \in -1..MaxIndex
      BY <1>7, <3>1 DEF RowsType, Commit
    <3>3. corrected' \subseteq Item /\ owed' \subseteq Item
      BY <1>7, <3>1 DEF RowsType, Commit
    <3> QED BY <1>7, <3>2, <3>3 DEF RowsType, Commit, memVars
  <2> QED BY <2>4, <2>5
<1>8. CASE After(j)
  <2> DEFINE next == [job EXCEPT !.phase = "setPending", !.read = status]
  <2>1. next \in JobState
    BY <1>1 DEF JobState, Phase, RowsType
  <2>2. next.kind # "free" /\ Placed(next)
    BY <1>1, <1>8 DEF JobState, Kind, Placed, PhasesOf, InTransaction, After
  <2>3. SchedOK' /\ AllPlaced'
    <3> HIDE DEF next
    <3>1. Continue(j, next)
      BY <1>8 DEF After, next
    <3> QED BY <1>1, <2>1, <2>2, <3>1, Went
  <2>4. RowsType'
    BY <1>1, <1>8 DEF RowsType, After, dbVars, histVars, JobState
  <2> QED BY <2>3, <2>4
<1>9. CASE SetPending(j) \/ Send(j) \/ Fails(j)
  <2>1. SchedOK' /\ AllPlaced'
    BY <1>1, <1>9, Ended DEF SetPending, Send, Fails
  <2>2. RowsType'
    BY <1>1, <1>9 DEF RowsType, SetPending, Send, Fails, dbVars, memVars, histVars, JobState, Pending
  <2> QED BY <2>1, <2>2
<1> QED BY <1>3, <1>4, <1>5, <1>6, <1>7, <1>8, <1>9 DEF Step

LEMMA BaseKept == ChecklistAssumption /\ ChecklistBase /\ [ChecklistNext]_checklistVars => ChecklistBase'
<1> SUFFICES ASSUME ChecklistAssumption, ChecklistBase, [ChecklistNext]_checklistVars
             PROVE  ChecklistBase'
  OBVIOUS
<1>1. CASE UNCHANGED checklistVars
  BY <1>1 DEF checklistVars, dbVars, memVars, histVars, ChecklistBase, RowsType, SchedOK, AllPlaced, Free
<1>2. CASE \E j \in Job : Step(j)
  BY <1>2, StepsKeepBase
<1> QED BY <1>1, <1>2, EventsKeepBase DEF ChecklistNext

(* Type correctness of the checklist, on either driver.                      *)
THEOREM ChecklistTyped == ChecklistSpec => []ChecklistTypeOK
<1>1. ChecklistInit => ChecklistBase
  BY ChecklistAssumption, BaseInit
<1>2. ChecklistBase /\ [ChecklistNext]_checklistVars => ChecklistBase'
  BY ChecklistAssumption, BaseKept
<1>3. ChecklistBase => ChecklistTypeOK
  BY ChecklistTypes DEF ChecklistBase
<1> QED BY <1>1, <1>2, <1>3, PTL DEF ChecklistSpec
-----------------------------------------------------------------------------
(* One connection (Serialised): what holds between any two statements.       *)

(* Two call chains at once are those of one page_commit, and the tick-off of  *)
(* the page that was left has not begun its transaction.                     *)
BesideHead(a, b) == a.kind = "head" /\ b.kind = "slide" /\ b.phase \in {"listed", "begin"}

Paired ==
  \A j, k \in Job : j # k /\ ~Free(j) /\ ~Free(k) =>
     BesideHead(jobs[j], jobs[k]) \/ BesideHead(jobs[k], jobs[j])

(* What a call chain holds is still so: what it ticks off is pending and not  *)
(* unticked, what it has read are the rows, the head it saves is the head.   *)
Fits(job) ==
  /\ job.phase \in InTransaction /\ job.kind \in {"transcript", "slide"}
       => job.items \subseteq Pending(status, Item)
  /\ job.phase \in InTransaction /\ job.kind = "transcript" => job.items \cap corrected = {}
  /\ job.phase \in {"listed", "begin", "setPending", "send"} => job.read = status
  /\ job.kind = "head" => job.page = head

AllFit == \A j \in Job : Fits(jobs[j])

HeadSaved ==
  /\ dbHead <= head
  /\ faulted \/ dbHead = head \/ \E j \in Job : jobs[j].kind = "head"

(* What differs from the rows is about to be told.                           *)
HudTold ==
  faulted \/ timer \/ hud = status \/ \E j \in Job : jobs[j].phase \in {"after", "send"}

EngineTold ==
  faulted \/ hint = Pending(status, Item) \/ \E j \in Job : jobs[j].phase \in {"after", "setPending"}

(* What was unticked cools down, or its call chain is about to note it.      *)
Cooled(it) ==
  it \in cooling \/ \E j \in Job : /\ jobs[j].kind = "uncheck" /\ jobs[j].phase = "after"
                                   /\ it \in jobs[j].items

UntickKept == \A it \in corrected : by[it] # "transcript" /\ Cooled(it)

SerialInv == Paired /\ AllFit /\ HeadSaved /\ HudTold /\ EngineTold /\ UntickKept

LEMMA FreeIsFree == ASSUME AllPlaced, NEW j \in Job, Free(j) PROVE jobs[j].phase = "free"
BY DEF AllPlaced, Placed, PhasesOf, Free

LEMMA NothingRuns ==
  ASSUME SchedOK, AllPlaced, queue = <<>>
  PROVE  \A j \in Job : Free(j) /\ jobs[j].kind = "free" /\ jobs[j].phase = "free"
<1>1. \A j \in Job : Free(j)
  BY DEF SchedOK, Contains
<1> QED BY <1>1, FreeIsFree DEF Free

LEMMA SerialInit == ChecklistAssumption /\ ChecklistInit => SerialInv
<1> SUFFICES ASSUME ChecklistAssumption, ChecklistInit PROVE SerialInv
  OBVIOUS
<1>1. \A j \in Job : jobs[j].kind = "free" /\ jobs[j].phase = "free"
  BY DEF ChecklistInit, NewJob
<1>2. Paired /\ AllFit
  BY <1>1 DEF Paired, Free, AllFit, Fits, InTransaction
<1>3. hint = Pending(status, Item)
  <2>1. hint = Item /\ \A i \in Item : status[i] = "pending"
    BY DEF ChecklistInit, AllPending
  <2> QED BY <2>1 DEF Pending
<1>4. HeadSaved
  BY DEF ChecklistInit, HeadSaved
<1>5. hud = status /\ corrected = {}
  BY DEF ChecklistInit
<1> QED BY <1>2, <1>3, <1>4, <1>5 DEF SerialInv, HudTold, EngineTold, UntickKept

(* An event finds nothing in progress.                                       *)
LEMMA EventStartsOne ==
  ASSUME ChecklistBase, SerialInv, Quiet, Serialised, NEW j \in Job, NEW job, Start(j, job)
  PROVE  /\ \A k \in Job : Free(k) /\ jobs[k].phase = "free"
         /\ jobs'[j] = job /\ \A k \in Job \ {j} : jobs'[k] = jobs[k] /\ Free(k)'
         /\ Paired'
         /\ (faulted \/ timer \/ hud = status) /\ (faulted \/ hint = Pending(status, Item))
         /\ (faulted \/ dbHead = head) /\ corrected \subseteq cooling
<1>1. \A k \in Job : Free(k) /\ jobs[k].kind = "free" /\ jobs[k].phase = "free"
  BY NothingRuns DEF ChecklistBase, Quiet
<1>2. jobs'[j] = job /\ \A k \in Job \ {j} : jobs'[k] = jobs[k]
  BY DEF Start, ChecklistBase, SchedOK
<1>3. \A k \in Job \ {j} : Free(k)'
  BY <1>1, <1>2 DEF Free
<1>4. Paired'
  BY <1>3 DEF Paired
<1> QED BY <1>1, <1>2, <1>3, <1>4 DEF SerialInv, HudTold, EngineTold, HeadSaved, UntickKept, Cooled

LEMMA FreeFits == ASSUME NEW job, job.kind = "free", job.phase = "free" PROVE Fits(job)
BY DEF Fits, InTransaction

LEMMA EventsKeepSerial ==
  ASSUME ChecklistAssumption, Serialised, ChecklistBase, SerialInv,
         \/ \E j \in Job : TimerFires(j) \/ HudJoins(j)
         \/ \E j \in Job, it \in Item, a \in {"check", "uncheck", "skip"} : Manual(it, a, j)
         \/ \E j \in Job, S \in SUBSET Item : Analysed(S, j)
         \/ \E j, k \in Job, i \in 0..MaxIndex : PageCommit(i, j, k)
         \/ \E it \in Item : WindowTurns(it)
         \/ TwentySecondsPass
  PROVE  SerialInv'
<1>1. ASSUME NEW j \in Job, TimerFires(j) \/ HudJoins(j) PROVE SerialInv'
  <2> DEFINE job == NewJob("snapshot", "send", {}, -1)
  <2>1. /\ \A k \in Job : Free(k) /\ jobs[k].phase = "free"
        /\ jobs'[j] = job /\ \A k \in Job \ {j} : jobs'[k] = jobs[k] /\ Free(k)'
        /\ Paired'
        /\ (faulted \/ timer \/ hud = status) /\ (faulted \/ hint = Pending(status, Item))
        /\ (faulted \/ dbHead = head) /\ corrected \subseteq cooling
    BY <1>1, EventStartsOne DEF TimerFires, HudJoins
  <2>2. UNCHANGED <<status, by, dbHead, head, hint, cooling, corrected, faulted>>
    BY <1>1 DEF TimerFires, HudJoins, dbVars, histVars
  <2>3. AllFit'
    BY <2>1, <2>2 DEF AllFit, Fits, NewJob, Free, InTransaction
  <2>4. HudTold'
    BY <2>1 DEF HudTold, NewJob
  <2>5. HeadSaved' /\ EngineTold' /\ UntickKept'
    BY <2>1, <2>2 DEF SerialInv, HeadSaved, EngineTold, Pending, UntickKept, Cooled
  <2> QED BY <2>1, <2>3, <2>4, <2>5 DEF SerialInv
<1>2. ASSUME NEW j \in Job, NEW it \in Item, NEW a \in {"check", "uncheck", "skip"}, Manual(it, a, j)
      PROVE  SerialInv'
  <2> DEFINE job == NewJob(a, "update", {it}, -1)
  <2>1. /\ \A k \in Job : Free(k) /\ jobs[k].phase = "free"
        /\ jobs'[j] = job /\ \A k \in Job \ {j} : jobs'[k] = jobs[k] /\ Free(k)'
        /\ Paired'
        /\ (faulted \/ timer \/ hud = status) /\ (faulted \/ hint = Pending(status, Item))
        /\ (faulted \/ dbHead = head) /\ corrected \subseteq cooling
    BY <1>2, EventStartsOne DEF Manual
  <2>2. UNCHANGED <<dbVars, memVars, histVars>>
    BY <1>2 DEF Manual
  <2>3. AllFit'
    BY <2>1, <2>2 DEF AllFit, Fits, NewJob, Free, InTransaction, dbVars, memVars, histVars
  <2>4. HeadSaved' /\ HudTold' /\ EngineTold' /\ UntickKept'
    BY <2>1, <2>2 DEF SerialInv, HeadSaved, HudTold, EngineTold, Pending, UntickKept, Cooled,
                      dbVars, memVars, histVars
  <2> QED BY <2>1, <2>3, <2>4 DEF SerialInv
<1>3. ASSUME NEW j \in Job, NEW S \in SUBSET Item, Analysed(S, j) PROVE SerialInv'
  <2> DEFINE P == Pending(status, Targets(S))
             job == NewJob("transcript", "update", P, -1)
  <2>1. /\ \A k \in Job : Free(k) /\ jobs[k].phase = "free"
        /\ jobs'[j] = job /\ \A k \in Job \ {j} : jobs'[k] = jobs[k] /\ Free(k)'
        /\ Paired'
        /\ (faulted \/ timer \/ hud = status) /\ (faulted \/ hint = Pending(status, Item))
        /\ (faulted \/ dbHead = head) /\ corrected \subseteq cooling
    BY <1>3, EventStartsOne DEF Analysed
  <2>2. UNCHANGED <<dbVars, memVars, histVars>>
    BY <1>3 DEF Analysed
  <2>3. P \subseteq Pending(status, Item) /\ P \cap corrected = {}
    BY <2>1 DEF Pending, Targets
  <2>4. Fits(job)'
    <3>1. job.kind = "transcript" /\ job.phase = "update" /\ job.items = P
      BY DEF NewJob
    <3> HIDE DEF job
    <3>2. Fits(job)
      BY <2>3, <3>1 DEF Fits
    <3>3. job' = job
      BY <2>2 DEF job, NewJob, Pending, Targets, dbVars, memVars
    <3> QED BY <2>2, <3>2, <3>3 DEF Fits, Pending, dbVars, memVars, histVars
  <2>5. AllFit'
    <3>1. ASSUME NEW k \in Job \ {j} PROVE Fits(jobs[k])'
      <4>1. jobs'[k] = jobs[k] /\ jobs[k].kind = "free" /\ jobs[k].phase = "free"
        BY <2>1 DEF Free
      <4> QED BY <4>1 DEF Fits, InTransaction
    <3>2. Fits(jobs[j])'
      <4> HIDE DEF job
      <4>1. jobs'[j] = job /\ job' = job
        <5>1. job' = job
          BY <2>2 DEF job, NewJob, Pending, Targets, dbVars, memVars
        <5> QED BY <2>1, <5>1
      <4> QED BY <2>4, <4>1 DEF Fits
    <3> QED BY <3>1, <3>2 DEF AllFit
  <2>6. HeadSaved' /\ HudTold' /\ EngineTold' /\ UntickKept'
    BY <2>1, <2>2 DEF SerialInv, HeadSaved, HudTold, EngineTold, Pending, UntickKept, Cooled,
                      dbVars, memVars, histVars
  <2> QED BY <2>1, <2>5, <2>6 DEF SerialInv
<1>4. ASSUME NEW j \in Job, NEW k \in Job, NEW i \in 0..MaxIndex, PageCommit(i, j, k)
      PROVE  SerialInv'
  <2> DEFINE H == NewJob("head", "update", {}, i)
             L == NewJob("slide", "listed", {}, head)
  <2>1. /\ \A m \in Job : Free(m) /\ jobs[m].kind = "free" /\ jobs[m].phase = "free"
        /\ j # k /\ i > head /\ head' = i
    BY <1>4, NothingRuns DEF PageCommit, Quiet, ChecklistBase
  <2>2. UNCHANGED <<status, by, dbHead, hint, cooling, timer, hud, corrected, faulted>>
    BY <1>4 DEF PageCommit, dbVars
  <2>3. /\ jobs'[k] = H /\ jobs'[j] \in {L, jobs[j]}
        /\ \A m \in Job \ {j, k} : jobs'[m] = jobs[m]
    BY <1>4 DEF PageCommit, Start, ChecklistBase, SchedOK
  <2>4. /\ H.kind = "head" /\ H.phase = "update" /\ H.page = i
        /\ L.kind = "slide" /\ L.phase = "listed" /\ L.read = status
    BY DEF NewJob
  <2> HIDE DEF H, L
  <2>5. Paired'
    BY <2>1, <2>3, <2>4 DEF Paired, BesideHead, Free
  <2>6. AllFit'
    <3>1. Fits(jobs[k])'
      BY <2>1, <2>3, <2>4 DEF Fits
    <3>2. Fits(jobs[j])'
      BY <2>1, <2>2, <2>3, <2>4 DEF Fits, InTransaction
    <3>3. ASSUME NEW m \in Job \ {j, k} PROVE Fits(jobs[m])'
      BY <2>1, <2>3, <3>3 DEF Fits, InTransaction
    <3> QED BY <3>1, <3>2, <3>3 DEF AllFit
  <2>7. HeadSaved'
    <3>1. dbHead <= head /\ head \in -1..MaxIndex /\ dbHead \in -1..MaxIndex /\ MaxIndex \in Nat
      BY DEF SerialInv, HeadSaved, ChecklistBase, RowsType, ChecklistAssumption
    <3>2. dbHead' <= head'
      BY <2>1, <2>2, <3>1
    <3> QED BY <2>3, <2>4, <3>2 DEF HeadSaved
  <2>8. HudTold' /\ EngineTold' /\ UntickKept'
    BY <2>1, <2>2 DEF SerialInv, HudTold, EngineTold, Pending, UntickKept, Cooled
  <2> QED BY <2>5, <2>6, <2>7, <2>8 DEF SerialInv
<1>5. ASSUME NEW it \in Item, WindowTurns(it) PROVE SerialInv'
  <2>1. UNCHANGED <<status, by, dbHead, head, hint, timer, hud, jobs, faulted>>
    BY <1>5 DEF WindowTurns, dbVars
  <2>2. corrected' = corrected \ {it} /\ cooling' = cooling \ {it}
    BY <1>5 DEF WindowTurns
  <2>3. Paired' /\ AllFit'
    BY <2>1, <2>2 DEF SerialInv, Paired, BesideHead, Free, AllFit, Fits, Pending
  <2>4. HeadSaved' /\ HudTold' /\ EngineTold'
    BY <2>1 DEF SerialInv, HeadSaved, HudTold, EngineTold, Pending
  <2>5. UntickKept'
    BY <2>1, <2>2 DEF SerialInv, UntickKept, Cooled
  <2> QED BY <2>3, <2>4, <2>5 DEF SerialInv
<1>6. CASE TwentySecondsPass
  <2>1. UNCHANGED <<status, by, dbHead, head, hint, cooling, timer, hud, jobs, corrected, faulted>>
    BY <1>6 DEF TwentySecondsPass, dbVars, histVars
  <2> QED BY <2>1 DEF SerialInv, Paired, BesideHead, Free, AllFit, Fits, HeadSaved, HudTold,
                      EngineTold, Pending, UntickKept, Cooled
<1> QED BY <1>1, <1>2, <1>3, <1>4, <1>5, <1>6

(* A continuation that only moves on inside its own transaction.             *)
LEMMA MovesOn ==
  ASSUME ChecklistBase, SerialInv, NEW j \in Job, NEW job,
         UNCHANGED <<dbVars, memVars, histVars>>,
         jobs' = [jobs EXCEPT ![j] = job],
         jobs[j].phase \notin {"after", "setPending", "send"},
         job.kind = jobs[j].kind \/ (job.kind = "free" /\ jobs[j].kind # "head"),
         ~Free(j), Fits(job),
         \A k \in Job \ {j} : job.kind # "free" /\ ~Free(k)
            => BesideHead(job, jobs[k]) \/ BesideHead(jobs[k], job)
  PROVE  SerialInv'
<1>1. jobs'[j] = job /\ \A k \in Job \ {j} : jobs'[k] = jobs[k]
  BY DEF ChecklistBase, SchedOK
<1>2. UNCHANGED <<status, by, dbHead, head, hint, cooling, timer, hud, corrected, faulted>>
  BY DEF dbVars, memVars, histVars
<1>3. Paired'
  BY <1>1 DEF SerialInv, Paired, Free, BesideHead
<1>4. AllFit'
  BY <1>1, <1>2 DEF SerialInv, AllFit, Fits, Pending
<1>5. HeadSaved'
  BY <1>1, <1>2 DEF SerialInv, HeadSaved
<1>6. HudTold' /\ EngineTold'
  BY <1>1, <1>2 DEF SerialInv, HudTold, EngineTold, Pending
<1>7. UntickKept'
  BY <1>1, <1>2 DEF SerialInv, UntickKept, Cooled
<1> QED BY <1>3, <1>4, <1>5, <1>6, <1>7 DEF SerialInv

(* One that is neither the saving of the head nor waiting for it is alone.   *)
LEMMA Alone ==
  ASSUME SerialInv, NEW j \in Job, ~Free(j), jobs[j].kind # "head",
         jobs[j].phase \notin {"listed", "begin"}
  PROVE  \A k \in Job \ {j} : Free(k)
BY DEF SerialInv, Paired, BesideHead

(* COMMIT: what is written may differ from what was told, and the call chain *)
(* that wrote it is about to tell it.                                        *)
LEMMA CommitKeepsSerial ==
  ASSUME ChecklistAssumption, ChecklistBase, SerialInv, NEW j \in Job, Runs(j), Commit(j)
  PROVE  SerialInv'
<1> DEFINE job == jobs[j]
           S == job.items
           next == [job EXCEPT !.phase = "after"]
<1>1. ~Free(j) /\ job \in JobState /\ Placed(job) /\ Fits(job) /\ job.phase = "commit"
  BY Waiting DEF ChecklistBase, SchedOK, AllPlaced, SerialInv, AllFit, Commit
<1>2. UNCHANGED <<head, hint, cooling, timer, hud, faulted>>
  BY DEF Commit, memVars
<1>3. /\ status' = [i \in Item |-> IF i \in S THEN NewStatus(job.kind) ELSE status[i]]
      /\ by' = [i \in Item |-> IF i \in S THEN NewSource(job.kind) ELSE by[i]]
      /\ dbHead' = IF job.kind = "head" /\ job.page > dbHead THEN job.page ELSE dbHead
      /\ corrected' = IF job.kind = "uncheck" THEN corrected \cup S ELSE corrected \ S
  BY DEF Commit
<1>4. /\ jobs' = [jobs EXCEPT ![j] = IF S = {} THEN Over(job) ELSE next]
      /\ jobs'[j] = IF S = {} THEN Over(job) ELSE next
      /\ \A k \in Job \ {j} : jobs'[k] = jobs[k]
  <2>1. jobs' = [jobs EXCEPT ![j] = IF S = {} THEN Over(job) ELSE next]
    BY DEF Commit, Finish, Continue, Over
  <2> HIDE DEF next, S
  <2> QED BY <2>1 DEF ChecklistBase, SchedOK
<1>5. Over(job).kind = "free" /\ Over(job).phase = "free"
  BY <1>1 DEF Over, JobState
<1>6. next.kind = job.kind /\ next.phase = "after" /\ next.items = S
  BY <1>1 DEF JobState
<1>7. S \subseteq Item /\ (job.kind = "head" => S = {})
  BY <1>1 DEF JobState, Placed
<1>8. S = {} => status' = status /\ by' = by /\ corrected' = corrected
  BY <1>3 DEF ChecklistBase, RowsType
<1>9. job.kind # "head" => \A k \in Job \ {j} : Free(k)
  BY <1>1, Alone
<1> HIDE DEF next, S, job
<1>10. \A k \in Job \ {j} : Free(k) => jobs[k].kind = "free" /\ jobs[k].phase = "free"
  BY FreeIsFree DEF Free, ChecklistBase
<1>11. Paired'
  <2>1. CASE job.kind = "head"
    <3>1. \A k \in Job : Free(k)' <=> k = j \/ Free(k)
      BY <1>4, <1>5, <1>7, <2>1 DEF Free
    <3> QED BY <1>4, <3>1 DEF SerialInv, Paired, BesideHead
  <2>2. CASE job.kind # "head"
    <3>1. \A k \in Job \ {j} : Free(k)'
      BY <1>4, <1>9, <2>2 DEF Free
    <3> QED BY <3>1 DEF Paired
  <2> QED BY <2>1, <2>2
<1>12. AllFit'
  <2>1. Fits(jobs[j])'
    <3>1. CASE S = {}
      BY <1>4, <1>5, <3>1 DEF Fits, InTransaction
    <3>2. CASE S # {}
      BY <1>4, <1>6, <1>7, <3>2 DEF Fits, InTransaction
    <3> QED BY <3>1, <3>2
  <2>2. ASSUME NEW k \in Job \ {j} PROVE Fits(jobs[k])'
    <3>1. Fits(jobs[k]) /\ jobs'[k] = jobs[k]
      BY <1>4 DEF SerialInv, AllFit
    <3>2. CASE job.kind = "head"
      <4>1. UNCHANGED <<status, corrected, head>>
        BY <1>2, <1>7, <1>8, <3>2
      <4> QED BY <3>1, <4>1 DEF Fits, Pending
    <3>3. CASE job.kind # "head"
      BY <1>9, <1>10, <3>1, <3>3 DEF Fits, InTransaction
    <3> QED BY <3>2, <3>3
  <2> QED BY <2>1, <2>2 DEF AllFit
<1>13. HeadSaved'
  <2>1. /\ dbHead <= head /\ head \in -1..MaxIndex /\ dbHead \in -1..MaxIndex /\ MaxIndex \in Nat
        /\ (faulted \/ dbHead = head \/ \E k \in Job : jobs[k].kind = "head")
    BY DEF SerialInv, HeadSaved, ChecklistBase, RowsType, ChecklistAssumption
  <2>2. CASE job.kind = "head"
    <3>1. job.page = head
      BY <1>1, <2>2 DEF Fits
    <3>2. dbHead' = head
      BY <1>3, <2>1, <2>2, <3>1
    <3> QED BY <1>2, <2>1, <3>2 DEF HeadSaved
  <2>3. CASE job.kind # "head"
    <3>1. dbHead' = dbHead /\ \A k \in Job : jobs[k].kind # "head"
      BY <1>3, <1>9, <1>10, <2>3 DEF job
    <3> QED BY <1>2, <2>1, <3>1 DEF HeadSaved
  <2> QED BY <2>2, <2>3
<1>14. HudTold' /\ EngineTold'
  <2>1. CASE S = {}
    BY <1>1, <1>2, <1>4, <1>8, <2>1 DEF SerialInv, HudTold, EngineTold, Pending, job
  <2>2. CASE S # {}
    BY <1>4, <1>6, <2>2 DEF HudTold, EngineTold
  <2> QED BY <2>1, <2>2
<1>15. UntickKept'
  <2> SUFFICES ASSUME NEW it \in corrected' PROVE by'[it] # "transcript" /\ Cooled(it)'
    BY DEF UntickKept
  <2>1. it \in Item
    BY <1>3, <1>7 DEF ChecklistBase, RowsType
  <2>2. CASE it \in S
    <3>1. job.kind = "uncheck"
      BY <1>3, <2>2
    <3>2. by'[it] # "transcript"
      BY <1>3, <2>1, <2>2, <3>1 DEF NewSource
    <3> QED BY <1>4, <1>6, <2>2, <3>1, <3>2 DEF Cooled
  <2>3. CASE it \notin S
    <3>1. it \in corrected /\ by'[it] = by[it]
      BY <1>3, <2>1, <2>3
    <3> QED BY <1>1, <1>2, <1>4, <3>1 DEF SerialInv, UntickKept, Cooled, job
  <2> QED BY <2>2, <2>3
<1> QED BY <1>11, <1>12, <1>13, <1>14, <1>15 DEF SerialInv

LEMMA StepsKeepSerial ==
  ASSUME ChecklistAssumption, Serialised, ChecklistBase, SerialInv, NEW j \in Job, Step(j)
  PROVE  SerialInv'
<1> DEFINE job == jobs[j]
<1>1. Runs(j) /\ ~Free(j) /\ job \in JobState /\ Placed(job) /\ Fits(job)
  BY Waiting DEF Step, ChecklistBase, SchedOK, AllPlaced, SerialInv, AllFit
<1>2. ASSUME NEW to \in InTransaction, NEW from \in InTransaction, Advance(j, from, to)
      PROVE  SerialInv'
  <2> DEFINE next == [job EXCEPT !.phase = to]
  <2>1. /\ UNCHANGED <<dbVars, memVars, histVars>> /\ jobs' = [jobs EXCEPT ![j] = next]
        /\ job.phase = from
    BY <1>2 DEF Advance, Continue
  <2>2. /\ next.kind = job.kind /\ next.phase = to /\ next.items = job.items
        /\ next.page = job.page
    BY <1>1 DEF JobState
  <2> HIDE DEF next, job
  <2>3. Fits(next)
    BY <1>1, <1>2, <2>1, <2>2 DEF Fits, InTransaction
  <2>4. ASSUME NEW k \in Job \ {j}, ~Free(k)
        PROVE  BesideHead(next, jobs[k]) \/ BesideHead(jobs[k], next)
    <3>1. BesideHead(job, jobs[k]) \/ BesideHead(jobs[k], job)
      BY <1>1, <2>4 DEF SerialInv, Paired, job
    <3> QED BY <1>2, <2>1, <2>2, <3>1 DEF BesideHead, InTransaction
  <2>5. job.phase \notin {"after", "setPending", "send"}
    BY <1>2, <2>1 DEF InTransaction
  <2> QED BY <1>1, <2>1, <2>2, <2>3, <2>4, <2>5, MovesOn DEF job
<1>3. CASE Advance(j, "listed", "begin")
  <2> DEFINE next == [job EXCEPT !.phase = "begin"]
  <2>1. /\ UNCHANGED <<dbVars, memVars, histVars>> /\ jobs' = [jobs EXCEPT ![j] = next]
        /\ job.phase = "listed"
    BY <1>3 DEF Advance, Continue
  <2>2. /\ next.kind = job.kind /\ next.phase = "begin" /\ next.read = job.read
        /\ next.page = job.page
    BY <1>1 DEF JobState
  <2> HIDE DEF next, job
  <2>3. Fits(next)
    BY <1>1, <2>1, <2>2 DEF Fits, InTransaction
  <2>4. ASSUME NEW k \in Job \ {j}, ~Free(k)
        PROVE  BesideHead(next, jobs[k]) \/ BesideHead(jobs[k], next)
    <3>1. BesideHead(job, jobs[k]) \/ BesideHead(jobs[k], job)
      BY <1>1, <2>4 DEF SerialInv, Paired, job
    <3> QED BY <2>1, <2>2, <3>1 DEF BesideHead
  <2> QED BY <1>1, <2>1, <2>2, <2>3, <2>4, MovesOn DEF job
<1>4. CASE Begin(j)
  <2> DEFINE bound == {i \in Pending(job.read, Item) : PageOf[i] = job.page}
             P == Pending(status, bound)
             next == [job EXCEPT !.phase = "update", !.items = P]
  <2>1. /\ UNCHANGED <<dbVars, memVars, histVars>> /\ job.phase = "begin"
        /\ \/ jobs' = [jobs EXCEPT ![j] = Over(job)]
           \/ ~BeginThrows /\ jobs' = [jobs EXCEPT ![j] = next]
    BY <1>4 DEF Begin, Finish, Continue, Over
  <2>2. job.kind = "slide"
    BY <1>1, <2>1 DEF Placed, PhasesOf, InTransaction, JobState, Kind
  <2>3. P \subseteq Pending(status, Item)
    BY DEF Pending
  <2>4. next.kind = "slide" /\ next.phase = "update" /\ next.items = P
    BY <1>1, <2>2 DEF JobState
  <2>5. Over(job).kind = "free" /\ Over(job).phase = "free"
    BY <1>1 DEF Over, JobState
  <2> HIDE DEF next, P, job
  <2>6. CASE jobs' = [jobs EXCEPT ![j] = Over(job)]
    BY <1>1, <2>1, <2>2, <2>5, <2>6, FreeFits, MovesOn DEF job
  <2>7. CASE ~BeginThrows /\ jobs' = [jobs EXCEPT ![j] = next]
    <3>1. Fits(next)
      BY <2>3, <2>4 DEF Fits
    <3>2. ASSUME NEW k \in Job \ {j}, ~Free(k) PROVE FALSE
      <4>1. jobs[k].kind = "head"
        BY <1>1, <2>2, <3>2 DEF SerialInv, Paired, BesideHead, job
      <4>2. InTx(k)
        BY <4>1 DEF ChecklistBase, AllPlaced, Placed, PhasesOf, InTransaction, InTx
      <4> QED BY <2>7, <4>2 DEF BeginThrows
    <3> QED BY <1>1, <2>1, <2>2, <2>4, <2>7, <3>1, <3>2, MovesOn DEF job
  <2> QED BY <2>1, <2>6, <2>7
<1>5. CASE After(j)
  <2> DEFINE next == [job EXCEPT !.phase = "setPending", !.read = status]
  <2>1. /\ UNCHANGED <<status, by, dbHead, head, hint, hud, corrected, faulted>> /\ timer' = TRUE
        /\ job.phase = "after"
        /\ cooling' = IF job.kind = "uncheck" THEN cooling \cup job.items ELSE cooling
    BY <1>5 DEF After, dbVars, histVars
  <2>2. jobs'[j] = next /\ \A k \in Job \ {j} : jobs'[k] = jobs[k]
    BY <1>5 DEF After, Continue, ChecklistBase, SchedOK
  <2>3. next.kind = job.kind /\ next.phase = "setPending" /\ next.read = status
    BY <1>1 DEF JobState
  <2>4. job.kind # "head"
    BY <1>1, <2>1 DEF Placed, PhasesOf, InTransaction
  <2> HIDE DEF next
  <2>5. \A k \in Job \ {j} : Free(k) /\ Free(k)'
    <3>1. \A k \in Job \ {j} : Free(k)
      BY <1>1, <2>1, <2>4, Alone
    <3> QED BY <2>2, <3>1 DEF Free
  <2>6. Paired'
    BY <2>5 DEF Paired
  <2>7. AllFit'
    <3>1. Fits(jobs[j])'
      BY <2>1, <2>2, <2>3, <2>4 DEF Fits, InTransaction
    <3>2. ASSUME NEW k \in Job \ {j} PROVE Fits(jobs[k])'
      BY <2>1, <2>2 DEF SerialInv, AllFit, Fits, Pending
    <3> QED BY <3>1, <3>2 DEF AllFit
  <2>8. HeadSaved'
    BY <2>1, <2>2, <2>3 DEF SerialInv, HeadSaved
  <2>9. HudTold' /\ EngineTold'
    BY <2>1, <2>2, <2>3 DEF HudTold, EngineTold
  <2>10. UntickKept'
    BY <2>1, <2>2 DEF SerialInv, UntickKept, Cooled
  <2> QED BY <2>6, <2>7, <2>8, <2>9, <2>10 DEF SerialInv
<1>6. CASE SetPending(j) \/ Send(j)
  <2>1. /\ UNCHANGED <<status, by, dbHead, head, cooling, timer, corrected, faulted>>
        /\ \/ job.phase = "setPending" /\ hint' = Pending(job.read, Item) /\ hud' = hud
           \/ job.phase = "send" /\ hud' = job.read /\ hint' = hint
    BY <1>6 DEF SetPending, Send, dbVars, histVars
  <2>2. jobs'[j] = Over(job) /\ \A k \in Job \ {j} : jobs'[k] = jobs[k]
    <3>1. jobs' = [jobs EXCEPT ![j] = Over(job)]
      BY <1>6 DEF SetPending, Send, Finish, Over
    <3> QED BY <3>1 DEF ChecklistBase, SchedOK
  <2>3. Over(job).kind = "free" /\ Over(job).phase = "free"
    BY <1>1 DEF Over, JobState
  <2>4. job.kind # "head" /\ job.read = status
    BY <1>1, <2>1 DEF Placed, PhasesOf, InTransaction, Fits
  <2>5. \A k \in Job \ {j} : jobs[k].kind = "free" /\ jobs[k].phase = "free"
    <3>1. \A k \in Job \ {j} : Free(k)
      BY <1>1, <2>1, <2>4, Alone
    <3> QED BY <3>1, FreeIsFree DEF Free, ChecklistBase
  <2>6. \A k \in Job : jobs'[k].kind = "free" /\ jobs'[k].phase = "free"
    BY <2>2, <2>3, <2>5
  <2>7. Paired' /\ AllFit'
    BY <2>6 DEF Paired, Free, AllFit, Fits, InTransaction
  <2>8. HeadSaved'
    BY <2>1, <2>4, <2>5 DEF SerialInv, HeadSaved
  <2>9. HudTold'
    BY <2>1, <2>4, <2>5 DEF SerialInv, HudTold
  <2>10. EngineTold'
    BY <2>1, <2>4, <2>5 DEF SerialInv, EngineTold, Pending
  <2>11. UntickKept'
    BY <2>1, <2>5 DEF SerialInv, UntickKept, Cooled
  <2> QED BY <2>7, <2>8, <2>9, <2>10, <2>11 DEF SerialInv
<1>7. CASE Fails(j)
  <2>1. UNCHANGED <<status, by, dbHead, head, cooling, corrected>> /\ faulted' /\ job.phase # "after"
    BY <1>7 DEF Fails, dbVars, memVars
  <2>2. jobs'[j] = Over(job) /\ \A k \in Job \ {j} : jobs'[k] = jobs[k]
    <3>1. jobs' = [jobs EXCEPT ![j] = Over(job)]
      BY <1>7 DEF Fails, Finish, Over
    <3> QED BY <3>1 DEF ChecklistBase, SchedOK
  <2>3. Over(job).kind = "free" /\ Over(job).phase = "free"
    BY <1>1 DEF Over, JobState
  <2>4. Paired'
    BY <2>2, <2>3 DEF SerialInv, Paired, BesideHead, Free
  <2>5. AllFit'
    <3>1. Fits(jobs[j])'
      BY <2>2, <2>3 DEF Fits, InTransaction
    <3>2. ASSUME NEW k \in Job \ {j} PROVE Fits(jobs[k])'
      BY <2>1, <2>2 DEF SerialInv, AllFit, Fits, Pending
    <3> QED BY <3>1, <3>2 DEF AllFit
  <2>6. HeadSaved' /\ HudTold' /\ EngineTold'
    BY <2>1 DEF SerialInv, HeadSaved, HudTold, EngineTold
  <2>7. UntickKept'
    BY <2>1, <2>2 DEF SerialInv, UntickKept, Cooled
  <2> QED BY <2>4, <2>5, <2>6, <2>7 DEF SerialInv
<1>8. CASE Update(j)
  BY <1>2, <1>8 DEF Update, InTransaction
<1>9. CASE Advance(j, "fnReturns", "commit")
  BY <1>2, <1>9 DEF InTransaction
<1> QED BY <1>1, <1>3, <1>4, <1>5, <1>6, <1>7, <1>8, <1>9, CommitKeepsSerial DEF Step

LEMMA SerialKept ==
  ChecklistAssumption /\ Serialised /\ ChecklistBase /\ SerialInv /\ [ChecklistNext]_checklistVars
    => SerialInv'
<1> SUFFICES ASSUME ChecklistAssumption, Serialised, ChecklistBase, SerialInv,
                    [ChecklistNext]_checklistVars
             PROVE  SerialInv'
  OBVIOUS
<1>1. CASE UNCHANGED checklistVars
  <2>1. UNCHANGED <<status, by, dbHead, head, hint, cooling, timer, hud, jobs, corrected, faulted>>
    BY <1>1 DEF checklistVars, dbVars, memVars, histVars
  <2> QED BY <2>1 DEF SerialInv, Paired, BesideHead, Free, AllFit, Fits, HeadSaved, HudTold,
                      EngineTold, Pending, UntickKept, Cooled
<1>2. CASE \E j \in Job : Step(j)
  BY <1>2, StepsKeepSerial
<1> QED BY <1>1, <1>2, EventsKeepSerial DEF ChecklistNext

LEMMA SerialAlways ==
  ASSUME Serialised
  PROVE  ChecklistSpec => [](ChecklistBase /\ SerialInv)
<1>1. ChecklistInit => ChecklistBase /\ SerialInv
  BY ChecklistAssumption, BaseInit, SerialInit
<1>2. ChecklistBase /\ SerialInv /\ [ChecklistNext]_checklistVars => (ChecklistBase /\ SerialInv)'
  BY ChecklistAssumption, BaseKept, SerialKept
<1> QED BY <1>1, <1>2, PTL DEF ChecklistSpec

(* 7.4: with SQLite, when nothing is in progress and no broadcast is due,    *)
(* the HUD shows the rows.                                                   *)
THEOREM HudShowsRows ==
  ASSUME Serialised
  PROVE  ChecklistSpec => []HudCurrent
<1>1. ChecklistBase /\ SerialInv => HudCurrent
  BY NothingRuns DEF ChecklistBase, SerialInv, HudTold, HudCurrent
<1> QED BY <1>1, SerialAlways, PTL

(* 7.1: with SQLite, when nothing is in progress, the engine asks for exactly *)
(* the pending items.                                                        *)
THEOREM EngineAsksPending ==
  ASSUME Serialised
  PROVE  ChecklistSpec => []EngineCurrent
<1>1. ChecklistBase /\ SerialInv => EngineCurrent
  BY NothingRuns DEF ChecklistBase, SerialInv, EngineTold, EngineCurrent
<1> QED BY <1>1, SerialAlways, PTL

(* With SQLite, the saving of the head survives the tick-off that the same   *)
(* page_commit starts: it is the tick-off that is lost.                      *)
THEOREM HeadIsSaved ==
  ASSUME Serialised
  PROVE  ChecklistSpec => []HeadPersisted
<1>1. ChecklistBase /\ SerialInv => HeadPersisted
  BY NothingRuns DEF ChecklistBase, SerialInv, HeadSaved, HeadPersisted
<1> QED BY <1>1, SerialAlways, PTL

(* Only a COMMIT changes who ticked an item off.                             *)
LEMMA WhoTicks ==
  [ChecklistNext]_checklistVars => by' = by \/ \E j \in Job : Runs(j) /\ Commit(j)
BY DEF ChecklistNext, checklistVars, dbVars, Step, TimerFires, HudJoins, Manual, Analysed, PageCommit,
       WindowTurns, TwentySecondsPass, Advance, Begin, Update, After, SetPending, Send, Fails

(* What a COMMIT ticks off automatically was pending, and not unticked.      *)
LEMMA AutomaticTicks ==
  ASSUME ChecklistBase, SerialInv, NEW j \in Job, Runs(j), Commit(j), NEW it \in Item,
         by'[it] # by[it]
  PROVE  /\ by'[it] \in {"transcript", "slide"} => status[it] = "pending"
         /\ by'[it] = "transcript" => it \notin corrected
<1> DEFINE job == jobs[j]
<1>1. ~Free(j) /\ job \in JobState /\ Placed(job) /\ Fits(job) /\ job.phase = "commit"
  BY Waiting DEF ChecklistBase, SchedOK, AllPlaced, SerialInv, AllFit, Commit
<1>2. it \in job.items /\ by'[it] = NewSource(job.kind)
  BY DEF Commit
<1>3. job.kind # "head"
  BY <1>1, <1>2 DEF Placed
<1>4. job.kind \in Kind
  BY <1>1 DEF JobState
<1>5. by'[it] \in {"transcript", "slide"} => job.kind = by'[it]
  BY <1>2, <1>3, <1>4 DEF NewSource, Kind
<1> HIDE DEF job
<1>6. by'[it] \in {"transcript", "slide"} => it \in Pending(status, Item)
  BY <1>1, <1>2, <1>5 DEF Fits, InTransaction
<1>7. by'[it] = "transcript" => it \notin corrected
  BY <1>1, <1>2, <1>5 DEF Fits, InTransaction
<1> QED BY <1>6, <1>7 DEF Pending

(* What a COMMIT does to the rows is one step of the contract.               *)
LEMMA CommitIsTick ==
  ASSUME ChecklistBase, SerialInv, NEW j \in Job, Runs(j), Commit(j)
  PROVE  Contract!ContractNext \/ UNCHANGED <<status, by, corrected>>
<1> DEFINE job == jobs[j]
           S == job.items
<1>1. ~Free(j) /\ job \in JobState /\ Placed(job) /\ Fits(job) /\ job.phase = "commit"
  BY Waiting DEF ChecklistBase, SchedOK, AllPlaced, SerialInv, AllFit, Commit
<1>2. /\ status' = [i \in Item |-> IF i \in S THEN NewStatus(job.kind) ELSE status[i]]
      /\ by' = [i \in Item |-> IF i \in S THEN NewSource(job.kind) ELSE by[i]]
      /\ corrected' = IF job.kind = "uncheck" THEN corrected \cup S ELSE corrected \ S
  BY DEF Commit
<1>3. S \subseteq Item
  BY <1>1 DEF JobState
<1>4. job.kind \in {"head", "slide", "transcript", "check", "uncheck", "skip"}
  BY <1>1 DEF JobState, Kind, Free, Placed, PhasesOf
<1> HIDE DEF job, S
<1>5. CASE job.kind = "head"
  <2>1. S = {}
    BY <1>1, <1>5 DEF Placed, S
  <2>2. UNCHANGED <<status, by, corrected>>
    BY <1>2, <1>5, <2>1 DEF ChecklistBase, RowsType
  <2> QED BY <2>2
<1>6. CASE job.kind \in {"transcript", "slide"}
  <2>1. \A i \in S : status[i] = "pending"
    BY <1>1, <1>6 DEF Fits, InTransaction, Pending, S
  <2>2. Contract!Set(S, "covered", job.kind)
    BY <1>2, <1>6 DEF Contract!Set, NewStatus, NewSource
  <2>3. CASE job.kind = "transcript"
    <3>1. S \cap corrected = {}
      BY <1>1, <2>3 DEF Fits, InTransaction, S
    <3>2. corrected' = corrected
      BY <1>2, <2>3, <3>1
    <3>3. Contract!ByConversation(S)
      BY <2>1, <2>2, <2>3, <3>1, <3>2 DEF Contract!ByConversation, Contract!StillPending
    <3> QED BY <1>3, <3>3 DEF Contract!ContractNext
  <2>4. CASE job.kind = "slide"
    <3>1. Contract!BySlide(S)
      BY <1>2, <2>1, <2>2, <2>4 DEF Contract!BySlide, Contract!StillPending
    <3> QED BY <1>3, <3>1 DEF Contract!ContractNext
  <2> QED BY <1>6, <2>3, <2>4
<1>7. CASE job.kind \in {"check", "uncheck", "skip"}
  <2>1. PICK it \in Item : S = {it}
    BY <1>1, <1>7 DEF Placed, S
  <2>2. job.kind = "check" => Contract!Check(it)
    BY <1>2, <2>1 DEF Contract!Check, Contract!Set, NewStatus, NewSource
  <2>3. job.kind = "uncheck" => Contract!Uncheck(it)
    BY <1>2, <2>1 DEF Contract!Uncheck, Contract!Set, NewStatus, NewSource
  <2>4. job.kind = "skip" => Contract!Skip(it)
    BY <1>2, <2>1 DEF Contract!Skip, Contract!Set, NewStatus, NewSource
  <2> QED BY <1>7, <2>2, <2>3, <2>4 DEF Contract!ContractNext
<1> QED BY <1>4, <1>5, <1>6, <1>7

(* Steps other than a COMMIT and the turning of the window tick nothing.     *)
LEMMA TicksNothing ==
  ASSUME [ChecklistNext]_checklistVars, ~\E j \in Job : Runs(j) /\ Commit(j),
         ~\E it \in Item : WindowTurns(it)
  PROVE  UNCHANGED <<status, by, corrected>>
BY DEF ChecklistNext, checklistVars, dbVars, memVars, histVars, Step, TimerFires, HudJoins, Manual,
       Analysed, PageCommit, TwentySecondsPass, Advance, Begin, Update, After, SetPending, Send, Fails

(* 7: with SQLite the checklist implements its contract.  Between the read   *)
(* and the COMMIT of a tick no other tick gets in.                           *)
THEOREM ImplementsChecklistContract ==
  ASSUME Serialised
  PROVE  ChecklistSpec => ImplementsContract
<1>1. ChecklistInit => Contract!ContractInit
  BY DEF ChecklistInit, AllPending, Contract!ContractInit
<1>2. ChecklistBase /\ SerialInv /\ [ChecklistNext]_checklistVars
        => [Contract!ContractNext]_(Contract!contractVars)
  <2> SUFFICES ASSUME ChecklistBase, SerialInv, [ChecklistNext]_checklistVars
               PROVE  Contract!ContractNext \/ UNCHANGED <<status, by, corrected>>
    BY DEF Contract!contractVars
  <2>1. ASSUME NEW it \in Item, WindowTurns(it) PROVE Contract!WindowTurnsOver(it)
    BY <2>1 DEF WindowTurns, dbVars, Contract!WindowTurnsOver
  <2> QED BY <2>1, CommitIsTick, TicksNothing DEF Contract!ContractNext
<1> QED BY <1>1, <1>2, SerialAlways, PTL DEF ChecklistSpec, ImplementsContract, Contract!ContractSpec

(* 7.3: with SQLite, the automatic ways only tick off what is pending.       *)
THEOREM DecisionsStand ==
  ASSUME Serialised
  PROVE  ChecklistSpec => ManualIsFinal
<1>1. ChecklistBase /\ SerialInv /\ [ChecklistNext]_checklistVars
        => [\A it \in Item : status[it] # "pending" /\ by'[it] \in {"transcript", "slide"}
              => by'[it] = by[it]]_checklistVars
  BY WhoTicks, AutomaticTicks
<1> QED BY <1>1, SerialAlways, PTL DEF ChecklistSpec, ManualIsFinal

(* 7.5: with SQLite, the conversation does not tick off again what the       *)
(* presenter has just unticked.                                              *)
THEOREM UnticksStand ==
  ASSUME Serialised
  PROVE  ChecklistSpec => UncheckSticks
<1>1. ChecklistBase /\ SerialInv /\ [ChecklistNext]_checklistVars
        => [\A it \in corrected : by'[it] # "transcript"]_checklistVars
  <2> SUFFICES ASSUME ChecklistBase, SerialInv, [ChecklistNext]_checklistVars, NEW it \in corrected
               PROVE  by'[it] # "transcript"
    OBVIOUS
  <2>1. it \in Item /\ by[it] # "transcript"
    BY DEF ChecklistBase, RowsType, SerialInv, UntickKept
  <2> QED BY <2>1, WhoTicks, AutomaticTicks
<1> QED BY <1>1, SerialAlways, PTL DEF ChecklistSpec, UncheckSticks
=============================================================================

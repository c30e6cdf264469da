---------------------------- MODULE AudioPipeline ----------------------------
(***************************************************************************)
(* From captured audio to transcript, for one meeting: hub.pushAudio and    *)
(* onAsrFinal (apps/server/src/realtime/hub.ts), one Chunker per track      *)
(* (chunker.ts), one GeminiAsrProvider per track (asr/gemini-asr.ts), the   *)
(* audio clock and the outage set of session-runtime.ts, and the usage row  *)
(* per final (ops/meter-impl.ts, repos-ops.ts).                             *)
(*                                                                          *)
(* Mono capture feeds the left track only, with both voices mixed; stereo   *)
(* capture feeds the presenter's voice to the left track and the client's   *)
(* to the right one.  A transcription takes up to 20 s and may be overtaken *)
(* by later ones; so may the speaker inference a mono segment needs.        *)
(*                                                                          *)
(* The unit of time is one frame.  The right track's provider is made with  *)
(* the first stereo frame; until then it is here a provider that holds      *)
(* nothing, which nobody can tell from none.                                *)
(***************************************************************************)
EXTENDS Integers, Sequences, FiniteSets

CONSTANTS
  MinSegment,   \* frames in a second: MIN_SEGMENT_SAMPLES
  MaxSegment,   \* frames in four seconds: SEGMENT_MAX_SAMPLES
  MaxFrames,    \* bound on the frames one runtime receives
  MaxRuntimes   \* bound on the runtimes the meeting has one after the other

ASSUME AudioAssumption ==
  /\ MinSegment \in Nat \ {0} /\ MaxSegment \in Nat /\ MinSegment <= MaxSegment
  /\ MaxFrames \in Nat /\ MaxRuntimes \in Nat \ {0}

VARIABLES
  live,         \* the runtime is registered and not disposed
  made,         \* number of runtimes the meeting has had
  consent,      \* runtime.consent
  mode,         \* runtime.channelMode: channels of the latest frame
  clock,        \* runtime.audioSamples
  asr,          \* the provider of each track, with its chunker
  outages,      \* runtime.asrOutages
  chunkSeq,     \* runtime.asrChunkSeq
  transcribing, \* segments sent to the recogniser and not answered
  inferring,    \* finals waiting for the speaker inference
  heard,        \* finals this runtime delivered to the hud, the analysis and the store
  usage,        \* usage_events of kind asr: their idempotency keys
  finals,       \* history: number of finals let through by the consent gate
  toasts,       \* asr_unavailable messages this runtime sent to the hud
  outbreaks,    \* history: times a track went down while none was down
  cut           \* history: the clock when consent was last revoked

asrVars == <<clock, asr, transcribing>>
history == <<finals, outbreaks, cut>>
vars == <<live, made, consent, mode, asrVars, outages, chunkSeq, inferring,
          heard, usage, toasts, history>>

Track == {"left", "right"}
Frame == [t : 0..(MaxFrames - 1), channels : {1, 2}, loud : BOOLEAN]

Provider == [buf : Seq(Frame), dispatched : Nat, succeeded : Nat, down : BOOLEAN]

(* What a chunker emits, numbered by its provider's dispatchSeq.            *)
Segment == {s \in [track : Track, seq : 1..(2 * MaxFrames), frames : Seq(Frame)] :
              Len(s.frames) \in MinSegment..MaxSegment}
Final == [segment : Segment, speaker : {"presenter", "client", "inferred"}]

TypeOK ==
  /\ live \in BOOLEAN /\ consent \in BOOLEAN
  /\ made \in 1..MaxRuntimes
  /\ mode \in {1, 2}
  /\ clock \in 0..MaxFrames
  /\ asr \in [Track -> Provider]
  /\ \A tr \in Track : /\ Len(asr[tr].buf) < MaxSegment
                       /\ asr[tr].succeeded <= asr[tr].dispatched
  /\ outages \subseteq Track
  /\ chunkSeq \in Nat /\ finals \in Nat /\ toasts \in Nat /\ outbreaks \in Nat
  /\ transcribing \cup inferring \subseteq Segment
  /\ heard \subseteq Final /\ usage \subseteq Nat
  /\ cut \in 0..MaxFrames

NewProvider == [buf |-> <<>>, dispatched |-> 0, succeeded |-> 0, down |-> FALSE]

Init ==
  /\ live = TRUE /\ made = 1
  /\ consent = FALSE /\ mode = 1 /\ clock = 0
  /\ asr = [tr \in Track |-> NewProvider]
  /\ outages = {} /\ chunkSeq = 0
  /\ transcribing = {} /\ inferring = {} /\ heard = {}
  /\ usage = {} /\ finals = 0 /\ toasts = 0 /\ outbreaks = 0 /\ cut = 0
-----------------------------------------------------------------------------
(* Chunker.  Its trailing 600 ms are the last frame here.                   *)
Audible(b) == \E n \in 1..Len(b) : b[n].loud

Complete(b) ==
  \/ Len(b) >= MaxSegment
  \/ Len(b) >= MinSegment /\ ~b[Len(b)].loud

(* Mutant: the frames of a finished segment stay in the buffer.             *)
KeptAfterCut(b) == IF Complete(b) THEN SubSeq(b, 2, Len(b)) ELSE b

Kept(b) == IF Complete(b) THEN <<>> ELSE b

(* A cut emits the segment unless nothing in it is above the silence floor. *)
Emitted(tr, b, n, due) ==
  IF due /\ Audible(b) THEN {[track |-> tr, seq |-> n + 1, frames |-> b]} ELSE {}

(* flushPending: when the capture mode changes, what a track holds of the   *)
(* old mode is sent off, or dropped when it is shorter than a second.       *)
(* Mutant: the buffers are left alone.                                      *)
BeforeFrameNoFlush(tr, channels) == [segments |-> {}, buf |-> asr[tr].buf]

BeforeFrame(tr, channels) ==
  IF channels = mode
  THEN [segments |-> {}, buf |-> asr[tr].buf]
  ELSE [segments |-> Emitted(tr, asr[tr].buf, asr[tr].dispatched, Len(asr[tr].buf) >= MinSegment),
        buf |-> <<>>]

Fed(channels) == IF channels = 2 THEN Track ELSE {"left"}

(* What a track's buffer and its recogniser get when a frame comes in.       *)
Filled(tr, channels, loud) ==
  LET b == BeforeFrame(tr, channels).buf
  IN  IF tr \in Fed(channels)
      THEN Append(b, [t |-> clock, channels |-> channels, loud |-> loud[tr]]) ELSE b

Sent(tr, channels, loud) ==
  LET before == BeforeFrame(tr, channels).segments
      b == Filled(tr, channels, loud)
  IN  before \cup Emitted(tr, b, asr[tr].dispatched + Cardinality(before), tr \in Fed(channels) /\ Complete(b))

(* pushAudio: one frame moves the clock on by one, for both tracks.         *)
PushAudio(channels, loud) ==
  /\ live /\ consent /\ clock < MaxFrames
  /\ mode' = channels
  /\ clock' = clock + 1
  /\ asr' = [tr \in Track |->
               [asr[tr] EXCEPT !.buf = IF tr \in Fed(channels) THEN Kept(Filled(tr, channels, loud))
                                       ELSE Filled(tr, channels, loud),
                               !.dispatched = @ + Cardinality(Sent(tr, channels, loud))]]
  /\ transcribing' = transcribing \cup UNION {Sent(tr, channels, loud) : tr \in Track}
  /\ UNCHANGED <<live, made, consent, outages, chunkSeq, inferring, heard, usage, toasts, history>>

SetConsent(granted) ==
  /\ live /\ granted # consent
  /\ consent' = granted
  /\ cut' = IF granted THEN cut ELSE clock
  /\ UNCHANGED <<live, made, mode, asrVars, outages, chunkSeq, inferring, heard, usage, toasts,
                 finals, outbreaks>>
-----------------------------------------------------------------------------
(* wireAsr: who speaks in a segment.  Mono has to be inferred.              *)
Speaker(s) ==
  IF s.track = "right" THEN "client"
  ELSE IF s.frames[1].channels = 2 THEN "presenter" ELSE "inferred"

Delivery(s) == [segment |-> s, speaker |-> Speaker(s)]

(* The key of the usage row, without the meeting's id.                      *)
ChunkKey(s) == chunkSeq

(* onAsrFinal up to its first await: the consent gate, the usage row        *)
(* (ON CONFLICT DO NOTHING), and for a stereo segment the delivery.         *)
OnAsrFinal(s) ==
  IF consent
  THEN /\ finals' = finals + 1
       /\ usage' = usage \cup {ChunkKey(s)}
       /\ chunkSeq' = chunkSeq + 1
       /\ IF Speaker(s) = "inferred"
          THEN inferring' = inferring \cup {s} /\ UNCHANGED heard
          ELSE heard' = heard \cup {Delivery(s)} /\ UNCHANGED inferring
  ELSE UNCHANGED <<finals, usage, chunkSeq, inferring, heard>>

(* transcribe: an answer, with text or without, means the track is healthy. *)
Healthy(s) ==
  /\ asr' = [asr EXCEPT ![s.track].down = FALSE,
                        ![s.track].succeeded = IF s.seq > @ THEN s.seq ELSE @]
  /\ outages' = IF asr[s.track].down THEN outages \ {s.track} ELSE outages

Transcribed(s) ==
  /\ s \in transcribing /\ transcribing' = transcribing \ {s}
  /\ Healthy(s)
  /\ OnAsrFinal(s)
  /\ UNCHANGED <<live, made, consent, mode, clock, toasts, outbreaks, cut>>

TranscribedBlank(s) ==
  /\ s \in transcribing /\ transcribing' = transcribing \ {s}
  /\ Healthy(s)
  /\ UNCHANGED <<live, made, consent, mode, clock, chunkSeq, inferring, heard, usage, toasts, history>>

(* noteAsrUnavailable: the hud is told when the first track goes down.      *)
FirstOutage == outages = {}

(* A failure, or 20 s without an answer.  One that a later success overtook *)
(* says nothing about the present.                                          *)
TranscriptionFails(s) ==
  /\ s \in transcribing /\ transcribing' = transcribing \ {s}
  /\ IF s.seq > asr[s.track].succeeded /\ ~asr[s.track].down
     THEN /\ asr' = [asr EXCEPT ![s.track].down = TRUE]
          /\ IF live
             THEN /\ outages' = outages \cup {s.track}
                  /\ toasts' = IF FirstOutage THEN toasts + 1 ELSE toasts
                  /\ outbreaks' = IF \E tr \in Track : asr[tr].down THEN outbreaks ELSE outbreaks + 1
             ELSE UNCHANGED <<outages, toasts, outbreaks>>
     ELSE UNCHANGED <<asr, outages, toasts, outbreaks>>
  /\ UNCHANGED <<live, made, consent, mode, clock, chunkSeq, inferring, heard, usage, finals, cut>>

(* onAsrFinal after its await looks at the consent again.                   *)
(* Mutant: it does not.                                                     *)
StillConsentsAssumed == TRUE

StillConsents == consent

SpeakerInferred(s) ==
  /\ s \in inferring /\ inferring' = inferring \ {s}
  /\ heard' = IF StillConsents THEN heard \cup {Delivery(s)} ELSE heard
  /\ UNCHANGED <<live, made, consent, mode, asrVars, outages, chunkSeq, usage, toasts, history>>
-----------------------------------------------------------------------------
(* runtime.dispose resets every chunker and forgets the outages.  What is   *)
(* being transcribed goes on, and so does the consent of the runtime.       *)
Dispose ==
  /\ live /\ live' = FALSE
  /\ asr' = [tr \in Track |-> [asr[tr] EXCEPT !.buf = <<>>]]
  /\ outages' = {}
  /\ UNCHANGED <<made, consent, mode, clock, transcribing, chunkSeq, inferring, heard, usage, toasts, history>>

(* After a reclaim or a restart the next connection makes a new runtime.  A *)
(* reclaim comes five minutes after the last frame, a restart takes the     *)
(* transcriptions with it: none is left of the runtime before.              *)
Rematerialise ==
  /\ ~live /\ live' = TRUE /\ made < MaxRuntimes /\ made' = made + 1
  /\ transcribing = {} /\ inferring = {}
  /\ consent' = FALSE /\ mode' = 1 /\ clock' = 0 /\ cut' = 0
  /\ asr' = [tr \in Track |-> NewProvider]
  /\ chunkSeq' = 0
  /\ heard' = {} /\ toasts' = 0 /\ outbreaks' = 0
  /\ UNCHANGED <<transcribing, outages, inferring, usage, finals>>

Next ==
  \/ \E channels \in {1, 2}, loud \in [Track -> BOOLEAN] :
       (channels = 1 => ~loud["right"]) /\ PushAudio(channels, loud)
  \/ \E granted \in BOOLEAN : SetConsent(granted)
  \/ \E s \in transcribing : Transcribed(s) \/ TranscribedBlank(s) \/ TranscriptionFails(s)
  \/ \E s \in inferring : SpeakerInferred(s)
  \/ Dispose \/ Rematerialise

Spec == Init /\ [][Next]_vars
-----------------------------------------------------------------------------
FramesOf(s) == {s.frames[n] : n \in 1..Len(s.frames)}

(* Safety: what is labelled by channel is right for every frame in it: the  *)
(* presenter's words come from the stereo left track, the client's from the *)
(* right one, whatever mode changes came while they were buffered or being  *)
(* transcribed.  Mixed audio is never labelled by channel.                  *)
SpeakerTrue ==
  \A d \in heard : \A f \in FramesOf(d.segment) :
    d.speaker # "inferred" <=> f.channels = 2

(* Safety: no stretch of a track is heard twice.                            *)
HeardOnce ==
  \A d, e \in heard : d # e /\ d.segment.track = e.segment.track
    => FramesOf(d.segment) \cap FramesOf(e.segment) = {}

(* Safety (hub.wireAsr): one message per outage of the meeting's speech     *)
(* recognition, however many tracks go down in it and in whatever order     *)
(* their answers arrive.                                                    *)
OneToastPerOutage == toasts = outbreaks

(* Safety (hub.onAsrFinal: every successful final is recorded): each final  *)
(* that was let through has its usage row.  It is claimed for the meeting   *)
(* as a whole; it holds as long as the meeting has had one runtime.         *)
BilledEach == Cardinality(usage) = finals
BilledByFirstRuntime == made = 1 => BilledEach

(* Action property (the consent gate): nothing is delivered without consent *)
(* at that moment, though the segment was sent off with it.                 *)
ConsentAtDelivery == [][~(heard' \subseteq heard) => consent]_vars

(* Safety (Chunker.reset, GeminiAsrProvider.reset): what was buffered when  *)
(* consent was revoked is not transcribed, not even after it is granted     *)
(* again: no segment has frames from before and from after a revocation.    *)
RevokeDiscards ==
  \A s \in transcribing :
    \A n \in 1..(Len(s.frames) - 1) : ~(s.frames[n].t < cut /\ cut <= s.frames[n + 1].t)
=============================================================================

---------------------------- MODULE CaptureSession ----------------------------
(***************************************************************************)
(* The capture page (apps/web/components/copilot/CopilotView.tsx) with what *)
(* it drives: startCapture (lib/audio-capture.ts), which holds the shared   *)
(* tab and the microphone over three waits, and the socket of useRealtime   *)
(* (lib/useRealtime.ts).  The person presses buttons, answers or ignores    *)
(* the browser's prompts, stops sharing or leaves while any of them is      *)
(* under way, and the meeting may end elsewhere.                            *)
(*                                                                          *)
(* An effect of React runs with the change that triggers it: effects are    *)
(* flushed before the next event of the user.                               *)
(***************************************************************************)
EXTENDS Integers, Sequences

CONSTANTS
  Start,     \* calls of start() that are not over; one that is over is used again
  None,
  Tries,     \* MAX_ATTEMPTS of useRealtime
  MaxSent,   \* bound on the consent messages on their way
  SlowGate   \* the server's gate and boot take real I/O (pg)

ASSUME CaptureAssumption ==
  /\ None \notin Start
  /\ Tries \in Nat \ {0} /\ MaxSent \in Nat \ {0}
  /\ SlowGate \in BOOLEAN

VARIABLES
  phase,       \* which panel is shown; "gone" when the page is not mounted
  creds,       \* the session is remembered
  current,     \* the start() whose epoch is still startEpochRef.current
  controller,  \* controllerRef
  at,          \* where each startCapture is
  share, mic,  \* the tracks it was given
  consent,     \* consentRef
  channels,    \* captureChannels
  sock,        \* status of the connection
  tries,       \* attempts since it was last open
  wired,       \* the channels the open socket was opened for
  ready,       \* the server has enrolled it and has a runtime
  toServer,    \* consent messages on their way
  told,        \* consent as the server's runtime has it
  over,        \* the meeting has ended at the server
  posted       \* POST /end is in progress

startVars == <<at, share, mic>>
sockVars  == <<sock, tries, wired, ready, toServer>>
serverVars == <<told, over>>
vars == <<phase, creds, current, controller, startVars, consent, channels, sockVars,
          serverVars, posted>>

Phase == {"idle", "requesting", "listening", "zero-track", "ended", "meeting-ended",
          "end-failed", "error", "gone"}
Closed == {"meeting-ended", "end-failed"}

TypeOK ==
  /\ phase \in Phase /\ creds \in BOOLEAN
  /\ current \in Start \cup {None} /\ controller \in Start \cup {None}
  /\ at \in [Start -> {"over", "picking", "asking", "loading", "held"}]
  /\ share \in [Start -> {"none", "live", "dead"}]
  /\ mic \in [Start -> {"none", "asked", "live"}]
  /\ consent \in BOOLEAN /\ channels \in 1..2
  /\ sock \in {"none", "connecting", "open", "waiting", "failed", "refused"}
  /\ tries \in 0..Tries /\ wired \in 1..2 /\ ready \in BOOLEAN
  /\ toServer \in Seq(BOOLEAN) /\ Len(toServer) <= MaxSent
  /\ told \in BOOLEAN /\ over \in BOOLEAN /\ posted \in BOOLEAN

Init ==
  /\ phase = "idle" /\ creds = TRUE
  /\ current = None /\ controller = None
  /\ at = [s \in Start |-> "over"]
  /\ share = [s \in Start |-> "none"] /\ mic = [s \in Start |-> "none"]
  /\ consent = FALSE /\ channels = 1
  /\ sock = "none" /\ tries = 0 /\ wired = 1 /\ ready = FALSE /\ toServer = <<>>
  /\ told = FALSE /\ over = FALSE /\ posted = FALSE
-----------------------------------------------------------------------------
(* The cleanup of the effect: `enabled` has become false.                   *)
Disconnect ==
  /\ sock' = "none" /\ tries' = 0 /\ ready' = FALSE /\ toServer' = <<>>
  /\ UNCHANGED wired

(* Every track of s is stopped; a prompt nobody has answered stays.         *)
Release(s) ==
  /\ at' = [at EXCEPT ![s] = "over"]
  /\ share' = [share EXCEPT ![s] = "none"]
  /\ mic' = [mic EXCEPT ![s] = IF @ = "live" THEN "none" ELSE @]

(* stopCapture: every start in progress is out of date, what the page holds *)
(* is released.                                                             *)
(* Mutant: only what the page already holds is stopped.                     *)
StopHeld ==
  /\ controller' = None
  /\ IF controller = None THEN UNCHANGED startVars ELSE Release(controller)
  /\ UNCHANGED current

StopCapture ==
  /\ current' = None
  /\ controller' = None
  /\ IF controller = None THEN UNCHANGED startVars ELSE Release(controller)

(* The page stops to listen and shows p.                                    *)
Quit(p) == StopCapture /\ Disconnect /\ phase' = p
-----------------------------------------------------------------------------
(* start(): a button of every panel that is neither live nor closed.        *)
Begin(s) ==
  /\ phase \in {"idle", "zero-track", "ended", "error"}
  /\ at[s] = "over" /\ mic[s] = "none"
  /\ phase' = "requesting" /\ current' = s
  /\ at' = [at EXCEPT ![s] = "picking"]
  /\ UNCHANGED <<creds, controller, share, mic, consent, channels, sockVars, serverVars, posted>>

(* The catch of start(): what an outdated one met is not shown.             *)
Show(s, p) == phase' = IF current = s THEN p ELSE phase

Fail(s, p) ==
  /\ Release(s) /\ Show(s, p)
  /\ UNCHANGED <<creds, current, controller, consent, channels, sockVars, serverVars, posted>>

(* getDisplayMedia: refused, shared without sound, or shared; then the      *)
(* microphone is asked for.                                                 *)
PickerRefused(s) == at[s] = "picking" /\ Fail(s, "error")

PickedSilent(s) == at[s] = "picking" /\ Fail(s, "zero-track")

Picked(s) ==
  /\ at[s] = "picking" /\ at' = [at EXCEPT ![s] = "asking"]
  /\ share' = [share EXCEPT ![s] = "live"]
  /\ mic' = [mic EXCEPT ![s] = "asked"]
  /\ UNCHANGED <<phase, creds, current, controller, consent, channels, sockVars, serverVars, posted>>

(* What follows the microphone in the same turn: a share that was stopped   *)
(* meanwhile ends the start, an AudioContext that cannot be made too.       *)
GoOn(s) ==
  /\ share[s] = "live" /\ at' = [at EXCEPT ![s] = "loading"]
  /\ UNCHANGED <<phase, creds, current, controller, share, consent, channels, sockVars,
                 serverVars, posted>>

MicGranted(s) ==
  /\ at[s] = "asking" /\ mic[s] = "asked"
  /\ mic' = [mic EXCEPT ![s] = "live"] /\ GoOn(s)

MicDenied(s) ==
  /\ at[s] = "asking" /\ mic[s] = "asked"
  /\ mic' = [mic EXCEPT ![s] = "none"] /\ GoOn(s)

(* The stream is stopped with the rest, or there was none.                  *)
MicAnsweredInVain(s) ==
  /\ at[s] = "asking" /\ mic[s] = "asked"
  /\ at' = [at EXCEPT ![s] = "over"]
  /\ share' = [share EXCEPT ![s] = "none"] /\ mic' = [mic EXCEPT ![s] = "none"]
  /\ Show(s, "error")
  /\ UNCHANGED <<creds, current, controller, consent, channels, sockVars, serverVars, posted>>

(* MIC_TIMEOUT_MS: the prompt stays open, the start goes on without.        *)
(* Mutant: getUserMedia is waited for as long as it takes.                  *)
MicAwaited(s) == at[s] = "asking" /\ mic[s] # "asked" /\ UNCHANGED vars

MicTimeout(s) ==
  /\ at[s] = "asking" /\ mic[s] = "asked"
  /\ \/ GoOn(s) /\ UNCHANGED mic
     \/ Fail(s, "error")

(* A late answer: its stream is stopped the moment it arrives.              *)
(* Mutant: nobody looks at it.                                              *)
MicKept(s) ==
  /\ at[s] # "asking" /\ mic[s] = "asked"
  /\ mic' = [mic EXCEPT ![s] = "live"]
  /\ UNCHANGED <<phase, creds, current, controller, at, share, consent, channels, sockVars,
                 serverVars, posted>>

MicLate(s) ==
  /\ at[s] # "asking" /\ mic[s] = "asked"
  /\ mic' = [mic EXCEPT ![s] = "none"]
  /\ UNCHANGED <<phase, creds, current, controller, at, share, consent, channels, sockVars,
                 serverVars, posted>>

(* The worklet does not load, or the graph cannot be built.                 *)
GraphFails(s) == at[s] = "loading" /\ Fail(s, "error")

(* The layout of the frames: stereo when the merge succeeded.               *)
(* Mutant: when a microphone was granted.                                   *)
LayoutGranted(s, merged) == IF mic[s] = "live" THEN 2 ELSE 1

Layout(s, merged) == IF mic[s] = "live" /\ merged THEN 2 ELSE 1

(* startCapture returns.  Without a microphone, or when the two cannot be   *)
(* merged, it is mono.  The start whose epoch is current listens, and its   *)
(* socket is made; any other is stopped again.                              *)
Loaded(s) ==
  /\ at[s] = "loading"
  /\ IF current = s
     THEN \E merged \in BOOLEAN :
            /\ controller' = s /\ at' = [at EXCEPT ![s] = "held"]
            /\ mic' = [mic EXCEPT ![s] = IF @ = "live" /\ ~merged THEN "none" ELSE @]
            /\ channels' = Layout(s, merged)
            /\ phase' = "listening"
            /\ sock' = "connecting"
            /\ UNCHANGED <<share, current, tries, wired, ready, toServer>>
     ELSE Release(s) /\ UNCHANGED <<phase, current, controller, channels, sockVars>>
  /\ UNCHANGED <<creds, consent, serverVars, posted>>

(* The browser's own "stop sharing".  The track's listener is there once    *)
(* startCapture has returned.                                               *)
SharingStopped(s) ==
  /\ share[s] = "live"
  /\ IF at[s] = "held" /\ current = s
     THEN Quit("ended")
     ELSE share' = [share EXCEPT ![s] = "dead"]
          /\ UNCHANGED <<phase, current, controller, at, mic, sockVars>>
  /\ UNCHANGED <<creds, consent, channels, serverVars, posted>>

StopListening ==
  /\ phase \in {"requesting", "listening"} /\ Quit("idle")
  /\ UNCHANGED <<creds, consent, channels, serverVars, posted>>
-----------------------------------------------------------------------------
(* onOpen: the consent is sent on every open.  The server binds its message  *)
(* listener when the gate has passed and ignores consent without a runtime;  *)
(* on SQLite both are over before a message can arrive.                      *)
Open ==
  /\ sock = "connecting" /\ sock' = "open" /\ tries' = 0 /\ wired' = channels
  /\ toServer' = <<consent>>
  /\ UNCHANGED <<phase, creds, current, controller, startVars, consent, channels, ready, serverVars,
                 posted>>

Enrolled ==
  /\ sock = "open" /\ ~ready /\ ~over /\ ready' = TRUE
  /\ UNCHANGED <<phase, creds, current, controller, startVars, consent, channels, sock, tries,
                 wired, toServer, serverVars, posted>>

ServerReceives ==
  /\ toServer # <<>> /\ (SlowGate \/ ready)
  /\ toServer' = Tail(toServer)
  /\ told' = IF ready THEN Head(toServer) ELSE told
  /\ UNCHANGED <<phase, creds, current, controller, startVars, consent, channels, sock, tries,
                 wired, ready, over, posted>>

(* toggleConsent: send is silent when the socket is down.                    *)
ToggleConsent ==
  /\ phase \notin Closed \cup {"gone"}
  /\ consent' = ~consent
  /\ IF sock = "open"
     THEN Len(toServer) < MaxSent /\ toServer' = Append(toServer, ~consent)
     ELSE UNCHANGED toServer
  /\ UNCHANGED <<phase, creds, current, controller, startVars, channels, sock, tries, wired,
                 ready, serverVars, posted>>

(* onClose of a socket that may be replaced, within the budget.              *)
Lost ==
  /\ ready' = FALSE /\ toServer' = <<>>
  /\ IF tries + 1 >= Tries
     THEN sock' = "failed" /\ UNCHANGED tries
     ELSE sock' = "waiting" /\ tries' = tries + 1
  /\ UNCHANGED wired

Drop ==
  /\ sock \in {"connecting", "open"} /\ Lost
  /\ UNCHANGED <<phase, creds, current, controller, startVars, consent, channels, serverVars, posted>>

(* Token or account refused: no retry is offered.                           *)
Refused ==
  /\ sock = "open" /\ ~ready
  /\ sock' = "refused" /\ toServer' = <<>>
  /\ UNCHANGED <<phase, creds, current, controller, startVars, consent, channels, tries, wired,
                 ready, serverVars, posted>>

Reconnect ==
  /\ sock = "waiting" /\ sock' = "connecting"
  /\ UNCHANGED <<phase, creds, current, controller, startVars, consent, channels, tries, wired,
                 ready, toServer, serverVars, posted>>

Retry ==
  /\ sock = "failed" /\ sock' = "connecting" /\ tries' = 0
  /\ UNCHANGED <<phase, creds, current, controller, startVars, consent, channels, wired, ready,
                 toServer, serverVars, posted>>

(* The server closes with 1000: the page follows, and forgets the session.   *)
EndedSeen ==
  /\ sock = "open" /\ over
  /\ Quit("meeting-ended") /\ creds' = FALSE
  /\ UNCHANGED <<consent, channels, serverVars, posted>>

(* A restart takes the socket along; an empty room's runtime is reclaimed.   *)
RuntimeLost ==
  /\ told /\ told' = FALSE
  /\ IF sock = "open" THEN Lost ELSE UNCHANGED sockVars
  /\ UNCHANGED <<phase, creds, current, controller, startVars, consent, channels, over, posted>>

EndElsewhere ==
  /\ ~over /\ over' = TRUE /\ told' = FALSE /\ ready' = FALSE
  /\ UNCHANGED <<phase, creds, current, controller, startVars, consent, channels, sock, tries,
                 wired, toServer, posted>>
-----------------------------------------------------------------------------
(* confirmEndMeeting: from the dialog, which a start or the meeting's end    *)
(* elsewhere may have overtaken, or again after a failure.                   *)
ConfirmEnd ==
  /\ ~posted /\ phase # "gone"
  /\ Quit("meeting-ended") /\ posted' = TRUE
  /\ UNCHANGED <<creds, consent, channels, serverVars>>

(* Done, or 404: the session is dropped and the page left.                   *)
EndAnswered ==
  /\ posted /\ posted' = FALSE /\ creds' = FALSE
  /\ over' \in {over, TRUE} /\ told' = (told /\ ~over')
  /\ Quit("gone")
  /\ UNCHANGED <<consent, channels>>

(* Any other answer says nothing about the meeting.                          *)
EndFails ==
  /\ posted /\ posted' = FALSE
  /\ over' \in {over, TRUE} /\ told' = (told /\ ~over')
  /\ phase' = IF phase = "gone" THEN phase ELSE "end-failed"
  /\ UNCHANGED <<creds, current, controller, startVars, consent, channels, sockVars>>

LeaveMeeting ==
  /\ phase \in Closed
  /\ Quit("gone") /\ creds' = FALSE
  /\ UNCHANGED <<consent, channels, serverVars, posted>>

Unmount ==
  /\ phase # "gone" /\ Quit("gone")
  /\ UNCHANGED <<creds, consent, channels, serverVars, posted>>

(* The page is opened again, with the session it remembered; not while its   *)
(* POST is under way (a bound).                                              *)
Mount ==
  /\ phase = "gone" /\ creds /\ ~posted
  /\ phase' = "idle" /\ consent' = FALSE /\ channels' = 1
  /\ UNCHANGED <<creds, current, controller, startVars, sockVars, serverVars, posted>>

StartStep(s) ==
  \/ Begin(s) \/ PickerRefused(s) \/ PickedSilent(s) \/ Picked(s)
  \/ MicGranted(s) \/ MicDenied(s) \/ MicAnsweredInVain(s) \/ MicTimeout(s) \/ MicLate(s)
  \/ GraphFails(s) \/ Loaded(s) \/ SharingStopped(s)

Next ==
  \/ \E s \in Start : StartStep(s)
  \/ StopListening \/ ToggleConsent
  \/ Open \/ Enrolled \/ ServerReceives \/ Drop \/ Refused \/ Reconnect \/ Retry
  \/ EndedSeen \/ RuntimeLost \/ EndElsewhere
  \/ ConfirmEnd \/ EndAnswered \/ EndFails \/ LeaveMeeting \/ Unmount \/ Mount

(* The timer fires, and loading the worklet has an outcome.  Nobody has to   *)
(* answer a prompt.                                                          *)
Fairness ==
  \A s \in Start : WF_vars(MicTimeout(s)) /\ WF_vars(Loaded(s) \/ GraphFails(s))

Spec == Init /\ [][Next]_vars
FairSpec == Spec /\ Fairness
-----------------------------------------------------------------------------
Hot(s) == share[s] = "live" \/ mic[s] = "live"

(* Safety (startEpochRef): a track that is live belongs to what the page     *)
(* holds and shows as listening, or to a start that is not over yet; nothing *)
(* is recorded that no button reaches.                                       *)
TracksAreHeld ==
  /\ \A s \in Start : Hot(s) => controller = s \/ at[s] \in {"asking", "loading"}
  /\ controller # None => phase = "listening" /\ current = controller

(* Liveness (stop listening, end, leave): what was cancelled, even while the *)
(* microphone's prompt is open and stays open, lets go of its tracks.        *)
CancelledIsReleased ==
  \A s \in Start : Hot(s) /\ current # s ~> ~Hot(s)

(* Action property (Phase): a page whose meeting has ended, or may have,     *)
(* never offers to listen again, whatever a start it cancelled comes to.     *)
ClosedStaysClosed ==
  [][(phase \in Closed) => (phase' \in Closed \cup {"gone"})]_vars

(* Safety (onOpen, captureChannels): an enrolled capture page with nothing   *)
(* on its way and its server agree on whether there is consent and on the    *)
(* layout of the frames.                                                     *)
WireAgrees ==
  sock = "open" /\ ready /\ toServer = <<>> =>
    /\ told = consent
    /\ wired = (IF mic[controller] = "live" THEN 2 ELSE 1)

(* Safety, claimed by the comment on the live check: a page that listens has *)
(* a live share.                                                             *)
ListeningIsLive == phase = "listening" => share[controller] = "live"
=============================================================================

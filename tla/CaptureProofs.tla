----------------------------- MODULE CaptureProofs -----------------------------
(***************************************************************************)
(* What the capture page guarantees, for any number of overlapping starts,  *)
(* any budget of attempts and any number of consent messages on their way:  *)
(* every live track is held or in a start that is not over (TracksAreHeld), *)
(* a closed page stays closed (ClosedStaysClosed), and, where the server's  *)
(* gate is over before a message can arrive, page and server agree on       *)
(* consent and layout (WireAgrees).                                         *)
(***************************************************************************)
EXTENDS CaptureSession, SequenceTheorems, TLAPS

(* The steps by what they move: one start, the panel, the socket.           *)
PageStep ==
  \/ StopListening \/ ToggleConsent \/ EndedSeen \/ ConfirmEnd \/ EndAnswered \/ EndFails
  \/ LeaveMeeting \/ Unmount \/ Mount

SocketStep ==
  \/ Open \/ Enrolled \/ ServerReceives \/ Drop \/ Refused \/ Reconnect \/ Retry
  \/ RuntimeLost \/ EndElsewhere

LEMMA StepKinds == Next <=> (\E s \in Start : StartStep(s)) \/ PageStep \/ SocketStep
BY DEF Next, PageStep, SocketStep
-----------------------------------------------------------------------------
(* TypeOK, in the parts that the same steps move.                           *)
FlagsOK ==
  /\ creds \in BOOLEAN /\ consent \in BOOLEAN /\ ready \in BOOLEAN
  /\ told \in BOOLEAN /\ over \in BOOLEAN /\ posted \in BOOLEAN

StartsOK ==
  /\ at \in [Start -> {"over", "picking", "asking", "loading", "held"}]
  /\ share \in [Start -> {"none", "live", "dead"}]
  /\ mic \in [Start -> {"none", "asked", "live"}]

PanelOK ==
  /\ phase \in Phase /\ channels \in 1..2
  /\ current \in Start \cup {None} /\ controller \in Start \cup {None}

QueueOK == toServer \in Seq(BOOLEAN) /\ Len(toServer) <= MaxSent

LinkOK ==
  /\ sock \in {"none", "connecting", "open", "waiting", "failed", "refused"}
  /\ tries \in 0..Tries /\ wired \in 1..2

LEMMA TypeParts == TypeOK <=> FlagsOK /\ StartsOK /\ PanelOK /\ QueueOK /\ LinkOK
BY DEF TypeOK, FlagsOK, StartsOK, PanelOK, QueueOK, LinkOK

LEMMA TypeInit == Init => TypeOK
<1> SUFFICES ASSUME Init PROVE TypeOK
  OBVIOUS
<1>1. FlagsOK
  BY DEF Init, FlagsOK
<1>2. StartsOK /\ PanelOK
  BY DEF Init, StartsOK, PanelOK, Phase
<1>3. QueueOK /\ LinkOK
  BY CaptureAssumption DEF Init, QueueOK, LinkOK
<1> QED BY <1>1, <1>2, <1>3, TypeParts

LEMMA FlagsStep == FlagsOK /\ QueueOK /\ Next => FlagsOK'
<1> SUFFICES ASSUME FlagsOK, QueueOK, Next PROVE FlagsOK'
  OBVIOUS
<1>1. ASSUME NEW s \in Start, StartStep(s) PROVE FlagsOK'
  BY <1>1 DEF FlagsOK, StartStep, Begin, PickerRefused, PickedSilent, Picked, MicGranted, MicDenied,
     MicAnsweredInVain, MicTimeout, MicLate, GraphFails, Loaded, SharingStopped, Fail, GoOn, Quit,
     Disconnect, sockVars, serverVars
<1>2. CASE PageStep
  BY <1>2 DEF FlagsOK, PageStep, StopListening, ToggleConsent, EndedSeen, ConfirmEnd, EndAnswered,
     EndFails, LeaveMeeting, Unmount, Mount, Quit, Disconnect, sockVars, serverVars
<1>3. CASE SocketStep
  BY <1>3, HeadTailProperties DEF FlagsOK, QueueOK, SocketStep, Open, Enrolled, ServerReceives, Drop,
     Refused, Reconnect, Retry, RuntimeLost, EndElsewhere, Lost, sockVars, serverVars
<1> QED BY <1>1, <1>2, <1>3, StepKinds

(* What a step of the panel does to it: it stops the capture, or fails to.   *)
LEMMA PanelMoves ==
  ASSUME PageStep
  PROVE  \/ /\ phase' \in {phase, "end-failed", "idle"} /\ channels' \in {channels, 1}
            /\ UNCHANGED <<current, controller, startVars>>
         \/ /\ StopCapture /\ Disconnect /\ UNCHANGED channels
            /\ phase' \in {"idle", "meeting-ended", "gone"}
<1>1. CASE EndFails
  <2>1. phase' \in {phase, "end-failed"}
    BY <1>1 DEF EndFails
  <2>2. UNCHANGED <<current, controller, startVars, channels>>
    BY <1>1 DEF EndFails, startVars
  <2> QED BY <2>1, <2>2
<1>2. CASE ToggleConsent \/ Mount
  BY <1>2 DEF ToggleConsent, Mount
<1>3. CASE StopListening \/ EndedSeen \/ ConfirmEnd \/ EndAnswered \/ LeaveMeeting \/ Unmount
  BY <1>3 DEF StopListening, EndedSeen, ConfirmEnd, EndAnswered, LeaveMeeting, Unmount, Quit
<1> QED BY <1>1, <1>2, <1>3 DEF PageStep

LEMMA SocketMoves == SocketStep => UNCHANGED <<phase, current, controller, channels, startVars>>
BY DEF SocketStep, Open, Enrolled, ServerReceives, Drop, Refused, Reconnect, Retry, RuntimeLost,
       EndElsewhere, startVars

LEMMA StartsStep == StartsOK /\ PanelOK /\ Next => StartsOK' /\ PanelOK'
<1> SUFFICES ASSUME StartsOK, PanelOK, Next PROVE StartsOK' /\ PanelOK'
  OBVIOUS
<1>1. ASSUME NEW s \in Start, StartStep(s) PROVE StartsOK'
  BY <1>1 DEF StartsOK, PanelOK, StartStep, Begin, PickerRefused, PickedSilent, Picked, MicGranted,
     MicDenied, MicAnsweredInVain, MicTimeout, MicLate, GraphFails, Loaded, SharingStopped, Fail,
     GoOn, Release, Quit, StopCapture, startVars
<1>2. ASSUME NEW s \in Start, StartStep(s) PROVE PanelOK'
  BY <1>2 DEF PanelOK, Phase, StartStep, Begin, PickerRefused, PickedSilent, Picked, MicGranted,
     MicDenied, MicAnsweredInVain, MicTimeout, MicLate, GraphFails, Loaded, SharingStopped, Fail,
     Show, GoOn, Layout, Quit, StopCapture
<1>3. CASE PageStep
  BY <1>3, PanelMoves DEF StartsOK, PanelOK, Phase, StopCapture, Release, startVars
<1>4. CASE SocketStep
  BY <1>4, SocketMoves DEF StartsOK, PanelOK, startVars
<1> QED BY <1>1, <1>2, <1>3, <1>4, StepKinds

(* What a step does to the socket.                                          *)
LEMMA QueueMoves ==
  ASSUME Next, FlagsOK
  PROVE  \/ toServer' = toServer \/ toServer' = <<>>
         \/ toServer # <<>> /\ toServer' = Tail(toServer)
         \/ toServer' = <<consent>> /\ consent \in BOOLEAN
         \/ Len(toServer) < MaxSent /\ toServer' = Append(toServer, consent') /\ consent' \in BOOLEAN
<1>1. ASSUME NEW s \in Start, StartStep(s) PROVE toServer' \in {toServer, <<>>}
  BY <1>1 DEF StartStep, Begin, PickerRefused, PickedSilent, Picked, MicGranted, MicDenied,
     MicAnsweredInVain, MicTimeout, MicLate, GraphFails, Loaded, SharingStopped, Fail, GoOn, Quit,
     Disconnect, sockVars
<1>2. CASE ToggleConsent
  <2>1. consent' = ~consent /\ consent' \in BOOLEAN
    BY <1>2 DEF ToggleConsent, FlagsOK
  <2>2. toServer' = toServer \/ (Len(toServer) < MaxSent /\ toServer' = Append(toServer, ~consent))
    BY <1>2, Zenon DEF ToggleConsent
  <2> QED BY <2>1, <2>2, Zenon
<1>3. CASE PageStep /\ ~ToggleConsent
  BY <1>3 DEF PageStep, StopListening, EndedSeen, ConfirmEnd, EndAnswered, EndFails, LeaveMeeting,
     Unmount, Mount, Quit, Disconnect, sockVars
<1>4. CASE Open
  BY <1>4, Zenon DEF Open, FlagsOK
<1>5. CASE SocketStep /\ ~Open
  BY <1>5 DEF SocketStep, Enrolled, ServerReceives, Drop, Refused, Reconnect, Retry, RuntimeLost,
     EndElsewhere, Lost, sockVars
<1> QED BY <1>1, <1>2, <1>3, <1>4, <1>5, StepKinds, Zenon

LEMMA QueueStep == FlagsOK /\ QueueOK /\ Next => QueueOK'
<1> SUFFICES ASSUME FlagsOK, QueueOK, Next PROVE QueueOK'
  OBVIOUS
<1>1. CASE toServer' = toServer
  BY <1>1 DEF QueueOK
<1>2. CASE toServer' = <<>>
  BY <1>2, CaptureAssumption DEF QueueOK
<1>3. CASE toServer # <<>> /\ toServer' = Tail(toServer)
  BY <1>3, CaptureAssumption, HeadTailProperties DEF QueueOK
<1>4. ASSUME NEW c \in BOOLEAN, toServer' = <<c>> PROVE QueueOK'
  BY <1>4, CaptureAssumption DEF QueueOK
<1>5. ASSUME NEW c \in BOOLEAN, Len(toServer) < MaxSent, toServer' = Append(toServer, c) PROVE QueueOK'
  BY <1>5, CaptureAssumption, AppendProperties DEF QueueOK
<1> QED BY <1>1, <1>2, <1>3, <1>4, <1>5, QueueMoves, Zenon

LEMMA LinkMoves ==
  Next => \/ UNCHANGED <<sock, tries, wired>>
          \/ Disconnect \/ Lost
          \/ sock' = "connecting" /\ tries' \in {tries, 0} /\ UNCHANGED wired
          \/ sock' = "open" /\ tries' = 0 /\ wired' = channels
          \/ sock' = "refused" /\ UNCHANGED <<tries, wired>>
<1> SUFFICES ASSUME Next
             PROVE  \/ UNCHANGED <<sock, tries, wired>>
                    \/ Disconnect \/ Lost
                    \/ sock' = "connecting" /\ tries' \in {tries, 0} /\ UNCHANGED wired
                    \/ sock' = "open" /\ tries' = 0 /\ wired' = channels
                    \/ sock' = "refused" /\ UNCHANGED <<tries, wired>>
  OBVIOUS
<1>1. ASSUME NEW s \in Start, StartStep(s)
      PROVE  \/ UNCHANGED <<sock, tries, wired>> \/ Disconnect
             \/ sock' = "connecting" /\ UNCHANGED <<tries, wired>>
  BY <1>1 DEF StartStep, Begin, PickerRefused, PickedSilent, Picked, MicGranted, MicDenied,
     MicAnsweredInVain, MicTimeout, MicLate, GraphFails, Loaded, SharingStopped, Fail, GoOn, Quit,
     sockVars
<1>2. PageStep => UNCHANGED <<sock, tries, wired>> \/ Disconnect
  BY DEF PageStep, StopListening, ToggleConsent, EndedSeen, ConfirmEnd, EndAnswered, EndFails,
     LeaveMeeting, Unmount, Mount, Quit, sockVars
<1>3. CASE SocketStep
  BY <1>3 DEF SocketStep, Open, Enrolled, ServerReceives, Drop, Refused, Reconnect, Retry,
     RuntimeLost, EndElsewhere, sockVars
<1> QED BY <1>1, <1>2, <1>3, StepKinds

LEMMA LinkStep == LinkOK /\ PanelOK /\ Next => LinkOK'
BY CaptureAssumption, LinkMoves DEF LinkOK, PanelOK, Disconnect, Lost

(* Type correctness of the capture page.                                    *)
THEOREM TypeCorrect == Spec => []TypeOK
<1>1. TypeOK /\ [Next]_vars => TypeOK'
  <2>1. TypeOK /\ Next => TypeOK'
    BY FlagsStep, StartsStep, QueueStep, LinkStep
    DEF TypeOK, FlagsOK, StartsOK, PanelOK, QueueOK, LinkOK
  <2>2. TypeOK /\ UNCHANGED vars => TypeOK'
    BY DEF TypeOK, vars, startVars, sockVars, serverVars
  <2> QED BY <2>1, <2>2
<1> QED BY TypeInit, <1>1, PTL DEF Spec
-----------------------------------------------------------------------------
(* What the page holds is what it shows as listening, and what startCapture *)
(* has handed over.                                                         *)
ControllerOK ==
  /\ controller # None => phase = "listening" /\ current = controller /\ at[controller] = "held"
  /\ \A s \in Start : at[s] = "held" => controller = s

(* Tracks are live only in a start that is not over yet, or held.           *)
TracksOK ==
  \A s \in Start : /\ share[s] = "live" => at[s] \in {"asking", "loading", "held"}
                   /\ mic[s] = "live" => at[s] \in {"loading", "held"}

(* A page that is closed or gone has no start that counts; the meeting is   *)
(* being ended from such a page only.                                       *)
ClosedOK ==
  /\ phase \in Closed \cup {"gone"} => current = None
  /\ posted => phase \in Closed \cup {"gone"}

CaptureInv == ControllerOK /\ TracksOK /\ ClosedOK

LEMMA CaptureInit == Init => CaptureInv
BY DEF Init, CaptureInv, ControllerOK, TracksOK, ClosedOK, Closed

(* After a stop nothing is held.                                            *)
LEMMA StopReleases ==
  ASSUME StartsOK, PanelOK, ControllerOK, TracksOK, StopCapture
  PROVE  /\ controller' = None /\ current' = None
         /\ \A s \in Start : at'[s] # "held"
         /\ TracksOK'
BY CaptureAssumption DEF StartsOK, PanelOK, ControllerOK, TracksOK, StopCapture, Release, startVars

LEMMA CaptureStartStep ==
  ASSUME TypeOK, CaptureInv, NEW s \in Start, StartStep(s)
  PROVE  CaptureInv'
<1> USE CaptureAssumption DEF TypeOK, CaptureInv, ControllerOK, TracksOK, ClosedOK, Closed
<1>1. CASE Begin(s)
  BY <1>1 DEF Begin
<1>2. CASE PickerRefused(s) \/ PickedSilent(s) \/ GraphFails(s)
  BY <1>2 DEF PickerRefused, PickedSilent, GraphFails, Fail, Show, Release
<1>3. CASE Picked(s)
  BY <1>3 DEF Picked
<1>4. CASE MicGranted(s) \/ MicDenied(s) \/ MicTimeout(s) \/ MicLate(s)
  BY <1>4 DEF MicGranted, MicDenied, MicTimeout, MicLate, GoOn, Fail, Show, Release
<1>5. CASE MicAnsweredInVain(s)
  BY <1>5 DEF MicAnsweredInVain, Show
<1>6. CASE Loaded(s)
  BY <1>6 DEF Loaded, Release
<1>7. CASE SharingStopped(s)
  BY <1>7, StopReleases, TypeParts DEF SharingStopped, Quit
<1> QED BY <1>1, <1>2, <1>3, <1>4, <1>5, <1>6, <1>7 DEF StartStep

LEMMA CapturePageStep ==
  ASSUME TypeOK, CaptureInv, PageStep
  PROVE  CaptureInv'
<1>1. CASE ToggleConsent \/ Mount
  BY <1>1 DEF ToggleConsent, Mount, CaptureInv, ControllerOK, TracksOK, ClosedOK, Closed, startVars
<1>2. CASE EndFails
  <2>1. posted /\ ~posted' /\ phase' = (IF phase = "gone" THEN phase ELSE "end-failed")
    BY <1>2 DEF EndFails
  <2>2. UNCHANGED <<current, controller, at, share, mic>>
    BY <1>2 DEF EndFails, startVars
  <2> QED BY <2>1, <2>2 DEF CaptureInv, ControllerOK, TracksOK, ClosedOK, Closed
<1>3. ASSUME StopCapture, phase' \in Phase, posted' => phase' \in Closed \cup {"gone"}
      PROVE  CaptureInv'
  BY <1>3, StopReleases, TypeParts DEF CaptureInv, ControllerOK, ClosedOK
<1>4. CASE StopListening
  <2>1. phase \in {"requesting", "listening"} /\ posted' = posted
    BY <1>4 DEF StopListening
  <2>2. StopCapture /\ phase' = "idle"
    BY <1>4 DEF StopListening, Quit
  <2> QED BY <2>1, <2>2, <1>3 DEF Phase, Closed, CaptureInv, ClosedOK
<1>5. CASE EndedSeen \/ ConfirmEnd \/ EndAnswered \/ LeaveMeeting \/ Unmount
  BY <1>5, <1>3 DEF EndedSeen, ConfirmEnd, EndAnswered, LeaveMeeting, Unmount, Quit, Phase, Closed
<1> QED BY <1>1, <1>2, <1>4, <1>5 DEF PageStep

LEMMA CaptureSocketStep ==
  ASSUME TypeOK, CaptureInv, SocketStep
  PROVE  CaptureInv'
<1>1. UNCHANGED posted
  BY DEF SocketStep, Open, Enrolled, ServerReceives, Drop, Refused, Reconnect, Retry, RuntimeLost,
     EndElsewhere
<1> QED BY <1>1, SocketMoves DEF CaptureInv, ControllerOK, TracksOK, ClosedOK, startVars

LEMMA CaptureStep == TypeOK /\ CaptureInv /\ [Next]_vars => CaptureInv'
<1>1. CASE UNCHANGED vars
  BY <1>1 DEF vars, startVars, CaptureInv, ControllerOK, TracksOK, ClosedOK
<1> QED BY <1>1, CaptureStartStep, CapturePageStep, CaptureSocketStep, StepKinds

LEMMA CaptureInvariant == Spec => []CaptureInv
BY CaptureInit, CaptureStep, TypeCorrect, PTL DEF Spec

(* A live track belongs to what the page holds and shows as listening, or   *)
(* to a start that is not over (startEpochRef).                             *)
THEOREM LiveTracksAreHeld == Spec => []TracksAreHeld
<1>1. CaptureInv => TracksAreHeld
  BY DEF CaptureInv, ControllerOK, TracksOK, TracksAreHeld, Hot
<1> QED BY <1>1, CaptureInvariant, PTL

(* A page whose meeting has ended, or may have, never listens again.        *)
THEOREM ClosedPageStaysClosed == Spec => ClosedStaysClosed
<1>1. TypeOK /\ CaptureInv /\ [Next]_vars =>
        [(phase \in Closed) => (phase' \in Closed \cup {"gone"})]_vars
  <2> SUFFICES ASSUME TypeOK, CaptureInv, Next, phase \in Closed
               PROVE  phase' \in Closed \cup {"gone"}
    OBVIOUS
  <2>1. current = None
    BY DEF CaptureInv, ClosedOK
  <2>2. ASSUME NEW s \in Start, StartStep(s) PROVE phase' = phase
    <3>1. at[s] # "held" \/ current # s
      BY <2>1, CaptureAssumption
    <3> QED BY <2>1, <2>2, <3>1, CaptureAssumption
        DEF StartStep, Begin, PickerRefused, PickedSilent, Picked, MicGranted, MicDenied,
        MicAnsweredInVain, MicTimeout, MicLate, GraphFails, Loaded, SharingStopped, Fail, Show, GoOn,
        Closed
  <2>3. CASE PageStep
    BY <2>3 DEF PageStep, StopListening, ToggleConsent, EndedSeen, ConfirmEnd, EndAnswered, EndFails,
       LeaveMeeting, Unmount, Mount, Quit, Closed
  <2>4. CASE SocketStep
    BY <2>4, SocketMoves
  <2> QED BY <2>2, <2>3, <2>4, StepKinds
<1> QED BY <1>1, TypeCorrect, CaptureInvariant, PTL DEF Spec, ClosedStaysClosed
-----------------------------------------------------------------------------
(* The socket lives no longer than the capture it was made for, and was     *)
(* opened for the layout of its frames.                                     *)
SocketOK ==
  /\ sock # "none" => controller # None
  /\ controller # None => channels = (IF mic[controller] = "live" THEN 2 ELSE 1)
  /\ sock = "open" => wired = channels

(* The last consent message on its way is the page's consent.  When there   *)
(* is none it has been taken, unless the meeting is over.                   *)
ConsentOK ==
  sock = "open" =>
    /\ toServer # <<>> => toServer[Len(toServer)] = consent
    /\ toServer = <<>> => IF ready THEN told = consent ELSE over

LEMMA SocketInit == Init => SocketOK /\ ConsentOK
BY DEF Init, SocketOK, ConsentOK

LEMMA SocketStartStep ==
  ASSUME TypeOK, CaptureInv, SocketOK, NEW s \in Start, StartStep(s)
  PROVE  SocketOK'
<1> USE CaptureAssumption DEF TypeOK, CaptureInv, ControllerOK, SocketOK
<1>1. CASE Begin(s) \/ Picked(s)
  BY <1>1 DEF Begin, Picked, sockVars
<1>2. CASE PickerRefused(s) \/ PickedSilent(s) \/ GraphFails(s)
  BY <1>2 DEF PickerRefused, PickedSilent, GraphFails, Fail, Release, sockVars
<1>3. CASE MicGranted(s) \/ MicDenied(s) \/ MicTimeout(s) \/ MicLate(s) \/ MicAnsweredInVain(s)
  BY <1>3 DEF MicGranted, MicDenied, MicTimeout, MicLate, MicAnsweredInVain, GoOn, Fail, Release, sockVars
<1>4. CASE Loaded(s)
  BY <1>4 DEF Loaded, Layout, Release, sockVars
<1>5. CASE SharingStopped(s)
  BY <1>5 DEF SharingStopped, Quit, StopCapture, Disconnect, sockVars
<1> QED BY <1>1, <1>2, <1>3, <1>4, <1>5 DEF StartStep

LEMMA SocketPageStep ==
  ASSUME TypeOK, CaptureInv, SocketOK, PageStep
  PROVE  SocketOK'
<1>1. CASE StopCapture /\ Disconnect
  BY <1>1 DEF StopCapture, Disconnect, SocketOK
<1>2. CASE UNCHANGED <<sock, wired, channels, controller, mic>>
  BY <1>2 DEF SocketOK
<1>3. CASE Mount
  BY <1>3 DEF Mount, CaptureInv, ControllerOK, SocketOK, startVars, sockVars, TypeOK
<1>4. CASE ToggleConsent \/ EndFails
  <2>1. UNCHANGED <<sock, wired, channels, controller, mic>>
    BY <1>4, Zenon DEF ToggleConsent, EndFails, startVars, sockVars
  <2> QED BY <2>1, <1>2
<1> QED BY <1>1, <1>3, <1>4 DEF PageStep, StopListening, EndedSeen, ConfirmEnd, EndAnswered,
        LeaveMeeting, Unmount, Quit

LEMMA SocketSocketStep ==
  ASSUME SocketOK, SocketStep
  PROVE  SocketOK'
BY SocketMoves DEF SocketOK, SocketStep, Open, Enrolled, ServerReceives, Drop, Refused, Reconnect,
   Retry, RuntimeLost, EndElsewhere, Lost, startVars, sockVars

(* The last message stays the last when the first is taken.                 *)
LEMMA LastOfTail ==
  ASSUME NEW S, NEW q \in Seq(S), q # <<>>
  PROVE  /\ Len(q) = 1 => Head(q) = q[Len(q)] /\ Tail(q) = <<>>
         /\ Len(q) # 1 => Tail(q) # <<>> /\ Tail(q)[Len(Tail(q))] = q[Len(q)]
<1>1. Len(q) \in Nat \ {0} /\ Len(<<>>) = 0
  BY EmptySeq
<1>2. /\ Tail(q) \in Seq(S) /\ Len(Tail(q)) = Len(q) - 1
      /\ \A i \in 1..Len(Tail(q)) : Tail(q)[i] = q[i + 1]
  BY HeadTailProperties
<1>3. ASSUME Len(q) = 1 PROVE Head(q) = q[Len(q)] /\ Tail(q) = <<>>
  <2>1. Head(q) = q[Len(q)]
    BY <1>3
  <2>2. Len(Tail(q)) = 0
    BY <1>2, <1>3
  <2> QED BY <2>1, <2>2, <1>2, EmptySeq
<1>4. ASSUME Len(q) # 1 PROVE Tail(q) # <<>> /\ Tail(q)[Len(Tail(q))] = q[Len(q)]
  <2>1. Len(Tail(q)) # 0
    BY <1>1, <1>2, <1>4
  <2>2. Tail(q) # <<>>
    BY <1>1, <2>1, Zenon
  <2> QED BY <1>1, <1>2, <1>4, <2>2
<1> QED BY <1>3, <1>4

LEMMA ConsentStep ==
  ASSUME ~SlowGate, TypeOK, CaptureInv, SocketOK, ConsentOK, Next
  PROVE  ConsentOK'
<1>1. ASSUME NEW s \in Start, StartStep(s) PROVE ConsentOK'
  BY <1>1 DEF ConsentOK, StartStep, Begin, PickerRefused, PickedSilent, Picked, MicGranted,
     MicDenied, MicAnsweredInVain, MicTimeout, MicLate, GraphFails, Loaded, SharingStopped, Fail,
     GoOn, Quit, Disconnect, sockVars, serverVars
<1>2. CASE ToggleConsent
  <2>1. consent' = ~consent /\ consent' \in BOOLEAN
    BY <1>2 DEF ToggleConsent, TypeOK
  <2>2. CASE sock = "open"
    <3>1. toServer' = Append(toServer, consent')
      BY <1>2, <2>1, <2>2, Zenon DEF ToggleConsent
    <3> QED BY <2>1, <3>1, AppendProperties DEF TypeOK, ConsentOK
  <2>3. CASE sock # "open"
    BY <1>2, <2>3 DEF ToggleConsent, ConsentOK
  <2> QED BY <2>2, <2>3
<1>3. CASE EndFails
  <2>1. sock = "none" /\ sock' = sock
    BY <1>3 DEF EndFails, CaptureInv, ClosedOK, ControllerOK, SocketOK, Closed, sockVars
  <2> QED BY <2>1 DEF ConsentOK
<1>4. CASE PageStep /\ ~ToggleConsent /\ ~EndFails
  BY <1>4 DEF ConsentOK, PageStep, StopListening, EndedSeen, ConfirmEnd, EndAnswered, LeaveMeeting,
     Unmount, Mount, Quit, Disconnect, CaptureInv, ClosedOK, ControllerOK, SocketOK, sockVars, serverVars
<1>5. CASE Open
  BY <1>5 DEF Open, ConsentOK, TypeOK
<1>6. CASE ServerReceives
  <2>1. toServer \in Seq(BOOLEAN) /\ toServer # <<>>
    BY <1>6 DEF ServerReceives, TypeOK
  <2>2. /\ ready = TRUE /\ ready' = ready /\ sock' = sock /\ consent' = consent
        /\ told' = Head(toServer) /\ toServer' = Tail(toServer)
    BY <1>6, Zenon DEF ServerReceives, TypeOK
  <2>3. CASE Len(toServer) = 1
    <3>1. Head(toServer) = toServer[Len(toServer)] /\ Tail(toServer) = <<>>
      BY <2>1, <2>3, LastOfTail
    <3> QED BY <2>1, <2>2, <3>1, Zenon DEF ConsentOK
  <2>4. CASE Len(toServer) # 1
    <3>1. Tail(toServer) # <<>> /\ Tail(toServer)[Len(Tail(toServer))] = toServer[Len(toServer)]
      BY <2>1, <2>4, LastOfTail
    <3> QED BY <2>1, <2>2, <3>1, Zenon DEF ConsentOK
  <2> QED BY <2>3, <2>4
<1>7. CASE SocketStep /\ ~Open /\ ~ServerReceives
  BY <1>7 DEF ConsentOK, SocketStep, Enrolled, Drop, Refused, Reconnect, Retry, RuntimeLost,
     EndElsewhere, Lost, sockVars, TypeOK
<1> QED BY <1>1, <1>2, <1>3, <1>4, <1>5, <1>6, <1>7, StepKinds

LEMMA WireStep ==
  ASSUME ~SlowGate, TypeOK, CaptureInv, SocketOK, ConsentOK, [Next]_vars
  PROVE  SocketOK' /\ ConsentOK'
<1>1. CASE UNCHANGED vars
  BY <1>1 DEF vars, startVars, sockVars, serverVars, SocketOK, ConsentOK
<1>2. CASE Next
  <2>1. SocketOK'
    BY <1>2, SocketStartStep, SocketPageStep, SocketSocketStep, StepKinds
  <2> QED BY <1>2, <2>1, ConsentStep
<1> QED BY <1>1, <1>2

LEMMA WireInvariant ==
  ASSUME ~SlowGate
  PROVE  Spec => [](SocketOK /\ ConsentOK)
<1>1. TypeOK /\ CaptureInv /\ (SocketOK /\ ConsentOK) /\ [Next]_vars => SocketOK' /\ ConsentOK'
  BY WireStep
<1> QED BY <1>1, SocketInit, TypeCorrect, CaptureInvariant, PTL DEF Spec

(* Page and server agree on consent and layout once nothing is on its way,  *)
(* where a socket is enrolled before its messages arrive (onOpen,           *)
(* captureChannels).  On pg it does not hold.                               *)
THEOREM PageAndServerAgree ==
  ASSUME ~SlowGate
  PROVE  Spec => []WireAgrees
<1>1. TypeOK /\ SocketOK /\ ConsentOK => WireAgrees
  BY DEF SocketOK, ConsentOK, WireAgrees
<1> QED BY <1>1, TypeCorrect, WireInvariant, PTL
=============================================================================

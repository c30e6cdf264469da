------------------------- MODULE HubLifecycleProofs -------------------------
(***************************************************************************)
(* What the hub guarantees for every number of connections and pages, with  *)
(* either driver: the room holds no dead socket, and no runtime of a        *)
(* running meeting is left in memory without a timer.                       *)
(***************************************************************************)
EXTENDS HubLifecycle, TLAPS

(* A runtime teardown in progress belongs to a meeting that is stored as    *)
(* completed.                                                               *)
EndingOK == ending = "stored" => status = "completed"

(* NoOrphanRuntime is not inductive: the runtime of a room that is empty    *)
(* already may still be in the making.  The timer then has to be armed      *)
(* before the runtime is registered.                                        *)
TimerOK ==
  room = {} /\ status = "scheduled" /\ (session # None \/ \E c \in Conn : Booting(c)) => grace

HubInv == TypeOK /\ NoGhostMember /\ EndingOK /\ TimerOK

USE DEF Chain

(* The runtime a connection starts with is well typed.                      *)
LEMMA NoRuntimeType == -1 \in HeadIndex /\ NoRuntime \in Runtime
<1>1. -1 \in HeadIndex
  BY HubAssumption DEF HeadIndex
<1> QED BY <1>1 DEF NoRuntime, Runtime

(* A field of a well typed runtime may be set to a value of its type.       *)
LEMMA RuntimeFields ==
  ASSUME NEW r \in Runtime
  PROVE  /\ r.head \in HeadIndex /\ r.deck \in BOOLEAN
         /\ \A b \in BOOLEAN : [r EXCEPT !.deck = b] \in Runtime
         /\ \A b \in BOOLEAN : [r EXCEPT !.consent = b] \in Runtime
         /\ \A i \in HeadIndex : [r EXCEPT !.head = i] \in Runtime
         /\ \A b \in BOOLEAN, i \in HeadIndex :
              [r EXCEPT !.live = TRUE, !.loaded = b, !.head = i] \in Runtime
BY DEF Runtime

LEMMA HubInit == Init => HubInv
<1> SUFFICES ASSUME Init PROVE HubInv
  OBVIOUS
<1>1. TypeOK
  <2>1. shown \subseteq 0..MaxIndex
    BY HubAssumption DEF Init, HeadIndex
  <2> QED BY <2>1, HubAssumption, NoRuntimeType DEF Init, TypeOK
<1>2. NoGhostMember /\ EndingOK /\ TimerOK
  BY DEF Init, NoGhostMember, EndingOK, TimerOK, Booting
<1> QED BY <1>1, <1>2 DEF HubInv

(* A disposed session leaves a well typed hub.                              *)
LEMMA DisposeType ==
  ASSUME TypeOK, DisposeSession
  PROVE  /\ rt' \in [Conn -> Runtime] /\ session' \in Conn \cup {None}
         /\ binding' \in BOOLEAN /\ grace' \in BOOLEAN
BY NoRuntimeType DEF TypeOK, DisposeSession

LEMMA CloseType ==
  ASSUME TypeOK, NEW S, Close(S)
  PROVE  ws' \in [Conn -> {"new", "open", "closing", "closed"}]
BY DEF TypeOK, Close

LEMMA RegisterType ==
  ASSUME TypeOK, NEW c \in Conn, NEW ok \in BOOLEAN, Register(c, ok)
  PROVE  /\ session' \in Conn \cup {None}
         /\ rt' \in [Conn -> Runtime]
         /\ chain' \in [Conn -> Chain]
<1>1. PICK i \in HeadIndex :
        rt' = [rt EXCEPT ![c] = [rt[c] EXCEPT !.live = TRUE, !.loaded = ok, !.head = i]]
  BY NoRuntimeType, RuntimeFields DEF TypeOK, Register
<1>2. rt' \in [Conn -> Runtime]
  BY <1>1, RuntimeFields DEF TypeOK
<1> QED BY <1>2 DEF TypeOK, Register

(* Every step keeps the state well typed.                                   *)
LEMMA TypeStep ==
  ASSUME TypeOK, [Next]_vars
  PROVE  TypeOK'
<1> USE HubAssumption DEF dbVars, hubVars
<1>1. ASSUME NEW c \in Conn, Connect(c) \/ GateRead(c) PROVE TypeOK'
  BY <1>1 DEF TypeOK, Connect, GateRead
<1>2. ASSUME NEW c \in Conn, Refuse(c) \/ Drop(c) PROVE TypeOK'
  BY <1>2, CloseType DEF TypeOK, Refuse, Drop
<1>3. ASSUME NEW c \in Conn, Attach(c) PROVE TypeOK'
  <2>1. [rt[c] EXCEPT !.deck = binding] \in Runtime
    BY RuntimeFields DEF TypeOK
  <2>2. [rt EXCEPT ![c].deck = binding] \in [Conn -> Runtime]
    BY <2>1 DEF TypeOK
  <2>3. rt' \in [Conn -> Runtime]
    BY <1>3, <2>2 DEF TypeOK, Attach, Enrol
  <2> QED BY <1>3, <2>3 DEF TypeOK, Attach, Enrol
<1>4. ASSUME NEW c \in Conn, BootPrivacy(c) PROVE TypeOK'
  BY <1>4, RegisterType DEF TypeOK, BootPrivacy
<1>5. ASSUME NEW c \in Conn, BootDeck(c) PROVE TypeOK'
  <2>1. [rt[c] EXCEPT !.head = dbHead] \in Runtime
    BY RuntimeFields DEF TypeOK
  <2>2. [rt EXCEPT ![c].head = dbHead] \in [Conn -> Runtime]
    BY <2>1 DEF TypeOK
  <2> QED BY <1>5, <2>2, RegisterType DEF TypeOK, BootDeck
<1>6. ASSUME NEW c \in Conn, BootSlides(c) PROVE TypeOK'
  BY <1>6, RegisterType DEF TypeOK, BootSlides
<1>7. ASSUME NEW c \in Conn, CloseEvent(c) PROVE TypeOK'
  BY <1>7 DEF TypeOK, CloseEvent
<1>8. CASE GraceFires
  BY <1>8, DisposeType DEF TypeOK, GraceFires
<1>9. CASE EndAsked \/ EndStored \/ EndFails
  BY <1>9 DEF TypeOK, EndAsked, EndStored, EndFails
<1>10. CASE EndTearsDown
  BY <1>10, DisposeType, CloseType DEF TypeOK, EndTearsDown
<1>11. CASE Restart
  BY <1>11, NoRuntimeType DEF TypeOK, Restart
<1>12. ASSUME NEW c \in Conn, NEW g \in BOOLEAN, Consent(c, g) PROVE TypeOK'
  BY <1>12, RuntimeFields DEF TypeOK, Consent
<1>13. ASSUME NEW c \in Conn, NEW i \in 0..MaxIndex, PageCommit(c, i) PROVE TypeOK'
  <2>1. i \in HeadIndex
    BY HubAssumption DEF HeadIndex
  <2>2. rt' \in [Conn -> Runtime]
    BY <1>13, <2>1, RuntimeFields DEF TypeOK, PageCommit
  <2> QED BY <1>13, <2>1, <2>2 DEF TypeOK, PageCommit
<1>14. ASSUME NEW i \in 0..MaxIndex, HeadSaved(i) \/ SaveFails(i) PROVE TypeOK'
  <2>1. UNCHANGED <<status, ending, ws, chain, hubVars, wish>> /\ saving' \subseteq saving
        /\ shown' \subseteq shown /\ dbHead' \in {i, dbHead}
    BY <1>14 DEF HeadSaved, SaveFails
  <2>2. dbHead' \in HeadIndex
    BY <2>1, HubAssumption DEF TypeOK, HeadIndex
  <2> QED BY <2>1, <2>2 DEF TypeOK, hubVars
<1>15. CASE UNCHANGED vars
  BY <1>15 DEF TypeOK, vars
<1> QED BY <1>1, <1>2, <1>3, <1>4, <1>5, <1>6, <1>7, <1>8, <1>9, <1>10, <1>11, <1>12, <1>13,
          <1>14, <1>15 DEF Next, ChainStep

(* Every step keeps dead sockets out of the room and the timer armed.       *)
LEMMA TimerStep ==
  ASSUME HubInv, [Next]_vars
  PROVE  NoGhostMember' /\ EndingOK' /\ TimerOK'
<1> USE DEF dbVars, hubVars
<1> USE DEF HubInv, NoGhostMember, EndingOK, TimerOK, Booting
<1>1. ASSUME NEW c \in Conn, Connect(c) \/ GateRead(c)
      PROVE  NoGhostMember' /\ EndingOK' /\ TimerOK'
  BY <1>1 DEF TypeOK, Connect, GateRead
<1>2. ASSUME NEW c \in Conn, Refuse(c) \/ Drop(c)
      PROVE  NoGhostMember' /\ EndingOK' /\ TimerOK'
  BY <1>2 DEF TypeOK, Refuse, Drop, Close
<1>3. ASSUME NEW c \in Conn, Attach(c)
      PROVE  NoGhostMember' /\ EndingOK' /\ TimerOK'
  BY <1>3 DEF TypeOK, Attach, Enrol
(* A connection that was booting may register the runtime of a room that    *)
(* is empty by now; the timer was armed for it already.                     *)
<1>4. ASSUME NEW c \in Conn, BootPrivacy(c) \/ BootDeck(c) \/ BootSlides(c)
      PROVE  NoGhostMember' /\ EndingOK' /\ TimerOK'
  <2>1. Booting(c) /\ UNCHANGED <<status, ending, ws, room, grace>>
    BY <1>4 DEF BootPrivacy, BootDeck, BootSlides
  <2> QED BY <2>1
<1>5. ASSUME NEW c \in Conn, CloseEvent(c)
      PROVE  NoGhostMember' /\ EndingOK' /\ TimerOK'
  <2>1. room = {} \/ room = {c} \/ room' # {}
    BY <1>5 DEF CloseEvent
  <2>2. TimerOK'
    BY <1>5, <2>1 DEF CloseEvent
  <2>3. NoGhostMember' /\ EndingOK'
    BY <1>5 DEF TypeOK, CloseEvent
  <2> QED BY <2>2, <2>3
<1>6. CASE GraceFires
  BY <1>6 DEF GraceFires, DisposeSession
<1>7. CASE EndAsked \/ EndStored \/ EndFails
  BY <1>7 DEF EndAsked, EndStored, EndFails
<1>8. CASE EndTearsDown
  BY <1>8 DEF EndTearsDown
<1>9. CASE Restart
  BY <1>9 DEF TypeOK, Restart
<1>10. ASSUME NEW c \in Conn, NEW g \in BOOLEAN, Consent(c, g)
       PROVE  NoGhostMember' /\ EndingOK' /\ TimerOK'
  BY <1>10 DEF Consent
<1>11. ASSUME NEW c \in Conn, NEW i \in 0..MaxIndex, PageCommit(c, i)
       PROVE  NoGhostMember' /\ EndingOK' /\ TimerOK'
  BY <1>11 DEF PageCommit
<1>12. ASSUME NEW i \in 0..MaxIndex, HeadSaved(i) \/ SaveFails(i)
       PROVE  NoGhostMember' /\ EndingOK' /\ TimerOK'
  BY <1>12 DEF HeadSaved, SaveFails
<1>13. CASE UNCHANGED vars
  BY <1>13 DEF vars
<1> QED BY <1>1, <1>2, <1>3, <1>4, <1>5, <1>6, <1>7, <1>8, <1>9, <1>10, <1>11, <1>12, <1>13
        DEF Next, ChainStep

LEMMA HubAlways == Spec => []HubInv
<1>1. HubInv /\ [Next]_vars => HubInv'
  BY TypeStep, TimerStep DEF HubInv
<1> QED BY HubInit, <1>1, PTL DEF Spec

(* Every variable of the hub keeps its type (hub.ts, schema of meetings and  *)
(* decks).                                                                  *)
THEOREM TypeCorrect == Spec => []TypeOK
<1>1. HubInv => TypeOK
  BY DEF HubInv
<1> QED BY HubAlways, <1>1, PTL

(* hub.attach enrols no socket that is closed already, and detach removes   *)
(* every socket that closes, in every interleaving of the handshakes.       *)
THEOREM NoGhosts == Spec => []NoGhostMember
<1>1. HubInv => NoGhostMember
  BY DEF HubInv
<1> QED BY HubAlways, <1>1, PTL

(* When everybody has left a running meeting, its runtime is on the reclaim *)
(* timer, also when it was registered after the last one left.              *)
THEOREM NoOrphans == Spec => []NoOrphanRuntime
<1>1. HubInv => NoOrphanRuntime
  BY DEF HubInv, TimerOK, NoOrphanRuntime
<1> QED BY HubAlways, <1>1, PTL
-----------------------------------------------------------------------------
(***************************************************************************)
(* What follows when a connection handler is over before the next event     *)
(* (Serialised, the single-connection SQLite driver): an ended meeting      *)
(* leaves no runtime behind, there is one runtime, its consent is the       *)
(* capture page's and its head is not behind.                               *)
(***************************************************************************)

(* The handler of c is between two of its awaits.                           *)
Busy(c) == chain[c] \in {"gate", "admit", "refuse"} \/ Booting(c)

Ready(c) == ws[c] = "open" /\ chain[c] = "ready"

(* At most one event is in progress: a handler, an end or a save.           *)
OneHandler ==
  /\ \A c, d \in Conn : Busy(c) /\ Busy(d) => c = d
  /\ \A c \in Conn : Busy(c) => ws[c] = "open" /\ ending = "idle" /\ saving = {}
  /\ ending # "idle" => saving = {}

(* An open socket is in its handler or enrolled, so endMeeting, which closes *)
(* the room, reaches every socket.                                          *)
Enrolled ==
  \A c \in Conn : /\ ws[c] = "open" => Busy(c) \/ chain[c] = "ready"
                  /\ Booting(c) \/ Ready(c) => c \in room

NoneRunning ==
  /\ status = "completed" => \A c \in Conn : chain[c] # "admit" /\ ~Booting(c)
  /\ status = "completed" /\ ending # "stored" =>
       session = None /\ \A c \in Conn : ~rt[c].live /\ ~Ready(c)

(* A runtime is made only while none is registered, and without consent.    *)
RuntimeOK ==
  /\ OneRuntime
  /\ \A c \in Conn : Booting(c) => session = None
  /\ \A c \in Conn : session # c => ~rt[c].consent
  /\ ConsentNotStale

(* Every page shown is stored, or its save is in progress (one whose save    *)
(* failed is not in "shown" any more); a boot that has  *)
(* read the deck row has read all of them.                                  *)
HeadOK ==
  /\ \A i \in shown : i <= dbHead \/ i \in saving
  /\ \A c \in Conn : chain[c] = "slides" => \A i \in shown : i <= rt[c].head
  /\ HeadNeverBehind

SerialHub == OneHandler /\ Enrolled /\ NoneRunning /\ RuntimeOK /\ HeadOK

LEMMA SerialInit == Init => SerialHub
<1> SUFFICES ASSUME Init PROVE SerialHub
  OBVIOUS
<1>1. OneHandler /\ Enrolled /\ NoneRunning
  BY DEF Init, OneHandler, Enrolled, NoneRunning, Busy, Booting, Ready
<1>2. RuntimeOK
  BY DEF Init, RuntimeOK, OneRuntime, Booting, ConsentNotStale, NoRuntime
<1>3. HeadOK
  BY HubAssumption DEF Init, HeadOK, HeadNeverBehind, HeadIndex
<1> QED BY <1>1, <1>2, <1>3 DEF SerialHub

(* The program waits for an event only when nothing is in progress.         *)
LEMMA QuietIdle ==
  ASSUME Serialised, Quiet
  PROVE  (\A c \in Conn : ~Busy(c)) /\ ending = "idle" /\ saving = {}
BY DEF Quiet, Busy

(* What a step leaves of SerialHub when it moves nothing but sockets, and   *)
(* chains that stay out of a boot.                                          *)
LEMMA RuntimesUntouched ==
  ASSUME RuntimeOK, HeadOK, UNCHANGED <<dbHead, saving, session, rt, shown, wish>>,
         \A c \in Conn : Booting(c)' => chain'[c] = chain[c]
  PROVE  RuntimeOK' /\ HeadOK'
<1>1. RuntimeOK'
  BY DEF RuntimeOK, OneRuntime, ConsentNotStale, Booting
<1>2. HeadOK'
  BY DEF HeadOK, HeadNeverBehind, Booting
<1> QED BY <1>1, <1>2

(* A socket arrives or goes, a handler is admitted or refused.              *)
LEMMA SocketStep ==
  ASSUME Serialised, TypeOK, SerialHub, NEW c \in Conn,
         Connect(c) \/ GateRead(c) \/ Refuse(c) \/ Drop(c) \/ CloseEvent(c)
  PROVE  SerialHub'
<1> USE DEF dbVars, hubVars
<1>1. RuntimeOK' /\ HeadOK'
  <2>1. UNCHANGED <<dbHead, saving, session, rt, shown, wish>>
    BY DEF Connect, GateRead, Refuse, Drop, CloseEvent
  <2>2. \A d \in Conn : Booting(d)' => chain'[d] = chain[d]
    BY DEF Connect, GateRead, Refuse, Drop, CloseEvent, Booting, TypeOK
  <2> QED BY <2>1, <2>2, RuntimesUntouched DEF SerialHub
<1>2. CASE Connect(c)
  <2>1. (\A d \in Conn : ~Busy(d)) /\ ending = "idle" /\ saving = {}
    BY <1>2, QuietIdle DEF Connect
  <2> QED BY <1>1, <1>2, <2>1
          DEF TypeOK, Connect, SerialHub, OneHandler, Enrolled, NoneRunning, Busy, Booting, Ready
<1>3. CASE GateRead(c)
  <2>1. Busy(c)
    BY <1>3 DEF GateRead, Busy
  <2> QED BY <1>1, <1>3, <2>1
          DEF TypeOK, GateRead, SerialHub, OneHandler, Enrolled, NoneRunning, Busy, Booting, Ready
<1>4. CASE Refuse(c)
  BY <1>1, <1>4 DEF TypeOK, Refuse, Close, SerialHub, OneHandler, Enrolled, NoneRunning,
                    Busy, Booting, Ready
<1>5. CASE Drop(c)
  <2>1. \A d \in Conn : ~Busy(d)
    BY <1>5, QuietIdle DEF Drop
  <2> QED BY <1>1, <1>5, <2>1 DEF TypeOK, Drop, Close, SerialHub, OneHandler, Enrolled, NoneRunning,
                                  Busy, Booting, Ready
<1>6. CASE CloseEvent(c)
  <2>1. \A d \in Conn : ~Busy(d)
    BY <1>6, QuietIdle DEF CloseEvent
  <2> QED BY <1>1, <1>6, <2>1 DEF TypeOK, CloseEvent, SerialHub, OneHandler, Enrolled, NoneRunning,
                                  Busy, Booting, Ready
<1> QED BY <1>2, <1>3, <1>4, <1>5, <1>6

(* The one handler in progress enrols its socket and starts its boot.       *)
LEMMA AttachStep ==
  ASSUME TypeOK, SerialHub, NEW c \in Conn, Attach(c)
  PROVE  SerialHub'
<1> USE DEF dbVars, TypeOK
<1>1. chain[c] = "admit" /\ Busy(c) /\ ws[c] = "open" /\ Enrol(c)
  BY DEF Attach, Busy, SerialHub, OneHandler
<1>2. /\ \A d \in Conn : d # c => chain'[d] = chain[d] /\ ~Busy(d)
      /\ chain'[c] = IF session # None THEN "ready" ELSE "booting"
      /\ UNCHANGED <<status, dbHead, saving, ending, ws, session, shown, wish>>
      /\ room' = room \cup {c}
  BY <1>1 DEF Attach, Enrol, SerialHub, OneHandler
<1>3. \A d \in Conn : /\ rt'[d].live = rt[d].live /\ rt'[d].consent = rt[d].consent
                      /\ rt'[d].head = rt[d].head /\ rt'[d].loaded = rt[d].loaded
  BY <1>1 DEF Enrol, Runtime
<1>4. OneHandler' /\ Enrolled' /\ NoneRunning'
  BY <1>1, <1>2, <1>3 DEF SerialHub, OneHandler, Enrolled, NoneRunning, Busy, Booting, Ready
<1>5. RuntimeOK'
  BY <1>2, <1>3 DEF SerialHub, RuntimeOK, OneRuntime, ConsentNotStale, Busy, Booting
<1>6. HeadOK'
  BY <1>2, <1>3 DEF SerialHub, HeadOK, HeadNeverBehind
<1> QED BY <1>4, <1>5, <1>6 DEF SerialHub

(* The runtime is the registering connection's, as its boot has built it.   *)
LEMMA RegisterEffect ==
  ASSUME TypeOK, NEW c \in Conn, NEW ok \in BOOLEAN, Register(c, ok)
  PROVE  /\ session' = c
         /\ \A d \in Conn : d # c => chain'[d] = chain[d] /\ rt'[d] = rt[d]
         /\ chain'[c] = "ready" /\ rt'[c].loaded = ok /\ rt'[c].consent = rt[c].consent
         /\ ok => rt'[c].head = rt[c].head
<1>1. rt[c] \in Runtime /\ rt'[c] = [[rt[c] EXCEPT !.live = TRUE] EXCEPT !.loaded = ok,
                                       !.head = IF ok THEN rt[c].head ELSE -1]
  BY DEF Register, TypeOK, Runtime
<1>2. rt'[c].consent = rt[c].consent
  BY <1>1 DEF Runtime
<1> QED BY <1>2 DEF Register, TypeOK, Runtime

(* A boot that goes on reads all pages shown so far; one that ends registers *)
(* the only runtime.                                                        *)
LEMMA BootStep ==
  ASSUME TypeOK, SerialHub, NEW c \in Conn, BootPrivacy(c) \/ BootDeck(c) \/ BootSlides(c)
  PROVE  SerialHub'
<1> USE DEF dbVars, TypeOK
<1>1. /\ Booting(c) /\ Busy(c) /\ ws[c] = "open" /\ ending = "idle" /\ saving = {}
      /\ session = None /\ c \in room /\ status # "completed"
      /\ \A i \in shown : i <= dbHead
      /\ \A d \in Conn : d # c => ~Busy(d)
  BY DEF BootPrivacy, BootDeck, BootSlides, Booting, Busy, SerialHub, OneHandler, Enrolled,
         NoneRunning, RuntimeOK, HeadOK
<1>2. /\ UNCHANGED <<status, dbHead, saving, ending, ws, room, shown, wish>>
      /\ \A d \in Conn : d # c => chain'[d] = chain[d] /\ rt'[d] = rt[d]
      /\ chain'[c] \in {"deckload", "slides", "ready"}
      /\ rt'[c].consent = rt[c].consent
  <2>1. UNCHANGED <<status, dbHead, saving, ending, ws, room, shown, wish>>
    BY DEF BootPrivacy, BootDeck, BootSlides
  <2>2. CASE \E ok \in BOOLEAN : Register(c, ok)
    BY <2>1, <2>2, RegisterEffect
  <2>3. CASE chain' = [chain EXCEPT ![c] = "deckload"] /\ rt' = rt
    BY <2>1, <2>3
  <2>4. CASE rt' = [rt EXCEPT ![c].head = dbHead] /\ chain' = [chain EXCEPT ![c] = "slides"]
    BY <2>1, <2>4 DEF Runtime
  <2> QED BY <2>2, <2>3, <2>4 DEF BootPrivacy, BootDeck, BootSlides
<1>3. OneHandler' /\ Enrolled' /\ NoneRunning'
  BY <1>1, <1>2 DEF SerialHub, OneHandler, Enrolled, NoneRunning, Busy, Booting, Ready
<1>4. ~rt[c].consent /\ \A d \in Conn : ~rt[d].live
  BY <1>1, HubAssumption DEF SerialHub, RuntimeOK, OneRuntime
<1>5. CASE session' = None
  <2>0. \A ok \in BOOLEAN : ~Register(c, ok)
    BY <1>5, HubAssumption DEF Register
  <2>1. chain'[c] # "ready" /\ rt'[c].live = rt[c].live
    BY <2>0 DEF BootPrivacy, BootDeck, BootSlides, Runtime
  <2>2. RuntimeOK'
    BY <1>1, <1>2, <1>4, <1>5, <2>1
    DEF SerialHub, RuntimeOK, OneRuntime, ConsentNotStale, Busy, Booting
  <2>3. chain'[c] = "slides" => \A i \in shown' : i <= rt'[c].head
    BY <1>1, <1>2, <2>0 DEF BootPrivacy, BootDeck, BootSlides, Runtime
  <2>4. HeadOK'
    BY <1>1, <1>2, <1>5, <2>3 DEF SerialHub, HeadOK, HeadNeverBehind
  <2> QED BY <1>3, <2>2, <2>4 DEF SerialHub
<1>6. CASE session' # None
  <2>1. PICK ok \in BOOLEAN : Register(c, ok) /\ (ok => chain[c] = "slides")
    BY <1>1, <1>6 DEF BootPrivacy, BootDeck, BootSlides
  <2>2. session' = c /\ chain'[c] = "ready" /\ rt'[c].loaded = ok
        /\ (ok => rt'[c].head = rt[c].head)
    BY <2>1, RegisterEffect
  <2>3. \A d \in Conn : session' # d => ~rt'[d].live /\ ~rt'[d].consent
    BY <1>1, <1>2, <1>4, <2>2, HubAssumption DEF SerialHub, RuntimeOK
  <2>4. \A d \in Conn : ~Booting(d)'
    BY <1>1, <1>2, <2>2 DEF Busy, Booting
  <2>5. RuntimeOK'
    BY <1>2, <1>4, <2>2, <2>3, <2>4 DEF RuntimeOK, OneRuntime, ConsentNotStale
  <2>6. HeadOK'
    BY <1>1, <1>2, <2>1, <2>2 DEF SerialHub, HeadOK, HeadNeverBehind, Busy, Booting
  <2> QED BY <1>3, <2>5, <2>6 DEF SerialHub
<1> QED BY <1>5, <1>6

(* Teardown of the registered runtime, when no boot is in progress.         *)
LEMMA DisposeStep ==
  ASSUME TypeOK, RuntimeOK, HeadOK, DisposeSession, \A c \in Conn : ~Booting(c),
         UNCHANGED <<dbHead, saving, chain, shown, wish>>
  PROVE  RuntimeOK' /\ HeadOK' /\ session' = None /\ \A c \in Conn : ~rt'[c].live
<1> USE HubAssumption DEF TypeOK
<1>1. session' = None /\ \A c \in Conn : rt'[c] = IF session = c THEN NoRuntime ELSE rt[c]
  BY DEF DisposeSession
<1>2. \A c \in Conn : ~rt'[c].live /\ ~rt'[c].consent
  BY <1>1 DEF RuntimeOK, OneRuntime, NoRuntime
<1>3. RuntimeOK'
  BY <1>1, <1>2 DEF RuntimeOK, OneRuntime, ConsentNotStale, Booting
<1>4. HeadOK'
  BY <1>1 DEF HeadOK, HeadNeverBehind, Booting
<1> QED BY <1>1, <1>2, <1>3, <1>4

(* The reclaim timer, the end of the meeting and a restart.                 *)
LEMMA EndStep ==
  ASSUME Serialised, TypeOK, EndingOK, SerialHub,
         GraceFires \/ EndAsked \/ EndStored \/ EndFails \/ EndTearsDown \/ Restart
  PROVE  SerialHub'
<1> USE DEF dbVars, hubVars, TypeOK
<1>1. CASE GraceFires
  <2>1. \A c \in Conn : ~Busy(c)
    BY <1>1, QuietIdle DEF GraceFires
  <2>2. UNCHANGED <<status, dbHead, saving, ending, ws, chain, room, shown, wish>>
    BY <1>1 DEF GraceFires
  <2>3. CASE room = {}
    <3>1. RuntimeOK' /\ HeadOK' /\ session' = None /\ \A c \in Conn : ~rt'[c].live
      BY <1>1, <2>2, <2>3, DisposeStep DEF GraceFires, SerialHub
    <3>2. OneHandler' /\ Enrolled' /\ NoneRunning'
      BY <2>1, <2>2, <3>1 DEF SerialHub, OneHandler, Enrolled, NoneRunning, Busy, Booting, Ready
    <3> QED BY <3>1, <3>2 DEF SerialHub
  <2>4. CASE room # {}
    <3>1. UNCHANGED <<session, rt>>
      BY <1>1, <2>4 DEF GraceFires
    <3>2. OneHandler' /\ Enrolled' /\ NoneRunning'
      BY <2>2, <3>1 DEF SerialHub, OneHandler, Enrolled, NoneRunning, Busy, Booting, Ready
    <3>3. RuntimeOK' /\ HeadOK'
      BY <2>2, <3>1, RuntimesUntouched DEF SerialHub
    <3> QED BY <3>2, <3>3 DEF SerialHub
  <2> QED BY <2>3, <2>4
(* The status changes while nobody is on the way in.                        *)
<1>2. CASE EndAsked \/ EndStored \/ EndFails
  <2>1. \A c \in Conn : ~Busy(c)
    BY <1>2, QuietIdle DEF EndAsked, EndStored, EndFails, SerialHub, OneHandler
  <2>2. saving = {}
    BY <1>2, QuietIdle DEF EndAsked, EndStored, EndFails, SerialHub, OneHandler
  <2>3. OneHandler' /\ Enrolled' /\ NoneRunning'
    BY <1>2, <2>1, <2>2 DEF EndAsked, EndStored, EndFails, SerialHub, OneHandler, Enrolled, NoneRunning,
                            Busy, Booting, Ready
  <2>4. RuntimeOK' /\ HeadOK'
    BY <1>2, RuntimesUntouched DEF EndAsked, EndStored, EndFails, SerialHub
  <2> QED BY <2>3, <2>4 DEF SerialHub
(* Everybody who is connected is in the room, and the room is closed.       *)
<1>3. CASE EndTearsDown
  <2>1. \A c \in Conn : ~Busy(c)
    BY <1>3 DEF EndTearsDown, SerialHub, OneHandler
  <2>2. RuntimeOK' /\ HeadOK' /\ session' = None /\ \A c \in Conn : ~rt'[c].live
    BY <1>3, <2>1, DisposeStep DEF EndTearsDown, SerialHub, Busy
  <2>3. \A c \in Conn : ws'[c] # "open"
    BY <1>3, <2>1 DEF EndTearsDown, Close, SerialHub, Enrolled, Ready
  <2>4. OneHandler' /\ Enrolled' /\ NoneRunning'
    BY <1>3, <2>1, <2>2, <2>3 DEF EndTearsDown, SerialHub, OneHandler, Enrolled, NoneRunning,
                                  Busy, Booting, Ready
  <2> QED BY <2>2, <2>4 DEF SerialHub
<1>4. CASE Restart
  <2>1. saving = {}
    BY <1>4, QuietIdle DEF Restart
  <2>2. \A c \in Conn : /\ ws'[c] # "open" /\ chain'[c] \in {"none", "ended"}
                        /\ ~rt'[c].live /\ ~rt'[c].consent
    BY <1>4 DEF Restart, NoRuntime
  <2>3. OneHandler' /\ Enrolled' /\ NoneRunning'
    BY <1>4, <2>2 DEF Restart, OneHandler, Enrolled, NoneRunning, Busy, Booting, Ready
  <2>4. RuntimeOK'
    BY <1>4, <2>2 DEF Restart, RuntimeOK, OneRuntime, ConsentNotStale, Booting
  <2>5. HeadOK'
    BY <1>4, <2>1, <2>2 DEF Restart, SerialHub, HeadOK, HeadNeverBehind
  <2> QED BY <2>3, <2>4, <2>5 DEF SerialHub
<1> QED BY <1>1, <1>2, <1>3, <1>4

(* A message reaches the runtime: an open socket that is not in its handler *)
(* has a listener.                                                          *)
LEMMA ConsentStep ==
  ASSUME Serialised, TypeOK, SerialHub, NEW c \in Conn, NEW g \in BOOLEAN, Consent(c, g)
  PROVE  SerialHub'
<1> USE HubAssumption DEF dbVars, TypeOK
<1>1. (\A d \in Conn : ~Busy(d)) /\ Listening(c)
  BY QuietIdle DEF Consent, SerialHub, Enrolled, Listening
<1>2. /\ UNCHANGED <<status, dbHead, saving, ending, ws, chain, room, session, shown>>
      /\ wish' = g
      /\ \A d \in Conn : /\ rt'[d].live = rt[d].live /\ rt'[d].loaded = rt[d].loaded
                         /\ rt'[d].head = rt[d].head
                         /\ rt'[d].consent = IF session = d THEN g ELSE rt[d].consent
  BY <1>1 DEF Consent, Runtime
<1>3. OneHandler' /\ Enrolled' /\ NoneRunning'
  BY <1>2 DEF SerialHub, OneHandler, Enrolled, NoneRunning, Busy, Booting, Ready
<1>4. RuntimeOK'
  BY <1>2 DEF SerialHub, RuntimeOK, OneRuntime, ConsentNotStale, Booting
<1>5. HeadOK'
  BY <1>2 DEF SerialHub, HeadOK, HeadNeverBehind
<1> QED BY <1>3, <1>4, <1>5 DEF SerialHub

(* A new page is saved, or the runtime has no deck to save it in.           *)
LEMMA PageStep ==
  ASSUME Serialised, TypeOK, SerialHub, NEW c \in Conn, NEW i \in 0..MaxIndex, PageCommit(c, i)
  PROVE  SerialHub'
<1> USE HubAssumption DEF TypeOK
<1>1. (\A d \in Conn : ~Busy(d)) /\ ending = "idle" /\ saving = {}
  BY QuietIdle DEF PageCommit
<1>2. /\ UNCHANGED <<status, dbHead, ending, ws, chain, room, session, wish>>
      /\ session \in Conn /\ i > rt[session].head /\ Ready(c)
      /\ \A d \in Conn : /\ rt'[d].live = rt[d].live /\ rt'[d].loaded = rt[d].loaded
                         /\ rt'[d].consent = rt[d].consent
                         /\ rt'[d].head = IF session = d THEN i ELSE rt[d].head
  BY <1>1 DEF PageCommit, Runtime, Listening, Ready, Busy
<1>3. OneHandler' /\ Enrolled' /\ NoneRunning'
  BY <1>1, <1>2 DEF SerialHub, OneHandler, Enrolled, NoneRunning, Busy, Booting, Ready
<1>4. RuntimeOK'
  BY <1>2 DEF SerialHub, RuntimeOK, OneRuntime, ConsentNotStale, Booting
<1>5. HeadOK'
  <2>1. rt[session].head \in Int /\ dbHead \in Int /\ i \in Int /\ shown \subseteq Int
    BY <1>2 DEF Runtime, HeadIndex
  <2>2. shown' = shown \/ (shown' = shown \cup {i} /\ i \in saving')
    BY DEF PageCommit
  <2>3. \A k \in shown : k <= dbHead
    BY <1>1 DEF SerialHub, HeadOK
  <2>4. \A k \in shown' : k <= dbHead' \/ k \in saving'
    BY <1>2, <2>2, <2>3
  <2>5. \A d \in Conn : chain'[d] # "slides"
    BY <1>1, <1>2 DEF Busy, Booting
  <2>6. ASSUME rt'[session'].loaded, NEW k \in shown' PROVE k <= rt'[session'].head
    <3>1. rt'[session'].head = i /\ rt[session].loaded
      BY <1>2, <2>6
    <3>2. k \in shown => k <= rt[session].head
      BY <1>2, <3>1, HubAssumption DEF SerialHub, HeadOK, HeadNeverBehind
    <3>3. k \in Int /\ (k \in shown \/ k = i)
      BY <2>1, <2>2, <2>6
    <3>4. k <= i
      BY <1>2, <2>1, <3>2, <3>3
    <3> QED BY <3>1, <3>4
  <2> QED BY <2>4, <2>5, <2>6 DEF HeadOK, HeadNeverBehind
<1> QED BY <1>3, <1>4, <1>5 DEF SerialHub

(* The save ends: the row has the page, or a later one; or the page is lost. *)
LEMMA SaveStep ==
  ASSUME TypeOK, SerialHub, NEW i \in 0..MaxIndex, HeadSaved(i) \/ SaveFails(i)
  PROVE  SerialHub'
<1> USE DEF hubVars
<1>1. /\ UNCHANGED <<status, ending, ws, chain, room, session, rt, wish>>
      /\ saving # {} /\ saving' = saving \ {i} /\ shown' \subseteq shown
  BY DEF HeadSaved, SaveFails
<1>2. OneHandler'
  BY <1>1 DEF SerialHub, OneHandler, Busy, Booting
<1>3. Enrolled' /\ NoneRunning'
  BY <1>1 DEF SerialHub, Enrolled, NoneRunning, Busy, Booting, Ready
<1>4. RuntimeOK'
  BY <1>1 DEF SerialHub, RuntimeOK, OneRuntime, ConsentNotStale, Booting
<1>5. ASSUME NEW k \in shown' PROVE k <= dbHead' \/ k \in saving'
  <2>1. k \in Int /\ i \in Int /\ dbHead \in Int /\ (k <= dbHead \/ k \in saving)
    BY <1>1, HubAssumption DEF TypeOK, HeadIndex, SerialHub, HeadOK
  <2>2. CASE HeadSaved(i)
    BY <1>1, <2>1, <2>2 DEF HeadSaved
  <2>3. CASE SaveFails(i)
    BY <1>1, <1>5, <2>1, <2>3 DEF SaveFails
  <2> QED BY <2>2, <2>3
<1>6. HeadOK'
  BY <1>1, <1>5 DEF SerialHub, HeadOK, HeadNeverBehind
<1> QED BY <1>2, <1>3, <1>4, <1>6 DEF SerialHub

LEMMA SerialStep ==
  ASSUME Serialised, HubInv, SerialHub, [Next]_vars
  PROVE  SerialHub'
<1>1. CASE UNCHANGED vars
  BY <1>1 DEF vars, dbVars, hubVars, SerialHub, OneHandler, Enrolled, NoneRunning, RuntimeOK, HeadOK,
              OneRuntime, ConsentNotStale, HeadNeverBehind, Busy, Booting, Ready
<1> QED BY <1>1, SocketStep, AttachStep, BootStep, EndStep, ConsentStep, PageStep, SaveStep
        DEF HubInv, Next, ChainStep

LEMMA SerialAlways ==
  ASSUME Serialised
  PROVE  Spec => []SerialHub
<1>1. HubInv /\ SerialHub /\ [Next]_vars => SerialHub'
  BY SerialStep
<1> QED BY SerialInit, HubAlways, <1>1, PTL DEF Spec

(* A completed meeting has no runtime and no connected socket once           *)
(* endMeeting is over: every open socket was in the room that it closed, and *)
(* no handler was past the gate.                                            *)
THEOREM EndedMeetingIsGone ==
  ASSUME Serialised
  PROVE  Spec => []NoZombie
<1>1. SerialHub => NoZombie
  BY DEF SerialHub, NoneRunning, NoZombie, Ready
<1> QED BY <1>1, SerialAlways, PTL

(* ensureRuntime never makes a second runtime beside a registered one.      *)
THEOREM RuntimeIsUnique ==
  ASSUME Serialised
  PROVE  Spec => []OneRuntime
<1>1. SerialHub => OneRuntime
  BY DEF SerialHub, RuntimeOK
<1> QED BY <1>1, SerialAlways, PTL

(* The hub's consent flag is never TRUE after the capture page revoked it,   *)
(* over every sequence of drops, reconnects, reclaims and restarts.         *)
THEOREM ConsentIsCurrent ==
  ASSUME Serialised
  PROVE  Spec => []ConsentNotStale
<1>1. SerialHub => ConsentNotStale
  BY DEF SerialHub, RuntimeOK
<1> QED BY <1>1, SerialAlways, PTL

(* I1 across rebuilds: a runtime that loaded its deck knows every page that  *)
(* was ever accepted as shown, but for one whose save has failed.           *)
THEOREM HeadIsNeverBehind ==
  ASSUME Serialised
  PROVE  Spec => []HeadNeverBehind
<1>1. SerialHub => HeadNeverBehind
  BY DEF SerialHub, HeadOK
<1> QED BY <1>1, SerialAlways, PTL
=============================================================================

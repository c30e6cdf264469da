----------------------------- MODULE HubLifecycle -----------------------------
(***************************************************************************)
(* The life of one meeting in the realtime hub (apps/server/src/realtime/   *)
(* hub.ts, ws-server.ts, ws-handshake-gate.ts, MeetingStore.end): sockets   *)
(* pass the handshake gate, are enrolled in the room, materialise the live  *)
(* runtime, drop, reconnect, and the meeting ends or the process restarts.  *)
(*                                                                          *)
(* A connection's chain gate -> attach -> ensureRuntime awaits the database *)
(* up to four times.  As in DeckStore, Serialised = TRUE is better-sqlite3 *)
(* (the chain is over before the next event), FALSE is pg.                  *)
(***************************************************************************)
EXTENDS Integers, FiniteSets

CONSTANTS
  Conn,        \* WebSocket connections; each is opened at most once
  Capture,     \* those with role=capture, the only ones that may set consent
  None,        \* "no runtime is registered"
  MaxIndex,    \* bound on the page numbers the presenter reports; -1: none
  Serialised

ASSUME HubAssumption ==
  /\ Capture \subseteq Conn
  /\ None \notin Conn
  /\ MaxIndex \in Nat \cup {-1}
  /\ Serialised \in BOOLEAN

VARIABLES
  status,   \* meetings.status
  dbHead,   \* decks.committed_index
  saving,   \* page numbers whose setCommittedIndex is in progress
  ending,   \* progress of endMeeting: "idle", "asked" (UPDATE issued), "stored"
  ws,       \* readyState of each socket
  chain,    \* progress of its connection handler
  room,     \* rooms.get(meetingId); the key is gone when it is empty
  grace,    \* the reclaim timer is armed
  binding,  \* bindings.get(meetingId): the deckId the meeting was created with
  session,  \* sessions.get(meetingId), named by the connection that made it
  rt,       \* the runtime each connection's ensureRuntime made
  shown,    \* history: the pages of the deck accepted, in an earlier meeting too,
            \* but for those whose save has failed
  wish      \* history: the consent the capture page sent last

dbVars  == <<status, dbHead, saving, ending>>
hubVars == <<room, grace, binding, session, rt>>
vars    == <<dbVars, ws, chain, hubVars, shown, wish>>

HeadIndex == -1..MaxIndex

(* What ensureRuntime awaits: "booting" privacySettings, "deckload" and      *)
(* "slides" the two queries of findWithSlides.                              *)
Chain == {"none", "gate", "admit", "refuse", "booting", "deckload", "slides", "ready", "ended"}

(* live: made and not disposed; deck: it has a deckId; loaded: its head was  *)
(* read from the deck row.                                                  *)
Runtime == [live : BOOLEAN, deck : BOOLEAN, loaded : BOOLEAN, head : HeadIndex, consent : BOOLEAN]

TypeOK ==
  /\ status \in {"scheduled", "completed"}
  /\ dbHead \in HeadIndex /\ saving \subseteq 0..MaxIndex
  /\ ending \in {"idle", "asked", "stored"}
  /\ ws \in [Conn -> {"new", "open", "closing", "closed"}]
  /\ chain \in [Conn -> Chain]
  /\ room \subseteq Conn
  /\ grace \in BOOLEAN /\ binding \in BOOLEAN
  /\ session \in Conn \cup {None}
  /\ rt \in [Conn -> Runtime]
  /\ shown \subseteq 0..MaxIndex /\ wish \in BOOLEAN

NoRuntime == [live |-> FALSE, deck |-> FALSE, loaded |-> FALSE, head |-> -1, consent |-> FALSE]

(* POST /api/meetings has stored the meeting and called registerMeeting.    *)
(* An earlier meeting may have shown pages of the deck.                     *)
Init ==
  /\ status = "scheduled" /\ dbHead \in HeadIndex /\ saving = {} /\ ending = "idle"
  /\ ws = [c \in Conn |-> "new"]
  /\ chain = [c \in Conn |-> "none"]
  /\ room = {} /\ grace = FALSE
  /\ binding \in BOOLEAN
  /\ session = None
  /\ rt = [c \in Conn |-> NoRuntime]
  /\ shown = 0..dbHead /\ wish = FALSE
-----------------------------------------------------------------------------
Booting(c) == chain[c] \in {"booting", "deckload", "slides"}

(* The event loop may hand the program the next event.                      *)
Quiet ==
  Serialised => /\ \A c \in Conn : chain[c] \notin {"gate", "admit", "refuse"} /\ ~Booting(c)
                /\ ending = "idle" /\ saving = {}

(* wss "connection": the close listener is bound, the gate query issued.    *)
Connect(c) ==
  /\ Quiet /\ ws[c] = "new"
  /\ ws' = [ws EXCEPT ![c] = "open"]
  /\ chain' = [chain EXCEPT ![c] = "gate"]
  /\ UNCHANGED <<dbVars, hubVars, shown, wish>>

(* checkWsHandshake: a completed meeting is refused; so is a suspended      *)
(* account, or anybody when the query fails.                                *)
(* Mutant: the gate looks at the account only.                              *)
GateReadAccountOnly(c) ==
  /\ chain[c] = "gate"
  /\ \E verdict \in {"admit", "refuse"} : chain' = [chain EXCEPT ![c] = verdict]
  /\ UNCHANGED <<dbVars, ws, hubVars, shown, wish>>

GateRead(c) ==
  /\ chain[c] = "gate"
  /\ \/ status # "completed" /\ chain' = [chain EXCEPT ![c] = "admit"]
     \/ chain' = [chain EXCEPT ![c] = "refuse"]
  /\ UNCHANGED <<dbVars, ws, hubVars, shown, wish>>

Close(S) == ws' = [c \in Conn |-> IF c \in S /\ ws[c] = "open" THEN "closing" ELSE ws[c]]

Refuse(c) ==
  /\ chain[c] = "refuse"
  /\ Close({c})
  /\ chain' = [chain EXCEPT ![c] = "ended"]
  /\ UNCHANGED <<dbVars, hubVars, shown, wish>>

(* hub.attach: a socket that closed during the gate is not enrolled.        *)
(* ensureRuntime returns at once when a runtime is registered.              *)
Enrol(c) ==
  /\ grace' = FALSE
  /\ room' = room \cup {c}
  /\ chain' = [chain EXCEPT ![c] = IF session # None THEN "ready" ELSE "booting"]
  /\ rt' = IF session # None THEN rt ELSE [rt EXCEPT ![c].deck = binding]

(* Mutant: every socket is enrolled.                                        *)
AttachAny(c) ==
  /\ chain[c] = "admit" /\ Enrol(c)
  /\ UNCHANGED <<dbVars, ws, binding, session, shown, wish>>

Attach(c) ==
  /\ chain[c] = "admit"
  /\ IF ws[c] = "open"
     THEN Enrol(c)
     ELSE chain' = [chain EXCEPT ![c] = "ended"] /\ UNCHANGED <<room, grace, rt>>
  /\ UNCHANGED <<dbVars, ws, binding, session, shown, wish>>

(* The end of ensureRuntime: sessions.set, whatever is registered by now.   *)
(* A deck that was not read leaves the runtime with its defaults.           *)
(* Mutant: the head the deck row has is not taken over.                     *)
RegisterFresh(c, ok) ==
  /\ session' = c
  /\ rt' = [rt EXCEPT ![c].live = TRUE, ![c].loaded = ok, ![c].head = -1]
  /\ chain' = [chain EXCEPT ![c] = "ready"]

Register(c, ok) ==
  /\ session' = c
  /\ rt' = [rt EXCEPT ![c].live = TRUE, ![c].loaded = ok, ![c].head = IF ok THEN @ ELSE -1]
  /\ chain' = [chain EXCEPT ![c] = "ready"]

(* privacySettings answers (or fails, which is tolerated).  With a deckId   *)
(* the deck is loaded next; a failure there is tolerated too.               *)
BootPrivacy(c) ==
  /\ chain[c] = "booting"
  /\ IF rt[c].deck
     THEN chain' = [chain EXCEPT ![c] = "deckload"] /\ UNCHANGED <<session, rt>>
     ELSE Register(c, FALSE)
  /\ UNCHANGED <<dbVars, ws, room, grace, binding, shown, wish>>

(* The deck row, with committed_index, is read first and its slides later.  *)
BootDeck(c) ==
  /\ chain[c] = "deckload"
  /\ \/ /\ rt' = [rt EXCEPT ![c].head = dbHead]
        /\ chain' = [chain EXCEPT ![c] = "slides"]
        /\ UNCHANGED session
     \/ Register(c, FALSE)
  /\ UNCHANGED <<dbVars, ws, room, grace, binding, shown, wish>>

BootSlides(c) ==
  /\ chain[c] = "slides"
  /\ \E ok \in BOOLEAN : Register(c, ok)
  /\ UNCHANGED <<dbVars, ws, room, grace, binding, shown, wish>>
-----------------------------------------------------------------------------
(* disposeSession.  A runtime that was overwritten in sessions is not       *)
(* reached by it.                                                           *)
DisposeSession ==
  /\ rt' = IF session = None THEN rt ELSE [rt EXCEPT ![session] = NoRuntime]
  /\ session' = None
  /\ binding' = FALSE
  /\ grace' = FALSE

(* The peer goes away; the close event follows.                             *)
Drop(c) ==
  /\ Quiet /\ ws[c] = "open"
  /\ Close({c})
  /\ UNCHANGED <<dbVars, chain, hubVars, shown, wish>>

(* detach: the last one out arms the reclaim timer.                         *)
(* Mutant: a room that empties is forgotten.                                *)
CloseEventForgets(c) ==
  /\ Quiet /\ ws[c] = "closing"
  /\ ws' = [ws EXCEPT ![c] = "closed"]
  /\ room' = room \ {c}
  /\ UNCHANGED <<dbVars, chain, grace, binding, session, rt, shown, wish>>

CloseEvent(c) ==
  /\ Quiet /\ ws[c] = "closing"
  /\ ws' = [ws EXCEPT ![c] = "closed"]
  /\ room' = room \ {c}
  /\ grace' = (grace \/ room = {c})
  /\ UNCHANGED <<dbVars, chain, binding, session, rt, shown, wish>>

(* Mutant: the occupied room loses its runtime, the empty one keeps it.     *)
GraceInverted ==
  /\ Quiet /\ grace /\ \A c \in Conn : ~Booting(c)
  /\ IF room # {} THEN DisposeSession ELSE grace' = FALSE /\ UNCHANGED <<session, rt, binding>>
  /\ UNCHANGED <<dbVars, ws, chain, room, shown, wish>>

(* The five minutes are over.  No database answer takes that long: a boot   *)
(* that was in progress when the room emptied is over by now.               *)
GraceFires ==
  /\ Quiet /\ grace /\ \A c \in Conn : ~Booting(c)
  /\ IF room = {} THEN DisposeSession ELSE grace' = FALSE /\ UNCHANGED <<session, rt, binding>>
  /\ UNCHANGED <<dbVars, ws, chain, room, shown, wish>>

(* POST /api/meetings/:id/end: the UPDATE has no guard on the status.       *)
EndAsked ==
  /\ Quiet /\ ending = "idle" /\ ending' = "asked"
  /\ UNCHANGED <<status, dbHead, saving, ws, chain, hubVars, shown, wish>>

EndStored ==
  /\ ending = "asked" /\ ending' = "stored"
  /\ status' = "completed"
  /\ UNCHANGED <<dbHead, saving, ws, chain, hubVars, shown, wish>>

(* The UPDATE fails, or finds no meeting of this organisation: nothing is    *)
(* torn down.  Over a network it may have landed and only its answer be lost. *)
EndFails ==
  /\ ending = "asked" /\ ending' = "idle"
  /\ \/ status' = status
     \/ ~Serialised /\ status' = "completed"
  /\ UNCHANGED <<dbHead, saving, ws, chain, hubVars, shown, wish>>

EndTearsDown ==
  /\ ending = "stored" /\ ending' = "idle"
  /\ DisposeSession
  /\ Close(room) /\ room' = {}
  /\ UNCHANGED <<status, dbHead, saving, chain, shown, wish>>

(* SIGTERM (disposeAll) or a crash, and a fresh process: every map is empty, *)
(* what was not stored is lost.                                             *)
Restart ==
  /\ ws' = [c \in Conn |-> IF ws[c] \in {"open", "closing"} THEN "closed" ELSE ws[c]]
  /\ chain' = [c \in Conn |-> IF chain[c] = "none" THEN "none" ELSE "ended"]
  /\ rt' = [c \in Conn |-> NoRuntime]
  /\ room' = {} /\ grace' = FALSE /\ binding' = FALSE /\ session' = None
  /\ saving' = {} /\ ending' = "idle"
  /\ Quiet
  /\ UNCHANGED <<status, dbHead, shown, wish>>
-----------------------------------------------------------------------------
(* Messages.  The listener exists once the gate has passed, whether or not  *)
(* the runtime is there yet: without one a message is ignored.              *)
Listening(c) == (Booting(c) \/ chain[c] = "ready") /\ ws[c] = "open"

(* Mutant: a revocation is not passed on.                                   *)
ConsentGrants(c, granted) ==
  /\ Quiet /\ ws[c] = "open" /\ c \in Capture /\ granted # wish
  /\ wish' = granted
  /\ rt' = IF Listening(c) /\ session # None /\ granted THEN [rt EXCEPT ![session].consent = TRUE]
           ELSE rt
  /\ UNCHANGED <<dbVars, ws, chain, room, grace, binding, session, shown>>

(* The capture page sends its consent when it changes and on every open.    *)
Consent(c, granted) ==
  /\ Quiet /\ ws[c] = "open" /\ c \in Capture
  /\ wish' = granted
  /\ rt' = IF Listening(c) /\ session # None THEN [rt EXCEPT ![session].consent = granted]
           ELSE rt
  /\ UNCHANGED <<dbVars, ws, chain, room, grace, binding, session, shown>>

PageCommit(c, i) ==
  /\ Quiet /\ Listening(c) /\ session # None /\ i > rt[session].head
  /\ rt' = [rt EXCEPT ![session].head = i]
  /\ IF rt[session].deck
     THEN saving' = saving \cup {i} /\ shown' = shown \cup {i}
     ELSE UNCHANGED <<saving, shown>>
  /\ UNCHANGED <<status, dbHead, ending, ws, chain, room, grace, binding, session, wish>>

(* setCommittedIndex; its own interleavings are in module DeckStore.        *)
HeadSaved(i) ==
  /\ i \in saving /\ saving' = saving \ {i}
  /\ dbHead' = IF i > dbHead THEN i ELSE dbHead
  /\ UNCHANGED <<status, ending, ws, chain, hubVars, shown, wish>>

(* Nobody waits for it, and a failure is told to nobody.                     *)
SaveFails(i) ==
  /\ i \in saving /\ saving' = saving \ {i} /\ shown' = shown \ {i}
  /\ UNCHANGED <<status, dbHead, ending, ws, chain, hubVars, wish>>

ChainStep(c) ==
  GateRead(c) \/ Refuse(c) \/ Attach(c) \/ BootPrivacy(c) \/ BootDeck(c) \/ BootSlides(c)

Next ==
  \/ \E c \in Conn : Connect(c) \/ ChainStep(c) \/ Drop(c) \/ CloseEvent(c)
  \/ GraceFires \/ EndAsked \/ EndStored \/ EndFails \/ EndTearsDown \/ Restart
  \/ \E c \in Conn, g \in BOOLEAN : Consent(c, g)
  \/ \E c \in Conn, i \in 0..MaxIndex : PageCommit(c, i)
  \/ \E i \in 0..MaxIndex : HeadSaved(i) \/ SaveFails(i)

(* Queries answer or fail, closing sockets close, timers fire.  Nobody has to       *)
(* connect, drop, or end the meeting.                                       *)
Fairness ==
  /\ \A c \in Conn : WF_vars(ChainStep(c)) /\ WF_vars(CloseEvent(c))
  /\ WF_vars(GraceFires)
  /\ WF_vars(EndStored \/ EndFails) /\ WF_vars(EndTearsDown)
  /\ \A i \in 0..MaxIndex : WF_vars(HeadSaved(i) \/ SaveFails(i))

Spec == Init /\ [][Next]_vars
FairSpec == Spec /\ Fairness
-----------------------------------------------------------------------------
(* Safety (hub.attach): no socket whose close event has been handled is in  *)
(* the room, so a room always empties and its runtime is always reclaimed.  *)
NoGhostMember == \A c \in room : ws[c] # "closed"

(* Safety: an empty room's runtime of a running meeting is on the timer.    *)
NoOrphanRuntime == session # None /\ room = {} /\ status = "scheduled" => grace

(* Liveness: the runtime of a meeting everybody left does not stay for ever. *)
EventuallyReclaimed ==
  session # None /\ room = {} /\ status = "scheduled"
    ~> session = None \/ room # {} \/ status = "completed"

(* Safety (ws-handshake-gate.ts): once endMeeting is over the meeting has   *)
(* no runtime, and nobody is connected to it.                               *)
NoZombie ==
  status = "completed" /\ ending = "idle" =>
    /\ session = None /\ \A c \in Conn : ~rt[c].live
    /\ \A c \in Conn : chain[c] = "ready" => ws[c] # "open"

(* Safety: one live runtime per meeting: consent, the queue and the head    *)
(* are not split over two.                                                  *)
OneRuntime == \A c \in Conn : rt[c].live => session = c

(* Safety: the runtime listens only while the capture page wants it to: a   *)
(* revocation reaches it, over reconnects, and no new runtime starts with   *)
(* consent.                                                                 *)
ConsentNotStale == session # None /\ rt[session].consent => wish

(* Safety: a runtime that loaded its deck is never behind a page that has   *)
(* already been shown, in this meeting or an earlier one over the same deck, *)
(* unless the save of that very page has failed.                             *)
HeadNeverBehind ==
  session # None /\ rt[session].loaded => \A i \in shown : i <= rt[session].head
=============================================================================

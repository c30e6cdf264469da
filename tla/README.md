# Verification of MeetCopilot

MeetCopilot is a B2B sales platform: a CRM with a research engine, decks that
are imported or generated, and a live meeting copilot that listens to a meeting,
ticks off a checklist, proposes slides to the presenter and appends the approved
ones to the running presentation. This directory holds TLA+ modules of the parts
where steps of several actors, late answers, failures and restarts decide whether
its promises hold - the realtime server and the two pages that talk to it, the
copilot's pipeline from sound to slides, the import of decks, research jobs and the
contacts they write, and memberships - with TLC runs on small instances and TLAPS
proofs for all sizes.

Three invariants are named throughout the repository's documents, and the
modules keep the names:

* **I1** a page that has been shown is never changed; the deck only grows at its tail;
* **I2** only slides the presenter approved enter the deck of a live meeting;
* **I3** transcripts and suggestions go to the presenter's private screens only.

I1 and I2 are the subject of `ApprovalQueue` over `DeckStore`; `PresentSync` looks at
I1 from the audience's side. I3 is a fixed role argument at each broadcast call and
is not modelled.

## One question behind most of the modules: which driver?

Everything on the server runs in one Node process over a `DbPort` with two
implementations, and what may happen between two `await`s of a handler depends on
which is used. Modules in which it matters have a constant for it (`Serialised`,
`Serial`, `SlowGate`):

* better-sqlite3 (`packages/crm/src/sqlite-db.ts`). Statements are synchronous, so
  the awaits of a handler are microtasks and the whole chain is over before the
  event loop delivers the next message, timer or socket event. Chains started by
  the *same* event do interleave, in FIFO order, on the one connection; `Checklist`
  models that.
* pg (`packages/crm/src/pg-db.ts`), what production runs, as a single Cloud Run
  instance (`docs/DEPLOY.md`). Each await is network I/O; any other event may come
  in between, transactions run side by side under READ COMMITTED, and any
  statement may fail.

Several properties hold with one driver and not with the other. The passing runs
say which; what fails is under "Disagreements".

## Inventory

State, operations and interactions of each part; the last column is where it is
modelled. `PROJECT.json` lists every component with its files.

| Part | State | Operations | Interacts with | Modelled in |
|---|---|---|---|---|
| Deck repository (`repos-decks.ts`) | slide rows, `committed_index`, `original_count`, import status, texts | `appendSlide`, `setCommittedIndex`, `updateSlide`, import setters, delete | approval queue, page_commit, REST, import | `DeckStore` (live part), `DeckImport` (import part) |
| Approval queue (`patch-service.ts`, `session-runtime.ts`) | queue entries with TTL timers, `deckLength`, `committedIndex` | `suggest`, `act` (accept, edit, reject), expiry, dispose | deck repository, HUD and present broadcasts | `ApprovalQueue` over `DeckStore`, abstractly `ApprovalFSM` |
| Realtime hub (`hub.ts`, `ws-server.ts`, `ws-handshake-gate.ts`, `meeting-store.ts`) | `rooms`, `sessions`, `bindings`, `graceTimers`; `meetings.status` | connect, gate, attach, `ensureRuntime`, detach, reclaim, end, shutdown, consent, page_commit | every other live part | `HubLifecycle` |
| Presentation page (`PresentStage.tsx`, `lib/ws.ts`) | slides held, index, local committed page, socket, reconnect budget | load, page turns, `deck_update`, snapshots, refresh, reconnect | hub, deck routes | `PresentSync` |
| Capture page (`CopilotView.tsx`, `audio-capture.ts`, `useRealtime.ts`) | phase, epoch of the start, controller, tracks, consent, socket | start, stop, browser prompts, end, leave, consent, reconnect | browser, hub | `CaptureSession` |
| Checklist (`repos-checklist.ts`, checklist half of `hub.ts`) | item rows; pending copy of the engine, untick cooldowns, debounce timer, phase | `markCovered`, `setStatus`, page dwell, snapshots, generation | analysis engine, page_commit, HUD | `Checklist` (without generation) |
| Audio pipeline (`chunker.ts`, `stereo.ts`, `gemini-asr.ts`, `hub.pushAudio/onAsrFinal`) | buffers per track, audio clock, outage set, chunk number | frames, mode switch, transcription, outage signals, delivery | consent, orchestrator, metering, analysis | `AudioPipeline` |
| Analysis engine (`gemini-analysis.ts`) | rolling window, single flight | `ingest`, trimming, rounds | checklist, orchestrator | `Copilot` |
| Orchestrator (`orchestrator.ts`, `retrieval.ts`) | `cardedEntities`, `suggestCount`, `lastSuggestAt`, research quota | signals to cards, research, slide suggestions; cleanup | approval queue, research jobs | `Copilot`; speaker inference in `AudioPipeline` |
| Metering (`ops/*`, `repos-ops.ts`) | `usage_events` with idempotency keys | one row per metered call | all model calls | the asr row, in `AudioPipeline` |
| Deck import (`import-handler.ts`, `conversion-job.ts`, `text-extract.ts`) | `import_jobs`, import status, page images, `text_extract`, `inFlight` | convert page by page, extract texts in bounded batches, boot reaper | deck repository, process start | `DeckImport` |
| Research jobs (`research/jobs.ts`, `routes.ts`, `orchestrator.ts`) | `crawl_jobs` | queue, run, hard timeout, finish, boot reaper | contacts, process start | `ResearchRuns` |
| Contacts, provenance, merge (`repos-prospect.ts`, `child-upsert.ts`, `contact-merge.ts`, ...) | contact rows, field provenance, references | human and crawled upserts, confirmation, deletion, merge of duplicates | research, CRM routes | `Contacts`, used by `ResearchRuns` |
| Organisation, invites, accounts (`org-routes`, `repos-invites.ts`, `auth/*`) | users, orgs, memberships, invites, tokens | first sign-in, invite, accept, role change, removal | - | `Membership` |
| Process start and shutdown (`index.ts`) | - | boot reapers, dispose on SIGTERM | hub, jobs | the restart actions of `HubLifecycle`, `ResearchRuns`, `DeckImport` |
| Image jobs (`image-service.ts`) | `image_jobs`, one cell of a slide | enqueue, run, deadline | deck repository | not modelled |
| Rate limiting, CRM routes, write-back, generation, parsers, admin, training, the other pages | rows written by one request; documents; views | request/response, data transformation | - | not modelled |

**What is hard here.** Handlers read state, await, and write (head, queue entry,
consent, status); fire-and-forget calls nobody awaits; timers that race with
promises (TTL, grace, debounce, prompts, hard timeouts of work that goes on
regardless); two transaction disciplines behind one interface; answers of remote
models out of order; runtimes that are reclaimed, restarted or disposed under
work in progress; client messages dropped while a socket is down; batches that
fail in the middle. The entries under `hazards` in `PROJECT.json` name the line
where each bites and the properties that cover it, or why none does.

## Modules

| Module | Models | Code it stands for |
|---|---|---|
| `DeckStore` | rows of one deck with their kind, head, and every `appendSlide`/`setCommittedIndex`/`updateSlide` as one step per statement, each of which may fail | `repos-decks.ts` 185-347, `sqlite-db.ts` tx |
| `ApprovalFSM` | the promise: IDLE, SUGGESTED, APPLIED or DISCARDED for good; the deck grows in the step that applies | `docs/PRODUCT_SPEC.md`, Approval FSM, as specification |
| `ApprovalQueue` | queue, mirror of the deck and broadcasts over `DeckStore` | `patch-service.ts`, `session-runtime.ts` queue half, page_commit |
| `HubLifecycle` | sockets, room, grace timer, runtime boot in four awaits, end, restart, consent, persisted head; the writes of end and head may fail | `hub.ts` 168-371, `ws-server.ts`, `ws-handshake-gate.ts` |
| `PresentSync` | one stage with its requests and socket, the hub and the deck behind them | `PresentStage.tsx` 63-388, `lib/ws.ts`, message handlers of `ws-server.ts` |
| `CaptureSession` | starts in progress with their tracks, phases of the page, its socket, the end of the meeting | `CopilotView.tsx` 84-364, `audio-capture.ts`, `useRealtime.ts` |
| `ChecklistContract` | the promise: each item is ticked off, skipped or unticked in one step; automatic steps take what is pending then, those of the conversation nothing that was just unticked | `docs/MEETING_CHECKLIST_CONTRACT.md` 7, as specification |
| `Checklist` | item rows; every call chain as a job with its microtask phases in a FIFO queue | `repos-checklist.ts`, `hub.ts` 609-752, `sqlite-db.ts` |
| `AudioPipeline` | frames, two chunkers, providers, outages, consent gates, usage keys | `chunker.ts`, `gemini-asr.ts`, `hub.ts` 393-528 and 772-820 |
| `Copilot` | window, single-flight analysis, retrievals, research and slide generation as calls in flight, per-meeting maps | `gemini-analysis.ts`, `orchestrator.ts`, `retrieval.ts` |
| `Membership` | requests in progress, each a few reads and writes | `auth/routes.ts`, `provision.ts`, `org-routes/index.ts`, `repos-invites.ts` |
| `Contacts` | contacts of a company with provenance, trust, references and org chart; what crawls, the contact routes (create, edit, rename, superior, confirm, delete) and AI drafts write, and the merge of duplicates | `repos-prospect.ts`, `child-upsert.ts`, `update-apply.ts`, `provenance-write.ts`, `contact-merge.ts` |
| `ResearchRuns` | jobs and the runs behind them over `Contacts` | `research/jobs.ts`, `routes.ts`, `orchestrator.ts` |
| `DeckImport` | conversion, extraction runs, edits, appends, deletion, restarts over one deck | `import-handler.ts`, `conversion-job.ts`, `text-extract.ts`, import half of `repos-decks.ts` |
| `MC*` | constants and symmetry for TLC | - |
| `ApprovalQueueProofs`, `HubLifecycleProofs`, `PresentSyncProofs`, `CaptureProofs`, `CopilotProofs`, `DeckImportProofs` | theorems and proofs about the module they extend | - |
| `MeetingProofs` | theorems and proofs about `AudioPipeline` (first part) and `Checklist` (second) | - |
| `CrmProofs` | theorems and proofs about `Membership` (first part), `Contacts` and `ResearchRuns` (second) | - |

Correspondences worth knowing:

* A repository call is a member of `Call` with a stage: `queued` (promise made),
  `read` (first statement answered), `landed`/`failed` (committed or rolled back,
  continuation not yet run), `settled`. The id of a call is also the id of the row
  it inserts, which is how rows, calls and suggestions are related.
* In `ApprovalQueue`, `up` is "registered and not disposed"; entries that `dispose`
  throws away become `dropped`, which the code cannot tell from unknown.
* In `HubLifecycle`, a runtime is named by the connection whose `ensureRuntime`
  made it, so that one overwritten in `sessions` still exists.
* In `Checklist`, a job is one `void (async () => ...)()` with its nested calls;
  a phase per await. Status writes of a transaction become visible at COMMIT.
* In `AudioPipeline`, time is counted in frames and a segment is the sequence of
  its frames, so that properties can say where every frame ended up. Text is absent.
* In `PresentSync`, a slide is its position; a request is asked, answered with a
  snapshot and delivered in separate steps; `kept` remembers the pages whose
  `page_commit` left the page and were not lost with a socket or an unbound runtime.
  The deck has originals, as an imported one does. `setDeckCommitted` is a call of its
  own in the code; here the head is saved, or not saved, in the step of the
  `page_commit` (`Persist`). That is exact on SQLite; what may come in between on pg
  is the subject of `HubLifecycle` and `DeckStore`. There is one socket: a late close
  event of an older one is not expressible.
* In `CaptureSession`, `current` stands for `startEpochRef`: of an epoch only whether
  it is still the latest is ever asked. A start that is over is used again. React's
  effects run in the step that triggers them, because they are flushed before the
  next event of the user.
* In `Copilot`, a `Tick` is ten seconds. What is made of a slide has two phases:
  `reads` (the company's name and the last page, without a deadline in the code, so
  their `Reads` ticks are an assumption on the database) and `slide` (the generation,
  given up after `Deadline`). All other calls take any time.
* In `Contacts`, a name is what it reduces to (its romanisation and the Chinese
  name in it), and a value is the set of its segments, which is what `mergeTitle` and
  `equivalentNames` tell apart. Ids are given in the order of creation, because the
  merge prefers the oldest row. `into` records which row took over a merged one; it is
  no column, only the properties use it.
* In `ResearchRuns`, the soft deadline is looked at before a person is asked about
  (`AskPerson`) and not again when the answer is written (`EnrichPerson`), which may
  be after the hard timeout. Otherwise a run holds the thread between two waits for
  the web, the crawler or the model: on SQLite all it writes there is one step. A run
  whose job was given up at the hard timeout goes on, as the code's does.
* In `DeckImport`, one step is one database call or one answer. Slides are counted
  from 1; the `original` of a slide says whether it came from the file.

The definitions with a comment `Mutant:` are plausible wrong versions of the
definition after them. Nothing refers to them; replacing the real definition by
one of them must break the property it is listed for in `PROJECT.json`.

## Runs

Each run finishes within about three minutes with two workers.

| Run | Driver | Shows |
|---|---|---|
| `approval_sqlite` | SQLite | the queue over the deck implements `ApprovalFSM`; shown pages are frozen |
| `approval_pg` | pg | what survives all interleavings: one outcome per suggestion, applied means in the deck, in the deck means approved; every entry is decided |
| `hub_sqlite` | SQLite | no runtime and no socket for an ended meeting, the head never behind a shown page whose save did not fail, consent never stale |
| `hub_pg` | pg | no dead socket in a room, no abandoned runtime off the timer, abandoned runtimes are reclaimed |
| `present_sync` | SQLite | no reported page is forgotten unless its socket or an unbound runtime was lost with it or its save failed; what the page holds converges to the deck; its connection settles |
| `capture` | SQLite | no live track that no button reaches; what was cancelled is released even if a prompt is never answered; a closed page never listens again; page and server agree on consent and frame layout |
| `checklist_sqlite` | SQLite | screens and engine agree with the rows when all is quiet; the call chains implement `ChecklistContract`; unticks stand |
| `audio` | either | labels by channel are right, nothing is heard twice, nothing is delivered without consent |
| `copilot` | either | the slide limit holds although it is checked before two reads and a generation and counted after them; one card per entity however retrievals overlap; no stale segment in the window |
| `membership_sqlite` | SQLite | every organisation has an owner and every person one organisation, nobody joins without a valid invite |
| `research` | SQLite | typed values survive crawls, drafts and merges, references of other tables and (but for a survivor's own) of the org chart resolve, merging converges, a job ends once and does end |
| `deck_import` | pg | original pages keep their content, texts belong to their pages, no text is stored twice, every page is read as long as somebody asks |

What "SQLite" means for these properties: several of them speak of a step that some
interleaving could separate from its check (`ShownFrozen`, `NoZombie`, `HeadNeverBehind`,
`ConsentNotStale`, `HudCurrent`, `EngineCurrent`, `ImplementsContract`, `OrgHasOwner`,
`OnlyInvitedJoin`). With one event at a time it cannot, so such a run shows that the
checks are there and are the right ones, over all sequences of events; that they are
not enough on pg is under "Disagreements" where a run shows it.

Each module's type invariant (`TypeOK`, `ChecklistTypeOK`, `ResearchTypeOK`; and a few
weaker properties named below) holds in the same instances; add it to the `INVARIANTS`
of a cfg to see it.

### Bounds

* `approval_*`: two suggestions and three or four calls - enough for two accepts
  in progress beside a page turn, or an accept beside an edit and two page turns.
  Two initial pages with one original make both guards of `updateSlide` on the deck's
  row matter; `Originals`, the rows of that kind, is what the second guard, on the
  slide's row, looks at.
  Page numbers up to `MaxIndex` go beyond the end of the deck. Calls are not
  reused, so their number bounds the length of a behaviour.
* `hub_*`: three connections, each opened once (a reconnect is another connection). On
  SQLite two of them are of the capture page, so that consent is given on one and
  taken back on the next, and pages go up to `MaxIndex` 2, so that a later page can make
  up for one whose save failed. The pg run drops pages and consent, which nothing in
  its three properties depends on. The end of the meeting may be asked for, and fail,
  repeatedly.
* `present_sync`: two requests at a time (a snapshot beside a load or a refresh, in
  either order), a deck of one page that may grow to two, one reconnect before the
  budget is used up, any number of drops, retries, runtimes and page turns.
* `capture`: two starts (one cancelled and waiting, one current), three attempts of
  the six, three consent messages on their way. Starts are reused, so any number may
  follow one another. The page is not opened again while its own POST is under way.
* `checklist_*`: one item bound to a page and one to none, two call chains at a
  time - two is what one page_commit starts - and three pages. On SQLite no more
  than two chains exist at once anyway, since a turn of the event loop ends only
  when all are over.
* `audio`: five frames per runtime, a second being two frames and four seconds
  three: room for a segment cut by silence and one by length, for a mode switch
  with more and with less than a second buffered, and for three segments of two
  tracks in progress. Two runtimes.
* `copilot`: three calls in flight, one entity, one slide and one research per
  meeting, two runtimes; a throttle of four ticks against two for a generation and one
  for the reads before it (40 s, 20 s and 10 s); segments of length one and two
  against a window of three, times 0 to 2 against an age of 1.
* `membership_*`: two people, two invites, two requests at a time - each of the races
  is between two.
* `research`: two jobs of either kind, three contacts, one referring row, one edit by a
  user, and three ways a crawl spells one executive (Latin only, Chinese only, both),
  which is what makes a merge chain. Users type one name (`Called`) and one title
  (`Typed`); emptying a field is in `MCResearchChart.cfg`, which needs two edits and two
  contacts.
* `deck_import`: a file of four pages, one of them without text, two pages per
  extraction run and two at a time, one slide of a meeting, one restart. The parser
  sees as many pages as the file has, one fewer (a hidden one, anywhere) or one more;
  a result with as many pages that are not the same ones is assumed away.

### Fairness

Safety runs assume none, and no run but `deck_import` assumes anything of people:
nobody has to accept, connect, answer a prompt or leave. Disjuncts that describe
failures are not required to happen either.

* `approval_pg`: weak fairness of every timer (`Expire`: Node fires `setTimeout`, and
  its guard stays true until it does) and of every repository step (each statement
  answers or fails; the pool has timeouts).
* `hub_pg`: of every step of a handshake, of the close event that follows a closing
  socket, of the grace timer and of `endMeeting`'s steps.
* `present_sync`: of timers (the 30-minute refresh, the reconnect), of a connection
  attempt's outcome either way, of messages that have arrived and of answers of the
  server; strong fairness of the arrival of an answer - a network that loses every
  single one for ever is excluded, one that loses any number is not.
* `capture`: of the ten-second timer and of the loading of the worklet, with either
  outcome.
* `research`: of a queued run's first step and of the hard timeout. The web, the
  crawler and the model need never answer.
* `deck_import`: the process goes on; the converter, the parser and the model answer
  or time out; and, the one assumption about people, somebody posts another request
  for missing texts while some are missing (`Backfill`, `decks-routes/index.ts` 423:
  the set-up form does so when a user picks the deck; no timer does). What is tried
  again and again succeeds at last (strong fairness of loading and of reading a page):
  a run takes the first missing pages, so pages that fail for ever could keep the
  later ones out.

## Disagreements

What a document or comment says and the code does not do. Each is shown by a
property that TLC finds violated; the command is `tlc -config <cfg> <module>`.

| What the code does | What it says | Shown by |
|---|---|---|
| `patch-service.ts:95`: an entry stays `suggested` while its append is in progress; on pg the TTL or a reject then reports "discarded" for a slide that is in the deck | "不可恢復" (PRODUCT_SPEC.md:62) | `MCApprovalQueueDiscarded.cfg`, `MCApprovalQueue`: DiscardedNotInDeck |
| `repos-decks.ts:333`: `updateSlide` looks at the head with one statement and writes the slide with a later one, outside a transaction; on pg a page can be shown in between and is changed all the same | "I1：idx ≤ committedIndex（已播/正在播的頁）→ I1ViolationError（權威落點）" (repos-decks.ts:326) | `MCApprovalQueueShown.cfg`, `MCApprovalQueue`: ShownFrozen |
| `hub.ts:367`: on pg the runtime is registered without a second look at the meeting's status; a handshake overtaken by the end revives the meeting | "已結束的會議不得被復活" is guaranteed by the gate (useRealtime.ts:89) | `MCHubLifecycleZombie.cfg`, `MCHubLifecycle`: NoZombie |
| `hub.ts:640`: the page-dwell tick-off and the saving of the head, started by one `page_commit`, use the one SQLite connection at the same time; the second `BEGIN IMMEDIATE` throws. The tests call `onPageCommitted` alone and do not see it | MEETING_CHECKLIST_CONTRACT.md:188 | `MCChecklistSlide.cfg`, `MCChecklist`: SlideTicksOff |
| `repos-checklist.ts:162`: `UPDATE` by id alone; on pg a manual decision committed after the SELECT is overwritten | "只更新 status='pending' 的列" (:138) | `MCChecklistPg.cfg`, `MCChecklist`: ManualIsFinal |
| `ws-server.ts:202`: nobody calls `reset` when consent is revoked; audio from before is transcribed after a new grant | "consent revoke: never store, never transcribe" (chunker.ts:101) | `MCAudioRevoke.cfg`, `AudioPipeline`: RevokeDiscards |
| `hub.ts:486`: idempotency keys of usage rows restart with every runtime; the rows of a second one are dropped as duplicates | one row per final (hub.ts:482) | `MCAudioBilling.cfg`, `AudioPipeline`: BilledEach |
| `repos-invites.ts:174`: on pg two owners who act on each other both count two owners; none is left | "count 與 update 之間不容並發插隊" (:167), "每個 org 永遠至少一名 owner" (:18) | `MCMembershipPg.cfg`, `MCMembership`: OrgHasOwner |
| `contact-merge.ts:371`: a merged title grows while its provenance still says a human verified the shorter one | value and source never drift apart (contact-merge.ts:8) | `MCResearchTrust.cfg`, `MCResearchRuns`: TrustedAsSeen |
| `contact-merge.ts:267` and 406-411: a survivor is skipped when references are moved, and what it had, or took over from a victim, is written back as read before; it can report to a row that was just merged into it and deleted, or to itself | "組織圖 self-ref：避免 survivor 指向自己" (contact-merge.ts:266) | `MCResearchChart.cfg`, `MCResearchRuns`: ChartResolves |
| `conversion-job.ts:107`: a slide appended during the conversion is counted among the originals, and the last page of the file is not | "原始頁在前段" (repos-decks.ts:327) | `MCDeckImportFront.cfg`, `DeckImport`: OriginalsInFront |
| a deck deleted while it is converted leaves the image inserted last | repos-decks.ts:258 | add NothingLeftBehind to `MCDeckImport.cfg` |
| `audio-capture.ts:268`: the share is looked at once, the listener for its end is bound after two more waits; one stopped in between leaves a page that listens to silence | "nothing would notice" is what the check is for (:264) | `MCCaptureSilence.cfg`, `MCCaptureSession`: ListeningIsLive |
| `ws-server.ts:135`: on pg messages that arrive before the gate has answered, or before there is a runtime, are dropped; the consent sent on open can be one of them. The page shows "analysing", the server drops every frame until the box is ticked again or the socket reconnects; and where a runtime with consent is there, a revocation dropped this way leaves it recording | `onOpen` "surfaces re-send role state (e.g. consent)" (useRealtime.ts:56) | `MCCapturePg.cfg`, `MCCaptureSession`: WireAgrees; `MCHubLifecycleConsent.cfg`, `MCHubLifecycle`: ConsentNotStale |
| `PresentStage.tsx`: a page turned offline counts as committed on the screen and never reaches the head, so it stays editable; the head can be ahead of the deck; a snapshot shorter than what was appended can leave nothing at the index; the local head is set back by a load | repos-decks.ts:287, PresentStage.tsx:92, I1 | `MCPresentOffline.cfg`, `PresentSync`: ShownIsFrozen (in a state where no save has failed); add AppendAheadOfHead, NeverBlank (INVARIANTS) or LocalHeadMonotone (PROPERTIES) to `MCPresentSync.cfg` |

Some more, seen while modelling: on pg `OneRuntime` and `HeadNeverBehind` of `HubLifecycle`
fail as well (two boots side by side); a conversion whose last write fails
(`conversion-job.ts:120`) sets a deck that is complete and ready back to failed, and one
whose writes of "failed" fail too stays "processing" until the next start; a page
whose text could not be stored (`text-extract.ts` 258-260) is read by the model and
paid for again; and the copilot's limits "per meeting"
(00-DECISIONS.md:27) are per runtime, because `disposeSession` clears the maps.
`Copilot` states them as what the code keeps.

Properties that hold in the run's instance and are not listed there, because a
deeper one covers them or a proof does: `NoHole`, `HeadBehindTail` (`approval_pg`),
`NoClash`, `DiscardedNotInDeck`, `CommittedMonotone` (`approval_sqlite`), `OneRuntime`
(`hub_sqlite`), `ManualIsFinal`, `HeadPersisted` (`checklist_sqlite`), `OneToastPerOutage`,
`BilledByFirstRuntime` (`audio`).

## Proofs

`ApprovalQueueProofs` proves, for every number of calls, suggestions and pages, and from
the named assumptions on the constants only (`DeckAssumption`, `QueueAssumption`), what
TLC checks on the instances above.

*Either driver.* `QueueInv` is the conjunction of `TypeOK`, `CallsOK` (what a call's
stage says about its kind and row), `RowsOK` (every added row belongs to an append
that landed), `SeenOK` (an append numbers its row from a page that is still there),
`NoHole`, `OneOutcome`, `HeadBehindTail` and `AppliedIsInDeck`. None of the
properties is inductive alone: `NoHole` needs to know that what an append read is
still true enough (`SeenOK`: rows are never removed), `AppliedIsInDeck` and
`OnlyApproved` need the link from rows to calls to suggestions. From it follow
`TypeCorrect`, `OutcomeAgrees`, `AppliedStays`, `ApprovalRequired`,
`GuardAlwaysHolds` and `PagesContiguous`.

*One event at a time.* Under the hypothesis `Serialised`, `SerialInv` adds `SerialOK`:
at most one call is in progress (`OneActive`), what it read still holds (`ReadOK`),
nobody decided its suggestion before it (`UndecidedOK`, `DecidedOK`), and a
suggestion has one append (`OneAppend`); an edit that has passed the check of the deck's
row may still be refused by that of the slide's. From it follow `DiscardsAreFinal`,
`AppendsNeverClash`, the action properties `CommittedNeverRetreats` and
`ShownPagesFrozen`, and the refinement `ImplementsApprovalFSM`: an initial state maps
to an initial state, the insertion of a row maps to `Apply`, and every other step to
`Offer`, `Discard` or a stutter.

`HubLifecycleProofs` does the same for the hub, for every number of connections and
pages, from `HubAssumption`.

*Either driver.* `HubInv` adds to `TypeOK` and `NoGhostMember` that a teardown in
progress belongs to a completed meeting (`EndingOK`) and that the timer is armed
while the room is empty and a runtime is registered *or in the making* (`TimerOK`):
`NoOrphanRuntime` alone is broken by the step that registers a runtime after the
last socket left. Results: `TypeCorrect`, `NoGhosts`, `NoOrphans`.

*One event at a time.* `SerialHub` says that at most one handler, end or save is in
progress (`OneHandler`), that every open socket outside its handler is in the room, so
that closing the room reaches everybody (`Enrolled`), that nobody is past the gate of
a completed meeting (`NoneRunning`), that a runtime is made only while none is
registered and without consent (`RuntimeOK`), and that every page shown is in the deck
row or on its way, if its save did not fail (`HeadOK`; `shown` has a page until then).
From it follow `EndedMeetingIsGone`, `RuntimeIsUnique`, `ConsentIsCurrent` and
`HeadIsNeverBehind`; the first fails on pg (`MCHubLifecycleZombie.cfg`).

The other proof modules have one inductive invariant each. Every one of them was
checked by TLC on the instance of the component's run before it was proved.

*`PresentSyncProofs`* (`PresentAssumption`; any number of pages, attempts and requests).
`NoReportForgotten` alone is broken by the step that drops a socket and by the loss of
a runtime. `PresentInv` adds that messages are on an open socket only (`LinkOK`) and
that the head of a runtime that knows its deck is saved there, or could not be (`HeadOK`:
`unsaved` remembers the last page the deck lacks for that reason). Results:
`TypeCorrect`, `ReportsKept`.

*`CaptureProofs`* (`CaptureAssumption`; any number of starts in progress). `CaptureInv`
says that what the page holds is what it shows (`ControllerOK`), that tracks are live
only in a start that is not over or held (`TracksOK`), and that a closed page has no
start that counts (`ClosedOK`); without the last one a late answer of the microphone
could bring a closed page back. Results: `TypeCorrect`, `LiveTracksAreHeld`,
`ClosedPageStaysClosed`. Under the hypothesis `~SlowGate` (SQLite, where the gate does
no real I/O), `SocketOK` and `ConsentOK` (the last consent on its way is the page's)
give `PageAndServerAgree`; without it the property fails (`MCCapturePg.cfg`).

*`MeetingProofs`, first part: `AudioPipeline`* (`AudioAssumption`; segments of any
length, any number of frames and runtimes). `BufferOK`: a chunker holds frames of the
present capture mode only. `SegmentsOK`: wherever a segment is (transcribing,
inferring, heard), it is of one mode, of a time before now, and apart in time from the
buffer of its track and from the track's other segments. `SpeakerTrue` speaks of what
was heard, and is inductive only with what is still on its way; `HeardOnce` needs the
numbering of `sent` pieces to tell the flushed buffer from the frame that follows it.
Results: `TypeCorrect`, `LabelsTrue`, `NothingTwice`, and the action property
`ConsentGates`. `OutageInv` (a live runtime's outages are what is down; a disposed one
has none) and `BilledInv` (the keys used are 0 to the number of finals) give
`OutageToldOnce` and `FirstRuntimeBills`.

*`MeetingProofs`, second part: `Checklist`* (`ChecklistAssumption`; any items, pages and
number of call chains). `ChecklistBase` holds on either driver: the chains in progress
are those in the queue, each once (`SchedOK`), and each is at an await its kind has
(`Placed`). `Began`, `Went` and `Ended` say once what starting, continuing and finishing
a chain does to the queue. Under the hypothesis `Serialised`, `SerialInv` shows why the
order of microtasks need not be known: two chains at once are those of one
`page_commit`, and the tick-off has not begun its transaction (`Paired`); it cannot
begin it while the saving of the head is in its own, because the second BEGIN throws.
So what a chain is about to tick off is pending and not unticked, what it has read are
the rows (`AllFit`), the head is saved or about to be (`HeadSaved`), every difference
between the rows and what HUD and engine were told has a chain or a timer that will
tell it (`HudTold`, `EngineTold`), and what was unticked cools down or is about to
(`UntickKept`). Results: `ChecklistTyped`; with `Serialised`, `HudShowsRows`,
`EngineAsksPending`, `HeadIsSaved`, the action properties `DecisionsStand` and
`UnticksStand`, and the refinement `ImplementsChecklistContract`: a COMMIT with rows to
write maps to the step of the contract its kind names, the turning of the window to
`WindowTurnsOver`, everything else to a stutter. On pg the refinement and `DecisionsStand`
fail (`MCChecklistPg.cfg`), because what a chain selected need not be pending any more
when it commits: `AllFit` does not hold.

*`CopilotProofs`* (`CopilotAssumption`; any number of calls in flight, entities and
segments, any limits). `SlideOK` says why the quota holds although it is checked
before a generation and counted after it: at most one slide is in the making, and
while it is, the throttle of a live meeting is as old as the call: exactly, during the
reads, and at most `Reads` older during the generation, so that the call is over
before the throttle is. The assumption used is `Reads + Deadline < Throttle`: 40 s
against a deadline of 20 s and reads that take less than the other 20. The reads have
no deadline in the code, so this is an assumption on the database, and an environment
that sets `SUPPLEMENT_THROTTLE_MS` lower breaks it. `CardOK`: what the look-up of
trust is about was marked for it alone, before any card. For the window, `NthOf`
proves that a set of positions has a k-th one for every k up to its size, and
`FreshOf` and `TrimOf` what trimming returns. Results: `TypeCorrect`, `QuotaKept`,
`CardedOnce`, `WindowFresh`.

*`CrmProofs`, first part: `Membership`* (any number of persons, requests and
invitations). `TypeInv` holds on either driver and needs that a first sign-in leaves
one organisation (`HomesOK`) and that the invitation of a request in progress is in
its table (`InvitesOK`). Under the hypothesis `Serial` (one request at a time between
two of its queries, SQLite), `SerialInv` adds that what a request has read is still so
when it writes (`ReadOK`) and gives `OwnerStays` and the action property
`JoinIsInvited`; the first fails on pg (`MCMembershipPg.cfg`).

*`CrmProofs`, second part: `Contacts` and `ResearchRuns`* (`ContactsAssumption`,
`ResearchAssumption`; any number of rows, jobs, names and spellings; workers and the
presenter interleaved in any way). `ResearchInv` is type correctness, `RefsResolve`,
that an unused row reports to nobody (`ChartOK`), and that a queued job has a run
about to start and a running one a run at work (`JobOK`). The lemmas say what each way
of writing a contact returns: the survivor of a group is in it; a merge yields one row
under the survivor's id and none under the others', and takes no trusted value from
the survivor; repointing names survivors, and so does the org chart, but for what a
survivor keeps of its own victims (`RefsResolve` has that exception, and no other:
every such row was merged into the very contact that reports to it); an upsert keeps
what a human typed. `DedupeConverges` is about the rows *after* the merge, so its
proof has to show that merging does not change a row's group: the survivor's completed
Chinese name must give the key the group had, and no merged row may become a new
bridge between a romanisation and a Chinese name. Results: `ContactsTyped`,
`ReferencesHold`, `JobsAreRun`, and the action properties `JobEndsOnce`,
`OnePersonOneRow` and `HumanWorkKept`.

The proof corrected a property. `DedupeConverges` used to except only pairs of rows
that are both human-verified; with four contacts TLC shows why that is too little. A
group with two verified rows is left alone as a whole (`contact-merge.ts`,
`dedupeCompanyContacts`), so its unverified rows stay duplicates as well:
`LeftToHumans` is the exception now. Three contacts had been too few to see it.

*`DeckImportProofs`* (any number of pages and runs). `ImportInv`: the n-th slide from
the file shows page n, and the conversion's loop is at the page after them (`RowsOK`);
a text is that of the page with the slide's number (`TextsOK`); a page that a run has
still to do has nothing stored (`WorkOK`), one run is in progress (`OneRun`), what was
stored is on its slide (`ResultsOK`). `ReadOnce` needs the last three together: a run
reads once what is missing and stores much later. Results: `TypeCorrect`, `PagesStay`,
`PagesInOrder`, `TextMatchesPage`, `PaidOnce`.

Some definitions are written so that they can be reasoned about: `Fresh` in `Copilot`
picks the young positions in order instead of using `SelectSeq` (whose library definition
is recursive; TLC finds both equal), a removed row in `Membership` is a concatenation of
what is before and behind it, `Rest` in `Checklist` removes the place of the call chain,
`Filled` and `Sent` in `AudioPipeline` name what one track gets from a frame, and `Merged`
and `MergeGroup` in `Contacts` take their cases in order, as the code does. `Contacts`
assumes that no name is both a romanisation and a Chinese one (`Latin \cap Han = {}`),
which the code has by the alphabet and by keeping two maps of groups.

Only model-checked: liveness (`EventuallyDecided`, `EventuallyReclaimed`, `StageConverges`,
`LinkSettles`, `CancelledIsReleased`, `EveryJobEnds`, `EveryPageRead`), which is outside the
prover's reach. Every safety invariant, action property and refinement of a run is proved
for all values of the constants, under the hypothesis on the driver its run has.

## Not modelled, and why

* Text, documents and prompts (what research extracts, generation of slides and
  checklists, parsers, rendering, export): transformations of data without shared
  state. Of their calls only that they answer late, differently or not at all is
  used.
* What research writes beside contacts (company fields, products, news, notes,
  posts, the index of cards): single upserts by key.
* Image jobs: run in memory, one cell of one slide each; nothing looks at them after
  a restart (listed as a hazard).
* Write-back and retention of transcripts, CRM routes, admin, training: each request
  writes its rows in one transaction. Rate limiting: two numbers per key in one
  synchronous function.
* Authentication and tenancy filters: each statement carries its `org_id`; the
  modules are one organisation and one meeting. Tokens are modelled as the
  organisation they name.
* I3: a constant argument of each broadcast call.
* Several messages handled in one turn of the event loop (one TCP segment may
  carry several frames): the modules take one message per turn.
* Several processes: the server runs as one instance; a restart is modelled, two
  processes side by side are not. The boot reapers assume that the old process is
  gone, which a rollover of revisions does not guarantee.
* `ResearchRuns` on pg, where other requests come in between the statements of a run.
* User interface other than the message-level behaviour of the presentation and
  the capture page.

## Plan

1. Refinements: one runtime per meeting as the promise of `HubLifecycle`, a deck that
   only grows as that of `DeckImport`.
2. Modules, if the need arises: image jobs beside `DeckStore`, checklist generation
   against the end of a meeting, `ResearchRuns` on pg.

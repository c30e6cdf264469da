----------------------------- MODULE ResearchRuns -----------------------------
(***************************************************************************)
(* Research jobs on one company (research/routes.ts, orchestrator.ts and      *)
(* jobs.ts) and what they write into its contacts.  A run waits for the web,  *)
(* the crawler and the language model; between two such waits it holds the    *)
(* thread, and on better-sqlite3 all it writes there is one step.  Nothing    *)
(* keeps two runs of a company apart.                                         *)
(*                                                                           *)
(* Of a run are left out: which sources it reads, and what it writes beside   *)
(* contacts (fields of the company, products, news, notes, posts).            *)
(***************************************************************************)
EXTENDS Contacts

CONSTANTS
  Job,       \* bound: the jobs ever created, in the order of creation
  MaxEdits,  \* bound: what users do to contacts
  Typed,     \* the values users type; {} empties a field
  Called,    \* the names users type
  Found      \* the people a crawl can come up with

ASSUME ResearchAssumption ==
  /\ Job \subseteq Nat /\ IsFiniteSet(Job) /\ MaxEdits \in Nat /\ Typed \subseteq SUBSET Text /\ Called \subseteq Name
  /\ Found \subseteq NewContact

VARIABLES
  job,       \* crawl_jobs.status
  run,       \* where the run of each job is, and what it holds
  edits      \* what users have done so far, for the bound

researchVars == <<contact, reports, refers, removed, into, job, run, edits>>

NoRun   == [at |-> "over", saved |-> {}]
Ended   == {"done", "failed"}
Working == {"gather", "enrich", "ask", "tail"}   \* under the hard timeout

ResearchTypeOK ==
  /\ ContactsTypeOK
  /\ job \in [Job -> {"none", "queued", "running"} \cup Ended]
  /\ edits \in 0..MaxEdits
  /\ run \in [Job -> [at : {"over", "start"} \cup Working, saved : SUBSET NewContact]]

ResearchInit ==
  /\ ContactsInit
  /\ job = [j \in Job |-> "none"] /\ run = [j \in Job |-> NoRun] /\ edits = 0

At(j, where) == run[j].at = where
Goes(j, where) == run' = [run EXCEPT ![j].at = where]
NoChartChange   == UNCHANGED <<reports, refers, removed, into>>
NoContactChange == UNCHANGED contact /\ NoChartChange
-----------------------------------------------------------------------------
(* POST /enrich: createJob inserts the job; runJob starts in the background. *)
CreateJob(j) ==
  /\ job[j] = "none" /\ \A i \in Job : i < j => job[i] # "none"
  /\ job' = [job EXCEPT ![j] = "queued"] /\ Goes(j, "start") /\ NoContactChange

MarkRunning(j) ==
  /\ At(j, "start")
  /\ job' = [job EXCEPT ![j] = "running"] /\ Goes(j, "gather") /\ NoContactChange

(* The race with the hard timeout: only a run that was not given up on ends   *)
(* its job.  (The index it then builds never fails the job.)                  *)
(* Mutant: the work itself marks the job.                                     *)
EndsAlways(j, as) == job' = [job EXCEPT ![j] = as] /\ run' = [run EXCEPT ![j] = NoRun]

Ends(j, as) ==
  /\ job' = [job EXCEPT ![j] = IF @ = "running" THEN as ELSE @]
  /\ run' = [run EXCEPT ![j] = NoRun]

(* runStandard of a company: crawl, extract, write the children.             *)
Standard(j, p) ==
  /\ At(j, "gather")
  /\ contact' = Upsert(contact, p, Unused, FALSE)
  /\ Ends(j, "done") /\ NoChartChange

(* runStandard of a contact: the first person of its page.                   *)
StandardContact(j, p) ==
  /\ At(j, "gather")
  /\ contact' = Upsert(contact, p, Unused, TRUE)
  /\ Ends(j, "done") /\ NoChartChange

(* runDeep up to enrichKeyPeople: the people of the site, then the people of  *)
(* the web, whose rows the run keeps as they are now.                         *)
Saved(rows, p) ==
  LET row == rows[First(Match(rows, p))] IN [name |-> row.name, zh |-> row.zh, val |-> row.val]

Persist(j, site, web) ==
  /\ At(j, "gather")
  /\ LET sited == Upsert(contact, site, Unused, FALSE)
         left  == {c \in Unused : sited[c] = NoRow}
         both  == Upsert(sited, web, left, TRUE)
     IN  /\ contact' = both
         /\ run' = [run EXCEPT ![j].at = "enrich",
                               ![j].saved = IF Match(both, web) = {} THEN {} ELSE {Saved(both, web)}]
  /\ NoChartChange /\ UNCHANGED job

(* The soft deadline passes before the hard timeout does: a run whose job was *)
(* given up on is past both.                                                  *)
MayBeInTime(j) == job[j] = "running"

(* enrichKeyPeople, one person: the soft deadline is looked at before the     *)
(* questions to the web and the model; when they are answered, however late,  *)
(* what was empty when the run wrote the row is filled, under the name it had *)
(* then.  Past the deadline the rest is left, and so is who is not found.     *)
AskPerson(j) ==
  /\ At(j, "enrich") /\ run[j].saved # {} /\ MayBeInTime(j)
  /\ Goes(j, "ask") /\ NoContactChange /\ UNCHANGED job

PersonOver(j, s) == run' = [run EXCEPT ![j].at = "enrich", ![j].saved = @ \ {s}] /\ UNCHANGED job

EnrichPerson(j, s, found) ==
  /\ At(j, "ask") /\ s \in run[j].saved
  /\ contact' = Upsert(contact,
       [name |-> s.name, zh |-> IF s.zh = None THEN found.zh ELSE None,
        val |-> [f \in Field |-> IF s.val[f] = {} THEN found.val[f] ELSE {}]], Unused, TRUE)
  /\ PersonOver(j, s) /\ NoChartChange

PersonNotFound(j, s) == At(j, "ask") /\ s \in run[j].saved /\ PersonOver(j, s) /\ NoContactChange

EnrichOver(j) ==
  /\ At(j, "enrich") /\ run' = [run EXCEPT ![j] = [NoRun EXCEPT !.at = "tail"]]
  /\ NoContactChange /\ UNCHANGED job

(* The end of runDeep: the duplicates are merged, or it is too late for that. *)
Dedupe(j) ==
  /\ At(j, "tail") /\ MayBeInTime(j)
  /\ DedupeContacts /\ Ends(j, "done")

TooLate(j) == At(j, "tail") /\ Ends(j, "done") /\ NoContactChange

Fail(j) ==
  /\ run[j].at \in Working /\ Ends(j, "failed") /\ NoContactChange

(* withTimeout gives up waiting; the run itself is not stopped.              *)
HardTimeout(j) ==
  /\ run[j].at \in Working /\ job[j] = "running"
  /\ job' = [job EXCEPT ![j] = "failed"] /\ NoContactChange /\ UNCHANGED run

(* The process dies and the next one, before it serves anybody, fails the     *)
(* jobs that are left (failInterrupted).                                      *)
(* Mutant: only those that had started.                                       *)
LeftRunning == {j \in Job : job[j] = "running"}

Left == {j \in Job : job[j] \in {"queued", "running"}}

Restart ==
  /\ job' = [j \in Job |-> IF j \in Left THEN "failed" ELSE job[j]]
  /\ run' = [j \in Job |-> NoRun] /\ NoContactChange
-----------------------------------------------------------------------------
(* What people do meanwhile. *)
User ==
  /\ edits < MaxEdits /\ edits' = edits + 1
  /\ \/ \E n \in Called, t \in Typed, b \in Rows \cup {None} :
          CreateContact(n, [f \in Field |-> IF f = "title" THEN t ELSE {}], b)
     \/ \E c \in Id : \/ \E f \in Field : Confirm(c, f) \/ \E v \in Typed : HumanUpdate(c, f, v)
                      \/ \E n \in Called : HumanRename(c, n) \/ HumanRenameZh(c, n.han)
                      \/ \E b \in Rows \cup {None} : SetSuperior(c, b)
                      \/ \E v \in Typed : AiDraft(c, v)
                      \/ DeleteContact(c)
                      \/ \E d \in Deal : Refer(d, c)
  /\ UNCHANGED <<job, run>>

Work ==
  \/ Restart
  \/ \E j \in Job :
       \/ CreateJob(j) \/ MarkRunning(j)
       \/ \E p \in Found : Standard(j, p) \/ StandardContact(j, p)
       \/ \E site, web \in Found : Persist(j, site, web)
       \/ \E s \in run[j].saved, found \in Found : EnrichPerson(j, s, found)
       \/ \E s \in run[j].saved : PersonNotFound(j, s)
       \/ AskPerson(j) \/ EnrichOver(j) \/ Dedupe(j) \/ TooLate(j) \/ Fail(j) \/ HardTimeout(j)

ResearchNext == User \/ (Work /\ UNCHANGED edits)

(* Timers fire and a started handler goes on; an answer from the web need     *)
(* never come.                                                                *)
Fairness ==
  \A j \in Job : /\ WF_researchVars(MarkRunning(j) /\ UNCHANGED edits)
                  /\ WF_researchVars(HardTimeout(j) /\ UNCHANGED edits)

ResearchSpec     == ResearchInit /\ [][ResearchNext]_researchVars
FairSpec == ResearchSpec /\ Fairness
-----------------------------------------------------------------------------
(* Safety *)

(* A value a human typed or confirmed stays, in its row, until a human        *)
(* changes the field or deletes the row: neither a crawl of any kind nor a    *)
(* merge of duplicates overwrites or drops it (a title may grow: below).      *)
TypedValueKept ==
  [][\A c \in Rows : \A f \in Trusted(contact[c]) :
       \/ contact[c].val[f] = {}
       \/ contact'[c] # NoRow /\ contact[c].val[f] \subseteq contact'[c].val[f]
       \/ \E v \in Typed : HumanUpdate(c, f, v)
       \/ DeleteContact(c)]_researchVars

(* Whatever is merged, a row of another table that refers to a contact refers *)
(* to a contact there is, or to one a user has deleted; and so does a contact *)
(* in the org chart, with one exception: a survivor may still report to a row *)
(* that was merged into the survivor itself.                                  *)
There == Rows \cup removed \cup {None}

RefsResolve ==
  /\ \A d \in Deal : refers[d] \in There
  /\ \A c \in Rows : reports[c] \in There \/ into[reports[c]] = c

(* The exception is not meant: contact-merge.ts says of the org chart that a  *)
(* survivor is kept from pointing at itself, and its victims are deleted.     *)
ChartResolves == \A c \in Rows : reports[c] \in There \ {c}

(* Once the end of a run has merged duplicates, one person is one row, except *)
(* in a group left to humans because two of its rows carry their work: nothing *)
(* the merge writes (a Chinese name it completes) makes two of the rows it     *)
(* leaves the same person.                                                     *)
Same(a, b) ==
  IF HanKey(a) # None /\ HanKey(b) # None THEN HanKey(a) = HanKey(b)
  ELSE a.name.latin # None /\ a.name.latin = b.name.latin

LeftToHumans(rows, k) ==
  \E a, b \in Group(rows, k) : a # b /\ HumanVerified(rows[a]) /\ HumanVerified(rows[b])

DedupeConverges ==
  [][\A j \in Job : Dedupe(j) =>
       \A c, d \in Rows' : c # d /\ Same(contact'[c], contact'[d]) =>
          \E x \in {c, d} : LeftToHumans(contact, Key(contact, x))]_researchVars

(* A job ends once: no answer that comes after the timeout, and no restart,   *)
(* changes what the user was told.                                            *)
OneOutcome == [][\A j \in Job : job[j] \in Ended => job'[j] = job[j]]_researchVars

(* A field that is shown as human-verified shows what the human saw           *)
(* (contact-merge.ts: value and source never drift apart).                    *)
TrustedAsSeen ==
  \A c \in Rows : \A f \in Trusted(contact[c]) :
     contact[c].prov[f].value # {} => contact[c].val[f] = contact[c].prov[f].value
-----------------------------------------------------------------------------
(* Liveness *)

(* No job stays "in progress" for ever, whatever the web does and whenever    *)
(* the process dies.                                                          *)
EveryJobEnds == \A j \in Job : job[j] \in {"queued", "running"} ~> job[j] \in Ended
=============================================================================

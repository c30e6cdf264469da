------------------------------- MODULE Contacts -------------------------------
(***************************************************************************)
(* The contacts of one company, the provenance of their fields, whom they      *)
(* report to and the references to them: repos-prospect.ts                    *)
(* (SqliteContactRepository), child-upsert.ts, update-apply.ts,               *)
(* provenance-write.ts and contact-merge.ts of packages/crm.  Every operation here is one transaction *)
(* or a run of queries with nothing awaited between them, so on               *)
(* better-sqlite3 it is one step.                                             *)
(*                                                                           *)
(* A value is a set: of title segments (mergeTitle) or, for "email", which    *)
(* stands for any other field, with one element at most; {} is the empty      *)
(* value.  Of the names and of the superior, whose provenance no page shows,  *)
(* the model keeps only whether a human has set them.                         *)
(***************************************************************************)
EXTENDS Integers, FiniteSets

CONSTANTS
  Latin, Han,   \* what a full name reduces to: its romanisation, the Chinese name in it
  Text,         \* the values a field can have
  MaxContact,   \* bound: the contacts ever created
  Deal,         \* the rows that refer to a contact (deals, attendees, notes, ...)
  None

ASSUME ContactsAssumption ==
  /\ MaxContact \in Nat \ {0}
  /\ None \notin Latin \cup Han \cup (1..MaxContact)
  /\ Latin \cap Han = {}         \* zhGroups and romanGroups have keys of their own
  /\ Cardinality(Text) <= 4     \* TITLE_MAX_SEGMENTS: no segment is cut

VARIABLES
  contact,   \* contacts, by id: ids are given in the order of creation
  reports,   \* contacts.reports_to_contact_id, the org chart
  refers,    \* the contact each referring row of another table names
  removed,   \* the contacts a user has deleted
  into       \* the row that has taken over each merged one; no column, for the properties

Id    == 1..MaxContact
Field == {"title", "email"}
Other == {"fullName", "fullNameZh", "reportsToContactId"}   \* columns a PATCH can set too
Name  == [latin : Latin \cup {None}, han : Han \cup {None}] \ {[latin |-> None, han |-> None]}
NoRow == [name |-> None]
NoProvenance == [trusted |-> FALSE, value |-> None]

Values     == [Field -> SUBSET Text]
NewContact == [name : Name, zh : Han \cup {None}, val : Values]   \* as a source has one
Provenance == [trusted : BOOLEAN, value : SUBSET Text] \cup {NoProvenance}
ContactRow == [name : Name, zh : Han \cup {None}, val : Values, prov : [Field -> Provenance],
               set : SUBSET Other]

Rows   == {c \in Id : contact[c] # NoRow}
Taken  == {c \in Id : into[c] # None}
(* An id is given once, to a row that is younger than all others.            *)
Unused == {c \in Id : contact[c] = NoRow /\ \A d \in Rows \cup removed \cup Taken : d < c}

ContactsTypeOK ==
  /\ contact \in [Id -> ContactRow \cup {NoRow}]
  /\ refers \in [Deal -> Id \cup {None}] /\ removed \subseteq Id
  /\ reports \in [Id -> Id \cup {None}] /\ into \in [Id -> Id \cup {None}]

ContactsInit ==
  /\ contact = [c \in Id |-> NoRow] /\ refers = [d \in Deal |-> None] /\ removed = {}
  /\ reports = [c \in Id |-> None] /\ into = [c \in Id |-> None]

First(S) == CHOOSE c \in S : \A d \in S : c <= d
-----------------------------------------------------------------------------
(* trustedFieldsOf: filled by a human, or confirmed by one.                  *)
Trusted(row) == {f \in Field : row.prov[f].trusted}

(* isHumanVerified: what a PATCH sets makes the row verified in part.        *)
HumanVerified(row) == row.set # {} \/ \E f \in Field : row.prov[f].trusted

(* matchRow: the full name, else the Chinese name.                           *)
ByName(rows, p)  == {c \in Id : rows[c] # NoRow /\ rows[c].name = p.name}
ByHan(rows, p)   == {c \in Id : rows[c] # NoRow /\ p.zh # None /\ rows[c].zh = p.zh}
Match(rows, p)   == IF ByName(rows, p) # {} THEN ByName(rows, p) ELSE ByHan(rows, p)

(* accumulateAndFillEmpty, for one field of a row found by either key: titles *)
(* add up; anything else is overwritten, or only filled when the name is not  *)
(* the same.  What a human has filled or confirmed is left alone.             *)
Written(row, p, f) ==
  /\ p.val[f] # {} /\ f \notin Trusted(row)
  /\ f = "title" \/ row.name = p.name \/ row.val[f] = {}

Merged(row, p, f) ==
  IF ~Written(row, p, f) THEN row.val[f]
  ELSE IF f = "title" THEN row.val[f] \cup p.val[f] ELSE p.val[f]

Crawled(row, f) == IF row.val[f] = {} THEN NoProvenance ELSE [trusted |-> FALSE, value |-> row.val[f]]

Inserted(p, recorded) ==
  [name |-> p.name, zh |-> p.zh, val |-> p.val, set |-> {},
   prov |-> [f \in Field |-> IF recorded THEN Crawled(p, f) ELSE NoProvenance]]

(* upsertFromCrawl of a contact (recorded) and upsertChild, which writes no   *)
(* provenance.  With no row left under the bound the person is not written.   *)
Upsert(rows, p, new, recorded) ==
  IF Match(rows, p) # {}
  THEN LET c == First(Match(rows, p))
           row == rows[c]
           after == [row EXCEPT !.zh = IF p.zh # None /\ "fullNameZh" \notin row.set THEN p.zh ELSE @,
                                !.val = [f \in Field |-> Merged(row, p, f)]]
       IN  [rows EXCEPT ![c] =
             [after EXCEPT !.prov = [f \in Field |-> IF recorded /\ Written(row, p, f)
                                                     THEN Crawled(after, f) ELSE @[f]]]]
  ELSE IF new = {} THEN rows ELSE [rows EXCEPT ![First(new)] = Inserted(p, recorded)]
-----------------------------------------------------------------------------
(* dedupeCompanyContacts.  The Chinese name of a row is its own, else the one *)
(* in its full name; a row without one joins the first group of those that    *)
(* holds its romanisation, else the rows without one and the same one.        *)
HanKey(row) == IF row.zh # None THEN row.zh ELSE row.name.han

Bridges(rows, c) ==
  {d \in Id : /\ rows[d] # NoRow /\ HanKey(rows[d]) # None
              /\ rows[c].name.latin # None /\ rows[d].name.latin = rows[c].name.latin}

(* Mutant: the romanisation does not bridge to the rows with a Chinese name. *)
KeyByHanOnly(rows, c) ==
  IF HanKey(rows[c]) # None THEN HanKey(rows[c]) ELSE rows[c].name.latin

Key(rows, c) ==
  LET named(k) == {d \in Id : rows[d] # NoRow /\ HanKey(rows[d]) = k}
      keys == {HanKey(rows[d]) : d \in Bridges(rows, c)}
  IN  CASE HanKey(rows[c]) # None -> HanKey(rows[c])
        [] HanKey(rows[c]) = None /\ keys # {} ->
             CHOOSE k \in keys : \A l \in keys : First(named(k)) <= First(named(l))
        [] OTHER -> rows[c].name.latin

Group(rows, k) == {c \in Id : rows[c] # NoRow /\ Key(rows, c) = k}

(* A group with two rows a human has worked on is left to humans.            *)
Mergeable(rows, k) ==
  /\ Cardinality(Group(rows, k)) >= 2
  /\ Cardinality({c \in Group(rows, k) : HumanVerified(rows[c])}) <= 1

(* Mutant: the oldest row survives, whoever has worked on another.           *)
OldestSurvivor(rows, k) == First(Group(rows, k))

Survivor(rows, k) ==
  LET verified == {c \in Group(rows, k) : HumanVerified(rows[c])}
  IN  IF verified # {} THEN First(verified) ELSE First(Group(rows, k))

(* mergeGroup: empty fields are filled and provenance is taken over from the  *)
(* oldest victim that has it, titles add up, the Chinese name is completed.   *)
MergeGroup(rows, k) ==
  LET s == Survivor(rows, k)
      row == rows[s]
      victims == Group(rows, k) \ {s}
      Having(f) == {v \in victims : rows[v].val[f] # {}}
      Recorded(f) == {v \in victims : rows[v].prov[f] # NoProvenance}
      named == {v \in victims : rows[v].zh # None}
  IN  [c \in Id |->
        IF c \in victims THEN NoRow
        ELSE IF c # s THEN rows[c]
        ELSE [row EXCEPT
          !.zh = IF @ # None THEN @ ELSE IF named # {} THEN rows[First(named)].zh
                 ELSE IF k \in Han THEN k ELSE @,
          !.val = [f \in Field |->
             IF f = "title" THEN UNION {rows[v].val[f] : v \in Group(rows, k)}
             ELSE IF row.val[f] = {} /\ Having(f) # {} THEN rows[First(Having(f))].val[f]
             ELSE row.val[f]],
          !.prov = [f \in Field |->
             IF row.prov[f] = NoProvenance /\ Recorded(f) # {} THEN rows[First(Recorded(f))].prov[f] ELSE row.prov[f]]]]

Mergeables(rows) == {k \in Latin \cup Han : Mergeable(rows, k)}

(* repointContactRefs: whoever named a victim names the survivor.            *)
(* Mutant: only the references to the oldest victim are moved.               *)
RepointOldest(rows, c) ==
  IF \E k \in Mergeables(rows) : c \in Group(rows, k) /\ c = First(Group(rows, k) \ {Survivor(rows, k)})
  THEN Survivor(rows, Key(rows, c)) ELSE c

Repoint(rows, c) ==
  IF c # None /\ rows[c] # NoRow /\ Key(rows, c) \in Mergeables(rows)
  THEN Survivor(rows, Key(rows, c)) ELSE c

(* The groups are disjoint and made once, so the order of the merges does not *)
(* matter.                                                                    *)
Deduped(rows) ==
  [c \in Id |-> IF rows[c] = NoRow \/ Key(rows, c) \notin Mergeables(rows) THEN rows[c]
                ELSE MergeGroup(rows, Key(rows, c))[c]]

(* reports_to_contact_id.  Whoever reports to a victim reports to the survivor, *)
(* except the survivor itself: what it has, or else what it takes over from the *)
(* oldest victim that has one (a victim's own is moved with all others while   *)
(* older victims are merged), is written back as it was read.                  *)
Chart(rows) ==
  LET gone == {v \in Id : Repoint(rows, v) # v}
      Kept(c) ==
        LET victims == {v \in gone : Repoint(rows, v) = c}
            heirs   == {v \in victims : reports[v] # None}
            heir    == First(heirs)
        IN  IF reports[c] # None \/ heirs = {} THEN reports[c]
            ELSE IF reports[heir] \in victims /\ reports[heir] < heir THEN c ELSE reports[heir]
  IN  [c \in Id |->
        IF c \in gone THEN None
        ELSE IF Repoint(rows, Kept(c)) = c THEN Kept(c) ELSE Repoint(rows, Kept(c))]

(* dedupeCompanyContacts as a whole.                                         *)
DedupeContacts ==
  /\ contact' = Deduped(contact)
  /\ reports' = Chart(contact)
  /\ refers'  = [d \in Deal |-> Repoint(contact, refers[d])]
  /\ into'    = [c \in Id |-> IF c \in Rows /\ Repoint(contact, c) = c THEN None
                              ELSE Repoint(contact, IF c \in Rows THEN c ELSE into[c])]
  /\ UNCHANGED removed
-----------------------------------------------------------------------------
(* The CRM pages. *)

(* POST /companies/:id/contacts: what is typed here has no provenance.       *)
CreateContact(n, v, superior) ==
  /\ Unused # {} /\ superior \in Rows \cup {None}
  /\ contact' = [contact EXCEPT ![First(Unused)] =
       Inserted([name |-> n, zh |-> None, val |-> v], FALSE)]
  /\ reports' = [reports EXCEPT ![First(Unused)] = superior]
  /\ UNCHANGED <<refers, removed, into>>

(* PATCH /contacts/:id: applyHumanUpdate sets the field, or empties it, and   *)
(* records who did.                                                           *)
HumanUpdate(c, f, v) ==
  /\ c \in Rows
  /\ contact' = [contact EXCEPT ![c].val[f] = v, ![c].prov[f] = [trusted |-> TRUE, value |-> v]]
  /\ UNCHANGED <<reports, refers, removed, into>>

HumanRename(c, n) ==
  /\ c \in Rows
  /\ contact' = [contact EXCEPT ![c].name = n, ![c].set = @ \cup {"fullName"}]
  /\ UNCHANGED <<reports, refers, removed, into>>

HumanRenameZh(c, zh) ==
  /\ c \in Rows
  /\ contact' = [contact EXCEPT ![c].zh = zh, ![c].set = @ \cup {"fullNameZh"}]
  /\ UNCHANGED <<reports, refers, removed, into>>

SetSuperior(c, superior) ==
  /\ c \in Rows /\ superior \in (Rows \cup {None}) \ {c}
  /\ reports' = [reports EXCEPT ![c] = superior]
  /\ contact' = [contact EXCEPT ![c].set = @ \cup {"reportsToContactId"}]
  /\ UNCHANGED <<refers, removed, into>>

(* draftPersona, when the model's answer is there: applyAiDraft overwrites     *)
(* what no human has filled or confirmed.  Titles are not among what it drafts. *)
AiDraft(c, v) ==
  /\ c \in Rows /\ v # {} /\ "email" \notin Trusted(contact[c])
  /\ contact' = [contact EXCEPT ![c].val["email"] = v, ![c].prov["email"] = [trusted |-> FALSE, value |-> v]]
  /\ UNCHANGED <<reports, refers, removed, into>>

(* POST /provenance/confirm.                                                 *)
Confirm(c, f) ==
  /\ c \in Rows /\ contact[c].prov[f] # NoProvenance
  /\ contact' = [contact EXCEPT ![c].prov[f].trusted = TRUE]
  /\ UNCHANGED <<reports, refers, removed, into>>

(* DELETE /contacts/:id moves no reference.                                  *)
DeleteContact(c) ==
  /\ c \in Rows
  /\ contact' = [contact EXCEPT ![c] = NoRow] /\ removed' = removed \cup {c}
  /\ reports' = [reports EXCEPT ![c] = None]
  /\ UNCHANGED <<refers, into>>

Refer(d, c) ==
  /\ c \in Rows /\ refers' = [refers EXCEPT ![d] = c] /\ UNCHANGED <<contact, reports, removed, into>>
=============================================================================

------------------------------ MODULE Membership ------------------------------
(***************************************************************************)
(* Accounts, organisations and invites: auth/routes.ts and provision.ts,      *)
(* org-routes/index.ts and the repositories under them.  Signing in for the   *)
(* first time makes a user, an organisation of its own and an owner           *)
(* membership; an invite makes a member of somebody else's organisation;      *)
(* managers change and remove roles.                                          *)
(*                                                                           *)
(* A request is a few steps with an await between them.  On better-sqlite3    *)
(* (Serial) a query is over at once and a handler that awaits nothing else    *)
(* runs through; on Postgres the steps of two requests interleave, also       *)
(* inside a transaction, which reads what is committed.                       *)
(***************************************************************************)
EXTENDS Naturals, FiniteSets, Sequences

CONSTANTS
  Person,    \* the people, one email each; the organisation of a first sign-in has its maker's name
  Invite,    \* bound: the invites there can be
  Request,   \* bound: requests in progress at a time
  Serial,    \* the database is better-sqlite3
  Nobody     \* no token

ASSUME MembershipAssumption == Serial \in BOOLEAN /\ Nobody \notin Person

VARIABLES
  account,   \* users: the rows there are, by email
  homes,     \* orgs: the rows each first sign-in has left
  role,      \* memberships: organisation, user -> role
  joined,    \* the organisations of each user, the earliest membership first
  session,   \* the organisation of the token each person holds
  invite,    \* invites
  request    \* requests in progress, with what they have read

vars == <<account, homes, role, joined, session, invite, request>>

Role    == {"owner", "admin", "member"}
Manager == {"owner", "admin"}

NoRequest == [step |-> "idle"]
NoInvite  == [state |-> "none"]

InviteRow == [state : {"pending", "accepted", "expired", "deleted"},
              org : Person, email : Person, role : {"admin", "member"}]

Progress ==
  [step : {"hash"}, by : Person] \cup [step : {"join"}, by : Person, invite : Invite]
    \cup [step : {"guard", "write"}, by : Person, org : Person, target : Person,
          to : Role \cup {"none"}]

TypeOK ==
  /\ account \subseteq Person /\ homes \in [Person -> 0..2]
  /\ role \in [Person -> [Person -> Role \cup {"none"}]]
  /\ joined \in [Person -> Seq(Person)]
  /\ session \in [Person -> Person \cup {Nobody}]
  /\ invite \in [Invite -> InviteRow \cup {NoInvite}]
  /\ request \in [Request -> Progress \cup {NoRequest}]

Init ==
  /\ account = {} /\ homes = [p \in Person |-> 0]
  /\ role = [o \in Person |-> [p \in Person |-> "none"]]
  /\ joined = [p \in Person |-> <<>>] /\ session = [p \in Person |-> Nobody]
  /\ invite = [i \in Invite |-> NoInvite] /\ request = [r \in Request |-> NoRequest]
-----------------------------------------------------------------------------
(* A handler between two queries holds the thread on better-sqlite3; one     *)
(* that waits for bcrypt does not.                                           *)
Between(r) == request[r].step \in {"guard", "write", "join"}
Free(r) == Serial => \A s \in Request \ {r} : ~Between(s)

Begin(r, what)  == request[r] = NoRequest /\ Free(r) /\ request' = [request EXCEPT ![r] = what]
Quick           == (Serial => \A s \in Request : ~Between(s)) /\ UNCHANGED request
Over(r)         == request' = [request EXCEPT ![r] = NoRequest]

Owners(o) == {p \in Person : role[o][p] = "owner"}

(* findPrimaryOrgOf: login gives a token for the earliest membership.        *)
LogIn(p) ==
  /\ p \in account /\ joined[p] # <<>>
  /\ session' = [session EXCEPT ![p] = Head(joined[p])]
  /\ Quick /\ UNCHANGED <<account, homes, role, joined, invite>>

(* register and the first Google sign-in: no row with the email, then the    *)
(* password (or a random one) is hashed.                                     *)
SignUp(r, p) ==
  /\ p \notin account
  /\ Begin(r, [step |-> "hash", by |-> p])
  /\ UNCHANGED <<account, homes, role, joined, session, invite>>

(* createUserWithOrg: organisation, user and owner in one transaction; the   *)
(* second of two sign-ups breaks UNIQUE(email) and leaves nothing: register  *)
(* answers 409, Google finds the user there is.                              *)
OrgInTx(p) == IF p \in account THEN homes ELSE [homes EXCEPT ![p] = @ + 1]

CreateUserWithOrg(r) ==
  /\ request[r].step = "hash" /\ Free(r)
  /\ LET p == request[r].by
     IN  /\ homes' = OrgInTx(p)
         /\ IF p \in account THEN UNCHANGED <<account, role, joined>>
            ELSE /\ account' = account \cup {p}
                 /\ role' = [role EXCEPT ![p][p] = "owner"]
                 /\ joined' = [joined EXCEPT ![p] = <<p>>]
         /\ \/ session' = [session EXCEPT ![p] = IF joined'[p] = <<>> THEN Nobody ELSE Head(joined'[p])]
            \/ p \in account /\ UNCHANGED session
  /\ Over(r) /\ UNCHANGED invite
-----------------------------------------------------------------------------
(* requireManager reads the role that counts, not the one in the token.      *)
Authority(p) == IF session[p] = Nobody THEN "none" ELSE role[session[p]][p]

CreateInvite(p, i, email, as) ==
  /\ Authority(p) \in Manager /\ invite[i] = NoInvite
  /\ invite' = [invite EXCEPT ![i] = [state |-> "pending", org |-> session[p], email |-> email, role |-> as]]
  /\ Quick /\ UNCHANGED <<account, homes, role, joined, session>>

DeleteInvite(p, i) ==
  /\ Authority(p) \in Manager
  /\ invite[i] # NoInvite /\ invite[i].org = session[p] /\ invite[i].state # "deleted"
  /\ invite' = [invite EXCEPT ![i].state = "deleted"]
  /\ Quick /\ UNCHANGED <<account, homes, role, joined, session>>

Expire(i) ==
  /\ invite[i].state = "pending" /\ invite' = [invite EXCEPT ![i].state = "expired"]
  /\ Quick /\ UNCHANGED <<account, homes, role, joined, session>>

(* POST /invites/accept up to the transaction: the invite is there, was not  *)
(* accepted and has not expired, its email is the caller's and the caller is *)
(* not a member.  Mutant: an accepted invite is good for another time.       *)
UsableAgain(i) == invite[i].state \in {"pending", "accepted"}

Usable(i) == invite[i].state = "pending"

Accept(r, p, i) ==
  /\ session[p] # Nobody
  /\ Usable(i) /\ invite[i].email = p /\ role[invite[i].org][p] = "none"
  /\ Begin(r, [step |-> "join", by |-> p, invite |-> i])
  /\ UNCHANGED <<account, homes, role, joined, session, invite>>

(* The transaction: a second membership of the pair breaks the primary key   *)
(* and the whole of it is undone; an invite deleted meanwhile is not seen.   *)
Join(r) ==
  /\ request[r].step = "join" /\ Free(r)
  /\ LET i == request[r].invite
         p == request[r].by
         o == invite[i].org
     IN  IF role[o][p] # "none" THEN UNCHANGED <<role, joined, invite>>
         ELSE /\ role' = [role EXCEPT ![o][p] = invite[i].role]
              /\ joined' = [joined EXCEPT ![p] = Append(@, o)]
              /\ invite' = [invite EXCEPT ![i].state = IF @ = "deleted" THEN @ ELSE "accepted"]
  /\ Over(r) /\ UNCHANGED <<account, homes, session>>
-----------------------------------------------------------------------------
(* PATCH and DELETE /members/:userId up to the transaction ("none" is the    *)
(* removal): a manager asks, and only an owner for what touches an owner.    *)
TouchesOwner(o, target, to) == to = "owner" \/ role[o][target] = "owner"

ChangeMember(r, p, target, to) ==
  /\ Authority(p) \in Manager
  /\ TouchesOwner(session[p], target, to) => Authority(p) = "owner"
  /\ Begin(r, [step |-> "guard", by |-> p, org |-> session[p], target |-> target, to |-> to])
  /\ UNCHANGED <<account, homes, role, joined, session, invite>>

(* updateRole and remove read the target's role and count the owners.        *)
(* Mutant: one owner too few is enough.                                      *)
AnyOwner(o) == Cardinality(Owners(o)) < 1

LastOwner(o) == Cardinality(Owners(o)) <= 1

Guard(r) ==
  /\ request[r].step = "guard" /\ Free(r)
  /\ LET q == request[r]
         is == role[q.org][q.target]
     IN  IF is = "none" \/ (is = "owner" /\ q.to # "owner" /\ LastOwner(q.org))
         THEN Over(r)
         ELSE request' = [request EXCEPT ![r].step = "write"]
  /\ UNCHANGED <<account, homes, role, joined, session, invite>>

Write(r) ==
  /\ request[r].step = "write" /\ Free(r)
  /\ LET q == request[r]
     IN  IF role[q.org][q.target] = "none" THEN UNCHANGED <<role, joined>>
         ELSE /\ role' = [role EXCEPT ![q.org][q.target] = q.to]
              /\ IF q.to # "none" THEN UNCHANGED joined
                 ELSE \E n \in 1..Len(joined[q.target]) :
                        /\ joined[q.target][n] = q.org
                        /\ joined' = [joined EXCEPT ![q.target] = SubSeq(@, 1, n - 1) \o SubSeq(@, n + 1, Len(@))]
  /\ Over(r) /\ UNCHANGED <<account, homes, session, invite>>
-----------------------------------------------------------------------------
Next ==
  \/ \E p \in Person :
       \/ LogIn(p)
       \/ \E i \in Invite : \/ \E email \in Person, as \in {"admin", "member"} : CreateInvite(p, i, email, as)
                            \/ DeleteInvite(p, i)
  \/ \E i \in Invite : Expire(i)
  \/ \E r \in Request :
       \/ \E p \in Person :
            \/ SignUp(r, p)
            \/ \E i \in Invite : Accept(r, p, i)
            \/ \E target \in Person, to \in Role \cup {"none"} : ChangeMember(r, p, target, to)
       \/ CreateUserWithOrg(r) \/ Join(r) \/ Guard(r) \/ Write(r)

Spec == Init /\ [][Next]_vars
-----------------------------------------------------------------------------
(* Safety *)

(* Every organisation has an owner at all times: the last one is neither     *)
(* removed nor demoted, also when two owners act on each other at once       *)
(* (repos-invites.ts: an organisation always has at least one owner). And no *)
(* organisation is left without the user it was made for: two first sign-ins *)
(* of one person, both past the look-up, leave one user and one organisation.*)
OrgHasOwner == \A o \in Person :
  /\ homes[o] > 0 => Owners(o) # {}
  /\ homes[o] = IF o \in account THEN 1 ELSE 0

(* Nobody enters somebody else's organisation but by an invite that, when    *)
(* the membership is made, is neither used, nor expired, nor taken back.     *)
OnlyInvitedJoin ==
  [][\A o, p \in Person :
       o # p /\ role[o][p] = "none" /\ role'[o][p] # "none" =>
         \E i \in Invite : /\ invite[i] # NoInvite /\ invite[i].state = "pending"
                           /\ invite[i].org = o /\ invite[i].email = p]_vars
=============================================================================

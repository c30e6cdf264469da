------------------------------ MODULE CrmProofs ------------------------------
(***************************************************************************)
(* What the CRM guarantees.                                                 *)
(*                                                                          *)
(* First part, Membership: for any number of people, invites and requests,  *)
(* type correctness on either driver; that every organisation keeps an      *)
(* owner, and that nobody enters one without a valid invite, when a handler *)
(* is not interrupted between two of its queries (Serial, the               *)
(* single-connection SQLite driver).                                        *)
(*                                                                          *)
(* Second part, ResearchRuns with the contacts of Contacts: for any number  *)
(* of rows and jobs, with workers and the presenter interleaved in any way, *)
(* no reference dangles, what a human typed is kept by merges, a company's  *)
(* rows are one per person when its dedupe is over, and a job's outcome is  *)
(* written once.                                                            *)
(***************************************************************************)
EXTENDS Membership, ResearchRuns, FiniteSetTheorems, SequenceTheorems, WellFoundedInduction,
        TLAPS

(* The steps of requests.                                                   *)
RequestStep(r) ==
  \/ \E p \in Person :
       \/ SignUp(r, p)
       \/ \E i \in Invite : Accept(r, p, i)
       \/ \E target \in Person, to \in Role \cup {"none"} : ChangeMember(r, p, target, to)
  \/ CreateUserWithOrg(r) \/ Join(r) \/ Guard(r) \/ Write(r)

(* The steps that are over at once.                                         *)
QuickStep ==
  \/ \E p \in Person :
       \/ LogIn(p)
       \/ \E i \in Invite : \/ \E email \in Person, as \in {"admin", "member"} : CreateInvite(p, i, email, as)
                            \/ DeleteInvite(p, i)
  \/ \E i \in Invite : Expire(i)

LEMMA StepKinds == Next <=> QuickStep \/ \E r \in Request : RequestStep(r)
BY DEF Next, QuickStep, RequestStep
-----------------------------------------------------------------------------
(* A membership row is taken out.                                           *)
LEMMA RowRemoved ==
  ASSUME NEW S, NEW s \in Seq(S), NEW n \in 1..Len(s)
  PROVE  SubSeq(s, 1, n - 1) \o SubSeq(s, n + 1, Len(s)) \in Seq(S)
<1>1. SubSeq(s, 1, n - 1) \in Seq(S)
  BY SubSeqProperties
<1>2. SubSeq(s, n + 1, Len(s)) \in Seq(S)
  BY SubSeqProperties
<1> QED BY <1>1, <1>2, ConcatProperties

(* What types rest on: a first sign-in leaves one organisation, and an       *)
(* invite that a request is about is in its table.                          *)
HomesOK   == \A o \in Person : homes[o] = IF o \in account THEN 1 ELSE 0
InvitesOK == \A r \in Request : request[r].step = "join" => invite[request[r].invite] # NoInvite
TypeInv   == TypeOK /\ HomesOK /\ InvitesOK

LEMMA TypeInit == Init => TypeInv
BY DEF Init, TypeInv, TypeOK, HomesOK, InvitesOK, NoRequest

(* One entry of a table is written.                                         *)
LEMMA RoleWritten ==
  ASSUME TypeOK, NEW o \in Person, NEW p \in Person, NEW is \in Role \cup {"none"}
  PROVE  [role EXCEPT ![o][p] = is] \in [Person -> [Person -> Role \cup {"none"}]]
<1> DEFINE R == Role \cup {"none"}
<1>1. role \in [Person -> [Person -> R]]
  BY DEF TypeOK
<1>2. is \in R
  OBVIOUS
<1> HIDE DEF R
<1>3. [role EXCEPT ![o][p] = is] \in [Person -> [Person -> R]]
  BY <1>1, <1>2
<1> QED BY <1>3 DEF R

(* What a request in progress carries.                                      *)
LEMMA RequestShape ==
  ASSUME TypeOK, NEW r \in Request
  PROVE  /\ request[r].step = "hash" => request[r].by \in Person
         /\ request[r].step = "join" => request[r].by \in Person /\ request[r].invite \in Invite
         /\ request[r].step \in {"guard", "write"} =>
              /\ request[r].org \in Person /\ request[r].target \in Person
              /\ request[r].to \in Role \cup {"none"}
              /\ [request[r] EXCEPT !.step = "write"] \in Progress
              /\ [request[r] EXCEPT !.step = "write"].step = "write"
<1>1. request[r] \in Progress \cup {NoRequest}
  BY DEF TypeOK
<1>2. CASE request[r] \in [step : {"hash"}, by : Person]
  BY <1>2
<1>3. CASE request[r] \in [step : {"join"}, by : Person, invite : Invite]
  BY <1>3
<1>4. CASE request[r] \in [step : {"guard", "write"}, by : Person, org : Person, target : Person,
                           to : Role \cup {"none"}]
  BY <1>4 DEF Progress
<1>5. CASE request[r] = NoRequest
  BY <1>5 DEF NoRequest
<1> QED BY <1>1, <1>2, <1>3, <1>4, <1>5 DEF Progress

(* An invite's row changes its state and stays.                             *)
LEMMA InviteState ==
  ASSUME TypeInv, NEW i \in Invite, NEW state \in {"deleted", "expired"}, invite[i] # NoInvite,
         invite' = [invite EXCEPT ![i].state = state],
         UNCHANGED <<account, homes, role, joined, session, request>>
  PROVE  TypeInv'
<1>1. invite[i] \in InviteRow
  BY DEF TypeInv, TypeOK
<1>2. [invite[i] EXCEPT !.state = state] \in InviteRow
  BY <1>1 DEF InviteRow
<1>3. InviteRow \cap {NoInvite} = {}
  BY DEF InviteRow, NoInvite
<1>4. invite' = [invite EXCEPT ![i] = [invite[i] EXCEPT !.state = state]]
  BY DEF TypeInv, TypeOK
<1> HIDE DEF InviteRow, NoInvite
<1>5. TypeOK'
  BY <1>2, <1>4 DEF TypeInv, TypeOK
<1>6. HomesOK'
  BY DEF TypeInv, HomesOK
<1>7. InvitesOK'
  <2>1. \A j \in Invite : invite[j] # NoInvite => invite'[j] # NoInvite
    BY <1>2, <1>3, <1>4 DEF TypeInv, TypeOK
  <2>2. \A r \in Request : request[r].step = "join" => request[r].invite \in Invite
    BY RequestShape DEF TypeInv
  <2> QED BY <2>1, <2>2 DEF TypeInv, InvitesOK
<1> QED BY <1>5, <1>6, <1>7 DEF TypeInv

LEMMA QuickType ==
  ASSUME TypeInv, QuickStep
  PROVE  TypeInv'
<1>1. ASSUME NEW p \in Person, LogIn(p) PROVE TypeInv'
  BY <1>1 DEF TypeInv, HomesOK, InvitesOK, TypeOK, LogIn, Quick
<1>2. ASSUME NEW p \in Person, NEW i \in Invite, NEW email \in Person, NEW as \in {"admin", "member"},
             CreateInvite(p, i, email, as)
      PROVE  TypeInv'
  <2> DEFINE row == [state |-> "pending", org |-> session[p], email |-> email, role |-> as]
  <2>1. session[p] \in Person
    BY <1>2, MembershipAssumption DEF TypeInv, TypeOK, CreateInvite, Authority, Manager
  <2>2. row \in InviteRow /\ row # NoInvite
    BY <2>1 DEF InviteRow, NoInvite
  <2>3. invite' = [invite EXCEPT ![i] = row] /\ UNCHANGED <<account, homes, role, joined, session, request>>
    BY <1>2 DEF CreateInvite, Quick
  <2> HIDE DEF row
  <2> QED BY <2>2, <2>3 DEF TypeInv, HomesOK, InvitesOK, TypeOK
<1>3. ASSUME NEW p \in Person, NEW i \in Invite, DeleteInvite(p, i) PROVE TypeInv'
  BY <1>3, InviteState DEF DeleteInvite, Quick
<1>4. ASSUME NEW i \in Invite, Expire(i) PROVE TypeInv'
  <2>1. invite[i] # NoInvite
    BY <1>4 DEF Expire, NoInvite
  <2> QED BY <1>4, <2>1, InviteState DEF Expire, Quick
<1> QED BY <1>1, <1>2, <1>3, <1>4 DEF QuickStep

LEMMA BeginType ==
  ASSUME TypeInv, NEW r \in Request, NEW what \in Progress,
         what.step = "join" => invite[what.invite] # NoInvite,
         request' = [request EXCEPT ![r] = what],
         UNCHANGED <<account, homes, role, joined, session, invite>>
  PROVE  TypeInv'
BY DEF TypeInv, HomesOK, InvitesOK, TypeOK

LEMMA OverType ==
  ASSUME TypeInv, NEW r \in Request, Over(r), \A i \in Invite : invite[i] # NoInvite => invite'[i] # NoInvite
  PROVE  request' \in [Request -> Progress \cup {NoRequest}] /\ InvitesOK'
<1>1. request' \in [Request -> Progress \cup {NoRequest}]
  BY DEF TypeInv, TypeOK, Over
<1>2. ASSUME NEW s \in Request, request'[s].step = "join" PROVE invite'[request'[s].invite] # NoInvite
  <2>1. s # r /\ request'[s] = request[s]
    BY <1>2 DEF TypeInv, TypeOK, Over, NoRequest
  <2> QED BY <1>2, <2>1, RequestShape DEF TypeInv, InvitesOK
<1> QED BY <1>1, <1>2 DEF InvitesOK

LEMMA RequestType ==
  ASSUME TypeInv, NEW r \in Request, RequestStep(r)
  PROVE  TypeInv'
<1>0. TypeOK BY DEF TypeInv
<1>1. ASSUME NEW p \in Person, SignUp(r, p) PROVE TypeInv'
  <2>1. [step |-> "hash", by |-> p] \in Progress
    BY DEF Progress
  <2> QED BY <1>1, <2>1, BeginType DEF SignUp, Begin
<1>2. ASSUME NEW p \in Person, NEW i \in Invite, Accept(r, p, i) PROVE TypeInv'
  <2>1. [step |-> "join", by |-> p, invite |-> i] \in Progress
    BY DEF Progress
  <2>2. invite[i] # NoInvite
    BY <1>2 DEF Accept, Usable, NoInvite
  <2> QED BY <1>2, <2>1, <2>2, BeginType DEF Accept, Begin
<1>3. ASSUME NEW p \in Person, NEW target \in Person, NEW to \in Role \cup {"none"},
             ChangeMember(r, p, target, to)
      PROVE  TypeInv'
  <2>1. session[p] \in Person
    BY <1>3, MembershipAssumption DEF TypeInv, TypeOK, ChangeMember, Authority, Manager
  <2>2. [step |-> "guard", by |-> p, org |-> session[p], target |-> target, to |-> to] \in Progress
    BY <2>1 DEF Progress
  <2> QED BY <1>3, <2>2, BeginType DEF ChangeMember, Begin
<1>4. CASE CreateUserWithOrg(r)
  <2> DEFINE p == request[r].by
  <2>1. p \in Person
    BY <1>0, <1>4, RequestShape DEF CreateUserWithOrg
  <2>2. request' \in [Request -> Progress \cup {NoRequest}] /\ InvitesOK'
    BY <1>4, OverType DEF CreateUserWithOrg
  <2>3. homes' \in [Person -> 0..2] /\ account' \subseteq Person /\ HomesOK'
    BY <1>4, <2>1 DEF TypeInv, TypeOK, HomesOK, CreateUserWithOrg, OrgInTx
  <2>4. role' \in [Person -> [Person -> Role \cup {"none"}]]
    <3>1. role' = role \/ role' = [role EXCEPT ![p][p] = "owner"]
      BY <1>4 DEF CreateUserWithOrg
    <3>2. [role EXCEPT ![p][p] = "owner"] \in [Person -> [Person -> Role \cup {"none"}]]
      BY <1>0, <2>1, RoleWritten DEF Role
    <3> QED BY <1>0, <3>1, <3>2 DEF TypeOK
  <2>5. joined' \in [Person -> Seq(Person)]
    <3>1. <<p>> \in Seq(Person)
      BY <2>1
    <3> QED BY <1>4, <2>1, <3>1 DEF TypeInv, TypeOK, CreateUserWithOrg
  <2>6. session' \in [Person -> Person \cup {Nobody}]
    <3>1. joined'[p] # <<>> => Head(joined'[p]) \in Person
      BY <2>1, <2>5
    <3> QED BY <1>4, <2>1, <3>1 DEF TypeInv, TypeOK, CreateUserWithOrg
  <2>7. invite' = invite
    BY <1>4 DEF CreateUserWithOrg
  <2> QED BY <1>0, <2>2, <2>3, <2>4, <2>5, <2>6, <2>7 DEF TypeInv, TypeOK
<1>5. CASE Join(r)
  <2> DEFINE i == request[r].invite
             p == request[r].by
  <2>1. p \in Person /\ i \in Invite /\ invite[i] # NoInvite
    BY <1>0, <1>5, RequestShape DEF TypeInv, InvitesOK, Join
  <2>2. invite[i] \in InviteRow
    BY <1>0, <2>1 DEF TypeOK
  <2>3. invite[i].org \in Person /\ invite[i].role \in Role
    BY <2>2 DEF InviteRow, Role
  <2>4. \A state \in {"accepted", "deleted"} :
          [invite[i] EXCEPT !.state = state] \in InviteRow /\ [invite[i] EXCEPT !.state = state] # NoInvite
    BY <2>2 DEF InviteRow, NoInvite
  <2>5. \/ invite' = invite
        \/ \E state \in {"accepted", "deleted"} : invite' = [invite EXCEPT ![i] = [invite[i] EXCEPT !.state = state]]
    BY <1>0, <1>5, <2>1 DEF TypeOK, Join
  <2>6. invite' \in [Invite -> InviteRow \cup {NoInvite}]
        /\ \A j \in Invite : invite[j] # NoInvite => invite'[j] # NoInvite
    BY <1>0, <2>1, <2>4, <2>5 DEF TypeOK
  <2>7. request' \in [Request -> Progress \cup {NoRequest}] /\ InvitesOK'
    BY <1>5, <2>6, OverType DEF Join
  <2>8. role' \in [Person -> [Person -> Role \cup {"none"}]]
    <3>1. role' = role \/ role' = [role EXCEPT ![invite[i].org][p] = invite[i].role]
      BY <1>5 DEF Join
    <3>2. [role EXCEPT ![invite[i].org][p] = invite[i].role] \in [Person -> [Person -> Role \cup {"none"}]]
      BY <1>0, <2>1, <2>3, RoleWritten
    <3> QED BY <1>0, <3>1, <3>2 DEF TypeOK
  <2>9. joined' \in [Person -> Seq(Person)]
    <3>1. Append(joined[p], invite[i].org) \in Seq(Person)
      BY <1>0, <2>1, <2>3 DEF TypeOK
    <3> QED BY <1>0, <1>5, <2>1, <3>1 DEF TypeOK, Join
  <2>10. UNCHANGED <<account, homes, session>>
    BY <1>5 DEF Join
  <2> QED BY <1>0, <2>6, <2>7, <2>8, <2>9, <2>10 DEF TypeInv, TypeOK, HomesOK
<1>6. CASE Guard(r)
  <2>1. UNCHANGED <<account, homes, role, joined, session, invite>>
    BY <1>6 DEF Guard
  <2>2. CASE Over(r)
    BY <1>0, <2>1, <2>2, OverType DEF TypeInv, TypeOK, HomesOK
  <2>3. CASE request' = [request EXCEPT ![r].step = "write"]
    <3>1. [request[r] EXCEPT !.step = "write"] \in Progress
      BY <1>0, <1>6, RequestShape DEF Guard
    <3>2. [request[r] EXCEPT !.step = "write"].step = "write"
      BY <3>1, <1>6, <1>0 DEF Guard, TypeOK, Progress, NoRequest
    <3>3. request' = [request EXCEPT ![r] = [request[r] EXCEPT !.step = "write"]]
      BY <2>3, <1>0 DEF TypeOK
    <3> QED BY <2>1, <3>1, <3>2, <3>3, BeginType
  <2> QED BY <1>6, <2>2, <2>3 DEF Guard
<1>7. CASE Write(r)
  <2> DEFINE q == request[r]
  <2>1. q.org \in Person /\ q.target \in Person /\ q.to \in Role \cup {"none"}
    BY <1>0, <1>7, RequestShape DEF Write
  <2>2. UNCHANGED <<account, homes, session, invite>> /\ Over(r)
    BY <1>7 DEF Write
  <2>3. request' \in [Request -> Progress \cup {NoRequest}] /\ InvitesOK'
    BY <2>2, OverType
  <2>4. role' \in [Person -> [Person -> Role \cup {"none"}]]
    <3>1. role' = role \/ role' = [role EXCEPT ![q.org][q.target] = q.to]
      BY <1>7 DEF Write
    <3>2. [role EXCEPT ![q.org][q.target] = q.to] \in [Person -> [Person -> Role \cup {"none"}]]
      BY <1>0, <2>1, RoleWritten
    <3> QED BY <1>0, <3>1, <3>2 DEF TypeOK
  <2>5. joined' \in [Person -> Seq(Person)]
    <3>1. joined[q.target] \in Seq(Person)
      BY <1>0, <2>1 DEF TypeOK
    <3>2. CASE joined' = joined
      BY <1>0, <3>2 DEF TypeOK
    <3>3. CASE joined' # joined
      <4>1. PICK n \in 1..Len(joined[q.target]) :
              joined' = [joined EXCEPT ![q.target] = SubSeq(@, 1, n - 1) \o SubSeq(@, n + 1, Len(@))]
        BY <1>7, <3>3 DEF Write
      <4> DEFINE left == SubSeq(joined[q.target], 1, n - 1)
                           \o SubSeq(joined[q.target], n + 1, Len(joined[q.target]))
      <4>2. left \in Seq(Person)
        BY <3>1, RowRemoved
      <4>3. joined' = [joined EXCEPT ![q.target] = left]
        BY <4>1
      <4> HIDE DEF left
      <4> QED BY <1>0, <4>2, <4>3 DEF TypeOK
    <3> QED BY <3>2, <3>3
  <2> QED BY <1>0, <2>2, <2>3, <2>4, <2>5 DEF TypeInv, TypeOK, HomesOK
<1> QED BY <1>1, <1>2, <1>3, <1>4, <1>5, <1>6, <1>7 DEF RequestStep

LEMMA TypeStep == TypeInv /\ [Next]_vars => TypeInv'
<1>1. CASE UNCHANGED vars
  BY <1>1 DEF TypeInv, HomesOK, InvitesOK, TypeOK, vars
<1> QED BY <1>1, QuickType, RequestType, StepKinds

(* Type correctness, on either driver.                                      *)
THEOREM TypeCorrect == Spec => []TypeOK
<1>1. TypeInv => TypeOK
  BY DEF TypeInv
<1> QED BY <1>1, TypeInit, TypeStep, PTL DEF Spec
-----------------------------------------------------------------------------
(* What a handler that is not interrupted keeps: at most one request is      *)
(* between two of its queries, and what it has read is still so.             *)
OneBetween == \A r, s \in Request : Between(r) /\ Between(s) => r = s

ReadHolds(r) ==
  /\ request[r].step = "join" => /\ invite[request[r].invite].state = "pending"
                                 /\ invite[request[r].invite].email = request[r].by
  /\ request[r].step = "write" /\ request[r].to # "owner"
       /\ role[request[r].org][request[r].target] = "owner" => ~LastOwner(request[r].org)

ReadOK == \A r \in Request : ReadHolds(r)

OwnedOK == \A o \in account : Owners(o) # {}

SerialInv == TypeInv /\ OneBetween /\ ReadOK /\ OwnedOK

LEMMA SerialInit == Init => SerialInv
BY TypeInit DEF Init, SerialInv, OneBetween, ReadOK, ReadHolds, OwnedOK, Between, NoRequest

(* More than one owner: another one is left when one goes.                  *)
LEMMA AnotherOwner ==
  ASSUME NEW o \in Person, ~LastOwner(o), NEW t
  PROVE  \E p \in Owners(o) : p # t
<1>1. Owners(o) # {}
  BY FS_EmptySet DEF LastOwner
<1>2. Owners(o) # {t}
  BY FS_Singleton DEF LastOwner
<1> QED BY <1>1, <1>2

(* While a request moves, no other is between two queries.                  *)
LEMMA OthersWait ==
  ASSUME Serial, SerialInv, NEW r \in Request, RequestStep(r)
  PROVE  /\ \A s \in Request \ {r} : ~Between(s) /\ request'[s] = request[s]
         /\ OneBetween'
<1>1. Free(r)
  BY DEF RequestStep, SignUp, Accept, ChangeMember, Begin, CreateUserWithOrg, Join, Guard, Write
<1>2. \A s \in Request \ {r} : ~Between(s)
  BY <1>1 DEF Free
<1>3. \A s \in Request \ {r} : request'[s] = request[s]
  BY DEF SerialInv, TypeInv, TypeOK, RequestStep, SignUp, Accept, ChangeMember, Begin, CreateUserWithOrg,
         Join, Guard, Write, Over
<1>4. OneBetween'
  BY <1>2, <1>3 DEF OneBetween, Between
<1> QED BY <1>2, <1>3, <1>4

(* What r has read is still so after a step of r.                           *)
LEMMA ReadStep ==
  ASSUME Serial, SerialInv, NEW r \in Request, RequestStep(r)
  PROVE  ReadOK'
<1>0. TypeOK
  BY DEF SerialInv, TypeInv
<1>1. SUFFICES ReadHolds(r)'
  BY OthersWait DEF ReadOK, ReadHolds, Between
<1>2. ASSUME NEW p \in Person, SignUp(r, p) PROVE request'[r].step = "hash"
  BY <1>0, <1>2 DEF TypeOK, SignUp, Begin
<1>3. ASSUME NEW p \in Person, NEW i \in Invite, Accept(r, p, i)
      PROVE  /\ request'[r].step = "join" /\ request'[r].invite = i /\ request'[r].by = p
             /\ invite'[i].state = "pending" /\ invite'[i].email = p
  BY <1>0, <1>3 DEF TypeOK, Accept, Begin, Usable
<1>4. ASSUME NEW p \in Person, NEW target \in Person, NEW to \in Role \cup {"none"},
             ChangeMember(r, p, target, to)
      PROVE  request'[r].step = "guard"
  BY <1>0, <1>4 DEF TypeOK, ChangeMember, Begin
<1>5. ASSUME CreateUserWithOrg(r) \/ Join(r) \/ Write(r) \/ Over(r) PROVE request'[r].step = "idle"
  BY <1>0, <1>5 DEF TypeOK, CreateUserWithOrg, Join, Write, Over, NoRequest
<1>6. ASSUME Guard(r), ~Over(r)
      PROVE  /\ request'[r].step = "write"
             /\ ReadHolds(r)'
  <2>1. request' = [request EXCEPT ![r].step = "write"] /\ role' = role
    BY <1>6 DEF Guard
  <2>2. /\ request'[r].step = "write" /\ request'[r].to = request[r].to
        /\ request'[r].org = request[r].org /\ request'[r].target = request[r].target
    <3>1. request'[r] = [request[r] EXCEPT !.step = "write"]
      BY <1>0, <2>1 DEF TypeOK
    <3>2. request[r] \in [step : {"guard", "write"}, by : Person, org : Person, target : Person,
                          to : Role \cup {"none"}]
      BY <1>0, <1>6 DEF TypeOK, Progress, NoRequest, Guard
    <3> QED BY <3>1, <3>2
  <2>3. role[request[r].org][request[r].target] = "owner" /\ request[r].to # "owner" => ~LastOwner(request[r].org)
    BY <1>6 DEF Guard
  <2> QED BY <2>1, <2>2, <2>3 DEF ReadHolds, LastOwner, Owners
<1> QED BY <1>2, <1>3, <1>4, <1>5, <1>6 DEF RequestStep, ReadHolds

(* Nobody is left without an owner by a step of r.                          *)
LEMMA OwnedStep ==
  ASSUME SerialInv, NEW r \in Request, RequestStep(r)
  PROVE  OwnedOK'
<1>0. TypeOK
  BY DEF SerialInv, TypeInv
<1>1. ASSUME UNCHANGED <<account, role>> PROVE OwnedOK'
  BY <1>1 DEF SerialInv, OwnedOK, Owners
<1>2. CASE CreateUserWithOrg(r)
  <2>1. PICK p \in Person : p = request[r].by
    BY <1>0, <1>2, RequestShape DEF CreateUserWithOrg
  <2>2. CASE UNCHANGED <<account, role>>
    BY <2>2, <1>1
  <2>3. CASE account' = account \cup {p} /\ role' = [role EXCEPT ![p][p] = "owner"]
    <3>1. ASSUME NEW o \in Person, NEW t \in Owners(o) PROVE t \in Owners(o)'
      BY <1>0, <2>1, <2>3, <3>1 DEF TypeOK, Owners
    <3>2. p \in Owners(p)'
      BY <1>0, <2>1, <2>3 DEF TypeOK, Owners
    <3>3. account \subseteq Person
      BY <1>0 DEF TypeOK
    <3> QED BY <2>3, <3>1, <3>2, <3>3 DEF SerialInv, OwnedOK
  <2> QED BY <1>2, <2>1, <2>2, <2>3 DEF CreateUserWithOrg
<1>3. CASE Join(r)
  <2> DEFINE p == request[r].by
             o == invite[request[r].invite].org
  <2>1. account' = account
    BY <1>3 DEF Join
  <2>2. CASE role' = role
    BY <2>1, <2>2, <1>1
  <2>3. CASE role[o][p] = "none" /\ role' = [role EXCEPT ![o][p] = invite[request[r].invite].role]
    <3>1. ASSUME NEW x \in Person, NEW t \in Owners(x) PROVE t \in Owners(x)'
      BY <1>0, <2>3, <3>1 DEF TypeOK, Owners
    <3>2. account \subseteq Person
      BY <1>0 DEF TypeOK
    <3> QED BY <2>1, <3>1, <3>2 DEF SerialInv, OwnedOK
  <2> QED BY <1>3, <2>2, <2>3 DEF Join
<1>4. CASE Write(r)
  <2>0. account' = account /\ request[r].org \in Person /\ request[r].target \in Person
    BY <1>0, <1>4, RequestShape DEF Write
  <2>1. PICK org \in Person, target \in Person, to \in {request[r].to} :
          request[r].org = org /\ request[r].target = target
    BY <2>0
  <2>2. CASE role' = role
    BY <2>0, <2>2, <1>1
  <2>3. CASE role' = [role EXCEPT ![org][target] = to]
    <3>1. ASSUME NEW x \in Person, NEW t \in Owners(x), x # org \/ t # target PROVE t \in Owners(x)'
      BY <1>0, <2>1, <2>3, <3>1 DEF TypeOK, Owners
    <3>2. to = "owner" => target \in Owners(org)'
      BY <1>0, <2>1, <2>3 DEF TypeOK, Owners
    <3>3. to # "owner" /\ target \in Owners(org) => ~LastOwner(org)
      BY <1>4, <2>1 DEF SerialInv, ReadOK, ReadHolds, Write, Owners
    <3>4. to # "owner" /\ target \in Owners(org) => \E t \in Owners(org) : t # target
      BY <2>1, <3>3, AnotherOwner
    <3>5. ASSUME NEW x \in account PROVE Owners(x)' # {}
      <4>1. x \in Person /\ Owners(x) # {}
        BY <1>0 DEF TypeOK, SerialInv, OwnedOK
      <4> QED BY <3>1, <3>2, <3>4, <4>1
    <3> QED BY <2>0, <3>5 DEF OwnedOK
  <2> QED BY <1>4, <2>1, <2>2, <2>3 DEF Write
<1>5. CASE UNCHANGED <<account, role>>
  BY <1>1, <1>5
<1> QED BY <1>2, <1>3, <1>4, <1>5 DEF RequestStep, SignUp, Accept, ChangeMember, Guard

LEMMA SerialStep == Serial /\ SerialInv /\ [Next]_vars => SerialInv'
<1> SUFFICES ASSUME Serial, SerialInv, [Next]_vars PROVE SerialInv'
  OBVIOUS
<1>1. TypeInv'
  BY TypeStep DEF SerialInv
<1>2. ASSUME QuickStep PROVE SerialInv'
  <2>1. UNCHANGED <<account, role, request>> /\ \A s \in Request : ~Between(s)
    BY <1>2 DEF QuickStep, LogIn, CreateInvite, DeleteInvite, Expire, Quick
  <2>2. \A s \in Request : request'[s].step \notin {"guard", "write", "join"}
    BY <2>1 DEF Between
  <2>3. OneBetween' /\ ReadOK'
    BY <2>2 DEF OneBetween, ReadOK, ReadHolds, Between
  <2>4. OwnedOK'
    BY <2>1 DEF SerialInv, OwnedOK, Owners
  <2> QED BY <1>1, <2>3, <2>4 DEF SerialInv
<1>3. ASSUME NEW r \in Request, RequestStep(r) PROVE SerialInv'
  BY <1>1, <1>3, OthersWait, ReadStep, OwnedStep DEF SerialInv
<1>4. CASE UNCHANGED vars
  BY <1>1, <1>4 DEF SerialInv, OneBetween, ReadOK, ReadHolds, OwnedOK, Between, LastOwner, Owners, vars
<1> QED BY <1>2, <1>3, <1>4, StepKinds

(* Every organisation keeps an owner, and has the user it was made for:     *)
(* repos-invites.ts, updateRole and remove, when nothing comes between the   *)
(* count of the owners and the write.                                       *)
THEOREM OwnerStays == ASSUME Serial PROVE Spec => []OrgHasOwner
<1>1. SerialInv => OrgHasOwner
  BY DEF SerialInv, TypeInv, HomesOK, OwnedOK, OrgHasOwner
<1> QED BY <1>1, SerialInit, SerialStep, PTL DEF Spec

(* Nobody enters somebody else's organisation but by an invite that is good  *)
(* at that moment.                                                           *)
THEOREM JoinIsInvited == ASSUME Serial PROVE Spec => OnlyInvitedJoin
<1> DEFINE Invited == \A o, p \in Person :
             o # p /\ role[o][p] = "none" /\ role'[o][p] # "none" =>
               \E i \in Invite : /\ invite[i] # NoInvite /\ invite[i].state = "pending"
                                 /\ invite[i].org = o /\ invite[i].email = p
<1>1. Serial /\ SerialInv /\ [Next]_vars => [Invited]_vars
  <2> SUFFICES ASSUME Serial, SerialInv, Next, NEW o \in Person, NEW p \in Person,
                      o # p, role[o][p] = "none", role'[o][p] # "none"
               PROVE  \E i \in Invite : /\ invite[i] # NoInvite /\ invite[i].state = "pending"
                                        /\ invite[i].org = o /\ invite[i].email = p
    OBVIOUS
  <2>0. TypeOK
    BY DEF SerialInv, TypeInv
  <2>1. PICK r \in Request : RequestStep(r)
    BY StepKinds DEF QuickStep, LogIn, CreateInvite, DeleteInvite, Expire
  <2>2. CASE CreateUserWithOrg(r)
    <3>1. request[r].by \in Person
      BY <2>0, <2>2, RequestShape DEF CreateUserWithOrg
    <3>2. role' = [role EXCEPT ![request[r].by][request[r].by] = "owner"]
      BY <2>2 DEF CreateUserWithOrg
    <3>3. role'[o][p] = role[o][p]
      BY <2>0, <3>1, <3>2 DEF TypeOK
    <3> QED BY <3>3
  <2>3. CASE Join(r)
    <3> DEFINE i == request[r].invite
    <3>1. request[r].step = "join" /\ i \in Invite /\ invite[i] # NoInvite /\ invite[i].state = "pending"
          /\ invite[i].email = request[r].by
      BY <2>0, <2>3, RequestShape DEF SerialInv, TypeInv, InvitesOK, ReadOK, ReadHolds, Join
    <3>2. role' = [role EXCEPT ![invite[i].org][request[r].by] = invite[i].role]
      BY <2>3 DEF Join
    <3>3. invite[i].org = o /\ request[r].by = p
      BY <2>0, <3>2 DEF TypeOK
    <3> QED BY <3>1, <3>3
  <2>4. CASE Write(r)
    <3>1. role[request[r].org][request[r].target] # "none"
          /\ role' = [role EXCEPT ![request[r].org][request[r].target] = request[r].to]
      BY <2>4 DEF Write
    <3>2. role'[o][p] = role[o][p]
      BY <2>0, <3>1 DEF TypeOK
    <3> QED BY <3>2
  <2> QED BY <2>1, <2>2, <2>3, <2>4 DEF RequestStep, SignUp, Accept, ChangeMember, Guard
<1> QED BY <1>1, SerialInit, SerialStep, PTL DEF Spec, OnlyInvitedJoin
-----------------------------------------------------------------------------
(* Second part: ResearchRuns and Contacts.                                  *)

(* The contacts table, and the ids there is a row under.                     *)
Table == [Id -> ContactRow \cup {NoRow}]
Occupied(rows) == {c \in Id : rows[c] # NoRow}

LEMMA RowKinds == NoRow \notin ContactRow /\ \A row \in ContactRow : row # NoRow
BY DEF NoRow, ContactRow

LEMMA RowOf ==
  ASSUME NEW rows \in Table, NEW c \in Occupied(rows)
  PROVE  c \in Id /\ rows[c] \in ContactRow
BY DEF Table, Occupied

(* First is the smallest element.                                           *)
LEMMA FirstOf ==
  ASSUME NEW S \in SUBSET Id, S # {}
  PROVE  First(S) \in S /\ \A d \in S : First(S) <= d
<1>0. S \in SUBSET Nat
  BY ContactsAssumption DEF Id
<1>1. IsWellFoundedOn(OpToRel(<, Nat), Nat)
  BY NatLessThanWellFounded, Zenon
<1>2. PICK n \in S : \A k \in S : ~(<<k, n>> \in OpToRel(<, Nat))
  BY <1>0, <1>1, WFMin, Zenon
<1>3. \A k \in S : ~(k < n)
  BY <1>0, <1>2 DEF OpToRel
<1>4. \A k \in S : n <= k
  BY <1>0, <1>3
<1> QED BY <1>4 DEF First
-----------------------------------------------------------------------------
(* A crawl writes one person. *)

(* What a human typed or confirmed is in the row as before.                  *)
Kept(old, now) == \A f \in Trusted(old) : f \in Trusted(now) /\ now.val[f] = old.val[f]

LEMMA MatchOf ==
  ASSUME NEW rows, NEW p
  PROVE  Match(rows, p) \subseteq Occupied(rows)
BY DEF Match, ByName, ByHan, Occupied

LEMMA CrawledOf ==
  ASSUME NEW row, row.val \in Values, NEW f \in Field
  PROVE  Crawled(row, f) \in Provenance
BY DEF Crawled, Provenance, Values

LEMMA MergedOf ==
  ASSUME NEW row \in ContactRow, NEW p \in NewContact, NEW f \in Field
  PROVE  Merged(row, p, f) \in SUBSET Text
<1>1. row.val[f] \in SUBSET Text /\ p.val[f] \in SUBSET Text
  BY DEF ContactRow, NewContact, Values
<1> QED BY <1>1 DEF Merged

LEMMA InsertedOf ==
  ASSUME NEW p \in NewContact, NEW recorded \in BOOLEAN
  PROVE  Inserted(p, recorded) \in ContactRow
<1>1. \A f \in Field : Crawled(p, f) \in Provenance
  BY CrawledOf DEF NewContact
<1>2. NoProvenance \in Provenance
  BY DEF Provenance
<1>3. [f \in Field |-> IF recorded THEN Crawled(p, f) ELSE NoProvenance] \in [Field -> Provenance]
  BY <1>1, <1>2
<1> QED BY <1>3 DEF Inserted, ContactRow, NewContact

(* The row a person is found in, after the crawl.                            *)
Refreshed(row, p, recorded) ==
  LET after == [row EXCEPT !.zh = IF p.zh # None /\ "fullNameZh" \notin row.set THEN p.zh ELSE @,
                           !.val = [f \in Field |-> Merged(row, p, f)]]
  IN  [after EXCEPT !.prov = [f \in Field |-> IF recorded /\ Written(row, p, f)
                                              THEN Crawled(after, f) ELSE @[f]]]

LEMMA RefreshedOf ==
  ASSUME NEW row \in ContactRow, NEW p \in NewContact, NEW recorded \in BOOLEAN
  PROVE  Refreshed(row, p, recorded) \in ContactRow /\ Kept(row, Refreshed(row, p, recorded))
<1> DEFINE val   == [f \in Field |-> Merged(row, p, f)]
           zh    == IF p.zh # None /\ "fullNameZh" \notin row.set THEN p.zh ELSE row.zh
           after == [row EXCEPT !.zh = IF p.zh # None /\ "fullNameZh" \notin row.set THEN p.zh ELSE @, !.val = val]
           prov  == [f \in Field |-> IF recorded /\ Written(row, p, f) THEN Crawled(after, f) ELSE after.prov[f]]
           now   == [after EXCEPT !.prov = prov]
<1>1. val \in Values
  BY MergedOf DEF Values
<1>2. zh \in Han \cup {None}
  BY DEF ContactRow, NewContact
<1>3. after \in ContactRow /\ after.val = val /\ after.prov = row.prov
  BY <1>1, <1>2 DEF ContactRow
<1>4. \A f \in Field : Crawled(after, f) \in Provenance
  BY <1>1, <1>3, CrawledOf
<1>5. prov \in [Field -> Provenance]
  BY <1>3, <1>4 DEF ContactRow
<1>6. now \in ContactRow /\ now.val = val /\ now.prov = prov
  BY <1>3, <1>5 DEF ContactRow
<1>7. Refreshed(row, p, recorded) = now
  BY DEF Refreshed
<1>8. ASSUME NEW f \in Trusted(row) PROVE f \in Trusted(now) /\ now.val[f] = row.val[f]
  <2>1. f \in Field /\ row.prov[f].trusted
    BY DEF Trusted
  <2>2. ~Written(row, p, f) /\ Merged(row, p, f) = row.val[f]
    BY DEF Written, Merged
  <2>3. val[f] = row.val[f] /\ prov[f] = row.prov[f]
    BY <1>3, <2>1, <2>2
  <2> QED BY <1>6, <2>1, <2>3 DEF Trusted
<1> QED BY <1>6, <1>7, <1>8 DEF Kept

LEMMA UpsertIs ==
  ASSUME NEW rows, NEW p, NEW new, NEW recorded
  PROVE  Upsert(rows, p, new, recorded) =
         IF Match(rows, p) # {}
         THEN [rows EXCEPT ![First(Match(rows, p))] = Refreshed(rows[First(Match(rows, p))], p, recorded)]
         ELSE IF new = {} THEN rows ELSE [rows EXCEPT ![First(new)] = Inserted(p, recorded)]
BY DEF Upsert, Refreshed

(* The table after it: no row is gone, and what humans did is kept.          *)
LEMMA UpsertOf ==
  ASSUME NEW rows \in Table, NEW p \in NewContact, NEW recorded \in BOOLEAN,
         NEW new \in SUBSET Id, \A c \in new : rows[c] = NoRow
  PROVE  /\ Upsert(rows, p, new, recorded) \in Table
         /\ \A c \in Occupied(rows) : /\ c \in Occupied(Upsert(rows, p, new, recorded))
                                      /\ Kept(rows[c], Upsert(rows, p, new, recorded)[c])
<1> DEFINE now == Upsert(rows, p, new, recorded)
<1>0. \A row : Kept(row, row)
  BY DEF Kept
<1>1. CASE Match(rows, p) # {}
  <2> DEFINE m == First(Match(rows, p))
  <2>1. m \in Occupied(rows)
    BY <1>1, MatchOf, FirstOf DEF Occupied
  <2>2. m \in Id /\ rows[m] \in ContactRow
    BY <2>1, RowOf
  <2>3. now = [rows EXCEPT ![m] = Refreshed(rows[m], p, recorded)]
    BY <1>1, UpsertIs
  <2>4. Refreshed(rows[m], p, recorded) \in ContactRow /\ Kept(rows[m], Refreshed(rows[m], p, recorded))
    BY <2>2, RefreshedOf
  <2> HIDE DEF m, now
  <2>5. now \in Table
    BY <2>3, <2>4 DEF Table
  <2>6. ASSUME NEW c \in Occupied(rows) PROVE c \in Occupied(now) /\ Kept(rows[c], now[c])
    BY <1>0, <2>2, <2>3, <2>4, RowKinds DEF Table, Occupied
  <2> QED BY <2>5, <2>6 DEF now
<1>2. CASE Match(rows, p) = {} /\ new = {}
  BY <1>0, <1>2, UpsertIs
<1>3. CASE Match(rows, p) = {} /\ new # {}
  <2> DEFINE n == First(new)
  <2>1. n \in Id /\ rows[n] = NoRow
    BY <1>3, FirstOf
  <2>2. now = [rows EXCEPT ![n] = Inserted(p, recorded)]
    BY <1>3, UpsertIs
  <2>3. Inserted(p, recorded) \in ContactRow
    BY InsertedOf
  <2> HIDE DEF n, now
  <2>4. now \in Table
    BY <2>2, <2>3 DEF Table
  <2>5. ASSUME NEW c \in Occupied(rows) PROVE c \in Occupied(now) /\ Kept(rows[c], now[c])
    BY <1>0, <2>1, <2>2 DEF Table, Occupied
  <2> QED BY <2>4, <2>5 DEF now
<1> QED BY <1>1, <1>2, <1>3
-----------------------------------------------------------------------------
(* The end of a run merges duplicates. *)

LEMMA PairOf ==
  ASSUME NEW S, IsFiniteSet(S)
  PROVE  Cardinality(S) >= 2 <=> \E a, b \in S : a # b
<1>0. Cardinality(S) \in Nat
  BY FS_CardinalityType
<1>1. ASSUME NEW a \in S, NEW b \in S, a # b PROVE Cardinality(S) >= 2
  <2>1. Cardinality(S) # 0
    BY FS_EmptySet
  <2>2. Cardinality(S) # 1
    BY <1>1, FS_Singleton
  <2> QED BY <1>0, <2>1, <2>2
<1>2. ASSUME Cardinality(S) >= 2 PROVE \E a, b \in S : a # b
  <2>1. S # {}
    BY <1>2, FS_EmptySet
  <2>2. PICK a \in S : TRUE
    BY <2>1
  <2>3. S # {a}
    BY <1>2, FS_Singleton
  <2> QED BY <2>2, <2>3
<1> QED BY <1>1, <1>2

LEMMA GroupOf ==
  ASSUME NEW rows, NEW k
  PROVE  /\ Group(rows, k) \subseteq Occupied(rows) /\ Group(rows, k) \subseteq Id
         /\ \A c : c \in Group(rows, k) <=> c \in Occupied(rows) /\ Key(rows, c) = k
         /\ \A S \in SUBSET Group(rows, k) : IsFiniteSet(S)
<1>1. IsFiniteSet(Id)
  BY ContactsAssumption, FS_Interval DEF Id
<1>2. Group(rows, k) \subseteq Id
  BY DEF Group
<1>3. \A S \in SUBSET Id : IsFiniteSet(S)
  BY <1>1, FS_Subset
<1> QED BY <1>2, <1>3 DEF Group, Occupied

(* A row that humans have worked on is the one that survives.                *)
LEMMA SurvivorOf ==
  ASSUME NEW rows, NEW k, Group(rows, k) # {}
  PROVE  /\ Survivor(rows, k) \in Group(rows, k)
         /\ Mergeable(rows, k) => \A c \in Group(rows, k) : HumanVerified(rows[c]) => c = Survivor(rows, k)
<1> DEFINE verified == {c \in Group(rows, k) : HumanVerified(rows[c])}
<1>1. Group(rows, k) \in SUBSET Id /\ verified \in SUBSET Id /\ IsFiniteSet(verified)
  BY GroupOf
<1>2. Survivor(rows, k) = IF verified # {} THEN First(verified) ELSE First(Group(rows, k))
  BY DEF Survivor
<1>3. verified # {} => First(verified) \in verified
  BY <1>1, FirstOf
<1>4. Survivor(rows, k) \in Group(rows, k)
  BY <1>1, <1>2, <1>3, FirstOf
<1>5. ASSUME Mergeable(rows, k), NEW c \in Group(rows, k), HumanVerified(rows[c])
      PROVE  c = Survivor(rows, k)
  <2>1. Cardinality(verified) <= 1 /\ Cardinality(verified) \in Nat
    BY <1>1, <1>5, FS_CardinalityType DEF Mergeable
  <2>2. c \in verified /\ First(verified) \in verified
    BY <1>3, <1>5
  <2>3. c = First(verified)
    BY <1>1, <2>1, <2>2, PairOf
  <2> QED BY <1>2, <2>2, <2>3
<1> QED BY <1>4, <1>5

(* The row that survives, after the merge.                                   *)
Having(rows, k, f)   == {v \in Group(rows, k) \ {Survivor(rows, k)} : rows[v].val[f] # {}}
Recorded(rows, k, f) == {v \in Group(rows, k) \ {Survivor(rows, k)} : rows[v].prov[f] # NoProvenance}
Named(rows, k)       == {v \in Group(rows, k) \ {Survivor(rows, k)} : rows[v].zh # None}

Completed(rows, k) ==
  LET row == rows[Survivor(rows, k)]
  IN  IF row.zh # None THEN row.zh ELSE IF Named(rows, k) # {} THEN rows[First(Named(rows, k))].zh
      ELSE IF k \in Han THEN k ELSE row.zh

Gathered(rows, k) ==
  LET row == rows[Survivor(rows, k)]
  IN  [f \in Field |-> IF f = "title" THEN UNION {rows[v].val[f] : v \in Group(rows, k)}
                       ELSE IF row.val[f] = {} /\ Having(rows, k, f) # {} THEN rows[First(Having(rows, k, f))].val[f]
                       ELSE row.val[f]]

TakenOver(rows, k) ==
  LET row == rows[Survivor(rows, k)]
  IN  [f \in Field |-> IF row.prov[f] = NoProvenance /\ Recorded(rows, k, f) # {}
                       THEN rows[First(Recorded(rows, k, f))].prov[f] ELSE row.prov[f]]

Survived(rows, k) ==
  [rows[Survivor(rows, k)] EXCEPT !.zh = Completed(rows, k), !.val = Gathered(rows, k), !.prov = TakenOver(rows, k)]

LEMMA MergeGroupIs ==
  ASSUME NEW rows \in Table, NEW k, Group(rows, k) # {}
  PROVE  MergeGroup(rows, k) =
         [c \in Id |-> IF c \in Group(rows, k) \ {Survivor(rows, k)} THEN NoRow
                       ELSE IF c # Survivor(rows, k) THEN rows[c] ELSE Survived(rows, k)]
<1> DEFINE s == Survivor(rows, k)
<1>1. rows[s] \in ContactRow
  BY SurvivorOf, GroupOf, RowOf
<1> QED BY <1>1 DEF MergeGroup, Survived, Completed, Gathered, TakenOver, Having, Recorded, Named, ContactRow

LEMMA SurvivedOf ==
  ASSUME NEW rows \in Table, NEW k, Group(rows, k) # {}
  PROVE  /\ Survived(rows, k) \in ContactRow
         /\ Survived(rows, k).name = rows[Survivor(rows, k)].name
         /\ Survived(rows, k).zh = Completed(rows, k)
         /\ \A f \in Field : rows[Survivor(rows, k)].val[f] \subseteq Survived(rows, k).val[f]
<1> DEFINE row == rows[Survivor(rows, k)]
<1>1. \A v \in Group(rows, k) : rows[v] \in ContactRow
  BY GroupOf, RowOf
<1>2. row \in ContactRow /\ Survivor(rows, k) \in Group(rows, k)
  BY <1>1, SurvivorOf
<1>3. Completed(rows, k) \in Han \cup {None}
  <2>1. Named(rows, k) \in SUBSET Id /\ Named(rows, k) \subseteq Group(rows, k)
    BY GroupOf DEF Named
  <2>2. Named(rows, k) # {} => rows[First(Named(rows, k))].zh \in Han \cup {None}
    BY <1>1, <2>1, FirstOf DEF ContactRow
  <2> QED BY <1>2, <2>2 DEF Completed, ContactRow
<1>4. ASSUME NEW f \in Field
      PROVE  /\ Gathered(rows, k)[f] \in SUBSET Text /\ row.val[f] \subseteq Gathered(rows, k)[f]
             /\ TakenOver(rows, k)[f] \in Provenance
  <2>1. /\ Having(rows, k, f) \in SUBSET Id /\ Having(rows, k, f) \subseteq Group(rows, k)
        /\ Recorded(rows, k, f) \in SUBSET Id /\ Recorded(rows, k, f) \subseteq Group(rows, k)
    BY GroupOf DEF Having, Recorded
  <2>2. \A v \in Group(rows, k) : rows[v].val[f] \in SUBSET Text /\ rows[v].prov[f] \in Provenance
    BY <1>1 DEF ContactRow, Values
  <2>3. Having(rows, k, f) # {} => rows[First(Having(rows, k, f))].val[f] \in SUBSET Text
    BY <2>1, <2>2, FirstOf
  <2>4. Recorded(rows, k, f) # {} => rows[First(Recorded(rows, k, f))].prov[f] \in Provenance
    BY <2>1, <2>2, FirstOf
  <2>5. LET all == UNION {rows[v].val[f] : v \in Group(rows, k)}
        IN  all \in SUBSET Text /\ row.val[f] \subseteq all
    BY <1>2, <2>2
  <2>6. Gathered(rows, k)[f] \in SUBSET Text /\ row.val[f] \subseteq Gathered(rows, k)[f]
    BY <1>2, <2>2, <2>3, <2>5 DEF Gathered
  <2>7. TakenOver(rows, k)[f] \in Provenance
    BY <1>2, <2>2, <2>4 DEF TakenOver
  <2> QED BY <2>6, <2>7
<1>5. Gathered(rows, k) \in Values /\ TakenOver(rows, k) \in [Field -> Provenance]
  <2>1. DOMAIN Gathered(rows, k) = Field /\ DOMAIN TakenOver(rows, k) = Field
    BY DEF Gathered, TakenOver
  <2>2. \A f \in Field : Gathered(rows, k)[f] \in SUBSET Text
    BY <1>4
  <2>3. \A f \in Field : TakenOver(rows, k)[f] \in Provenance
    BY <1>4
  <2>4. Gathered(rows, k) \in [Field -> SUBSET Text]
    BY <2>2 DEF Gathered
  <2>5. TakenOver(rows, k) \in [Field -> Provenance]
    BY <2>3 DEF TakenOver
  <2> QED BY <2>4, <2>5 DEF Values
<1> QED BY <1>2, <1>3, <1>4, <1>5 DEF Survived, ContactRow
(* The table after the merge: a row that is merged is the survivor of its     *)
(* group or gone, any other is as before.                                    *)
Merges(rows, c) == Key(rows, c) \in Mergeables(rows)

LEMMA MergeablesOf ==
  ASSUME NEW rows, NEW k \in Mergeables(rows)
  PROVE  Mergeable(rows, k) /\ Group(rows, k) # {}
<1>1. Mergeable(rows, k) /\ Cardinality(Group(rows, k)) >= 2
  BY DEF Mergeables, Mergeable
<1>2. Group(rows, k) # {}
  BY <1>1, FS_EmptySet
<1> QED BY <1>1, <1>2

LEMMA DedupedOf ==
  ASSUME NEW rows \in Table
  PROVE  /\ Deduped(rows) \in Table
         /\ \A c \in Id : (c \notin Occupied(rows) \/ ~Merges(rows, c)) => Deduped(rows)[c] = rows[c]
         /\ \A c \in Occupied(rows) : Merges(rows, c) =>
              Deduped(rows)[c] = IF c = Survivor(rows, Key(rows, c)) THEN Survived(rows, Key(rows, c)) ELSE NoRow
<1>1. \A c \in Id : Deduped(rows)[c] = IF rows[c] = NoRow \/ ~Merges(rows, c) THEN rows[c]
                                       ELSE MergeGroup(rows, Key(rows, c))[c]
  BY DEF Deduped, Merges
<1>2. ASSUME NEW c \in Occupied(rows), Merges(rows, c)
      PROVE  MergeGroup(rows, Key(rows, c))[c] =
               IF c = Survivor(rows, Key(rows, c)) THEN Survived(rows, Key(rows, c)) ELSE NoRow
  <2> DEFINE k == Key(rows, c)
  <2>1. k \in Mergeables(rows) /\ Group(rows, k) # {}
    BY <1>2, MergeablesOf DEF Merges
  <2>2. c \in Group(rows, k) /\ c \in Id
    BY GroupOf DEF Occupied
  <2> HIDE DEF k
  <2>3. MergeGroup(rows, k)[c] = IF c = Survivor(rows, k) THEN Survived(rows, k) ELSE NoRow
    BY <2>1, <2>2, MergeGroupIs
  <2> QED BY <2>3 DEF k
<1>3. ASSUME NEW c \in Id PROVE Deduped(rows)[c] \in ContactRow \cup {NoRow}
  <2>1. CASE rows[c] = NoRow \/ ~Merges(rows, c)
    BY <1>1, <2>1 DEF Table
  <2>2. CASE c \in Occupied(rows) /\ Merges(rows, c)
    <3>1. Survived(rows, Key(rows, c)) \in ContactRow
      BY <2>2, MergeablesOf, SurvivedOf DEF Merges
    <3>2. Deduped(rows)[c] = IF c = Survivor(rows, Key(rows, c)) THEN Survived(rows, Key(rows, c)) ELSE NoRow
      BY <1>1, <1>2, <2>2 DEF Occupied
    <3> QED BY <3>1, <3>2
  <2> QED BY <2>1, <2>2 DEF Occupied
<1>4. Deduped(rows) \in Table
  BY <1>3 DEF Table, Deduped
<1> QED BY <1>1, <1>2, <1>4 DEF Occupied

LEMMA SurvivorStays ==
  ASSUME NEW rows \in Table, NEW k \in Mergeables(rows)
  PROVE  /\ Survivor(rows, k) \in Occupied(rows) /\ Key(rows, Survivor(rows, k)) = k
         /\ Deduped(rows)[Survivor(rows, k)] = Survived(rows, k)
         /\ Survivor(rows, k) \in Occupied(Deduped(rows))
<1> DEFINE s == Survivor(rows, k)
<1>1. Group(rows, k) # {}
  BY MergeablesOf
<1>2. s \in Occupied(rows) /\ Key(rows, s) = k
  BY <1>1, SurvivorOf, GroupOf
<1>3. Deduped(rows)[s] = Survived(rows, k)
  BY <1>2, DedupedOf DEF Merges
<1>4. Survived(rows, k) # NoRow
  BY <1>1, SurvivedOf, RowKinds
<1> QED BY <1>2, <1>3, <1>4 DEF Occupied

(* What referred to a row that is gone refers to one that is there.          *)
LEMMA RepointOf ==
  ASSUME NEW rows \in Table, NEW c \in Id
  PROVE  /\ Repoint(rows, c) \in Id
         /\ c \in Occupied(rows) => Repoint(rows, c) \in Occupied(Deduped(rows))
         /\ c \notin Occupied(rows) => Repoint(rows, c) = c
<1>0. c # None
  BY ContactsAssumption DEF Id
<1>1. CASE c \notin Occupied(rows)
  BY <1>1 DEF Repoint, Occupied
<1>2. CASE c \in Occupied(rows) /\ ~Merges(rows, c)
  <2>1. Repoint(rows, c) = c
    BY <1>2 DEF Repoint, Merges
  <2>2. Deduped(rows)[c] = rows[c]
    BY <1>2, DedupedOf
  <2> QED BY <1>2, <2>1, <2>2 DEF Occupied
<1>3. CASE c \in Occupied(rows) /\ Merges(rows, c)
  <2>1. Repoint(rows, c) = Survivor(rows, Key(rows, c))
    BY <1>0, <1>3 DEF Repoint, Merges, Occupied
  <2>2. Survivor(rows, Key(rows, c)) \in Occupied(Deduped(rows))
    BY <1>3, SurvivorStays DEF Merges
  <2> QED BY <1>3, <2>1, <2>2 DEF Occupied
<1> QED BY <1>1, <1>2, <1>3

(* A row is gone exactly when it is represented by another one.              *)
LEMMA StaysOf ==
  ASSUME NEW rows \in Table, NEW c \in Id
  PROVE  /\ c \in Occupied(Deduped(rows)) <=> c \in Occupied(rows) /\ Repoint(rows, c) = c
         /\ Repoint(rows, Repoint(rows, c)) = Repoint(rows, c)
<1>0. c # None
  BY ContactsAssumption DEF Id
<1>1. CASE c \notin Occupied(rows)
  <2>1. Deduped(rows)[c] = rows[c]
    BY <1>1, DedupedOf
  <2> QED BY <1>1, <2>1, RepointOf DEF Occupied
<1>2. CASE c \in Occupied(rows) /\ ~Merges(rows, c)
  <2>1. Repoint(rows, c) = c
    BY <1>2 DEF Repoint, Merges
  <2>2. Deduped(rows)[c] = rows[c]
    BY <1>2, DedupedOf
  <2> QED BY <1>2, <2>1, <2>2 DEF Occupied
<1>3. CASE c \in Occupied(rows) /\ Merges(rows, c)
  <2> DEFINE k == Key(rows, c)
             s == Survivor(rows, k)
  <2>1. Repoint(rows, c) = s
    BY <1>0, <1>3 DEF Repoint, Merges, Occupied
  <2>2. /\ k \in Mergeables(rows) /\ s \in Occupied(rows) /\ Key(rows, s) = k
        /\ s \in Occupied(Deduped(rows))
    BY <1>3, SurvivorStays DEF Merges
  <2>3. Repoint(rows, s) = s
    BY <2>2 DEF Repoint
  <2>4. c # s => Deduped(rows)[c] = NoRow
    BY <1>3, DedupedOf
  <2> QED BY <1>3, <2>1, <2>2, <2>3, <2>4 DEF Occupied
<1> QED BY <1>1, <1>2, <1>3

(* What a human typed or confirmed is not dropped by a merge.                *)
LEMMA MergeKeeps ==
  ASSUME NEW rows \in Table, NEW c \in Occupied(rows), NEW f \in Trusted(rows[c])
  PROVE  c \in Occupied(Deduped(rows)) /\ rows[c].val[f] \subseteq Deduped(rows)[c].val[f]
<1>0. f \in Field /\ HumanVerified(rows[c]) /\ c \in Id
  BY DEF Trusted, HumanVerified, Occupied
<1>1. CASE ~Merges(rows, c)
  <2>1. Deduped(rows)[c] = rows[c]
    BY <1>0, <1>1, DedupedOf
  <2> QED BY <2>1 DEF Occupied
<1>2. CASE Merges(rows, c)
  <2> DEFINE k == Key(rows, c)
  <2>1. k \in Mergeables(rows) /\ Mergeable(rows, k) /\ c \in Group(rows, k)
    BY <1>2, MergeablesOf, GroupOf DEF Merges
  <2> HIDE DEF k
  <2>2. c = Survivor(rows, k)
    BY <1>0, <2>1, SurvivorOf
  <2>3. c \in Occupied(Deduped(rows)) /\ Deduped(rows)[c] = Survived(rows, k)
    BY <2>1, <2>2, SurvivorStays
  <2>4. rows[c].val[f] \subseteq Survived(rows, k).val[f]
    BY <1>0, <2>1, <2>2, SurvivedOf
  <2> QED BY <2>3, <2>4
<1> QED BY <1>1, <1>2
-----------------------------------------------------------------------------
(* One person is one row. *)

(* The group of a row with a Chinese name is that of the name.               *)
LEMMA KeyOf ==
  ASSUME NEW rows \in Table, NEW c \in Occupied(rows)
  PROVE  /\ HanKey(rows[c]) \in Han \cup {None}
         /\ HanKey(rows[c]) # None => Key(rows, c) = HanKey(rows[c]) /\ Key(rows, c) \in Han
         /\ HanKey(rows[c]) = None /\ Bridges(rows, c) # {} => Key(rows, c) \in {HanKey(rows[d]) : d \in Bridges(rows, c)}
         /\ HanKey(rows[c]) = None /\ Bridges(rows, c) = {} => Key(rows, c) = rows[c].name.latin /\ Key(rows, c) \in Latin
<1>0. c \in Id /\ rows[c] \in ContactRow
  BY RowOf
<1>1. rows[c].zh \in Han \cup {None} /\ rows[c].name.han \in Han \cup {None} /\ rows[c].name.latin \in Latin \cup {None}
      /\ (rows[c].name.latin # None \/ rows[c].name.han # None)
  BY <1>0 DEF ContactRow, Name
<1>2. HanKey(rows[c]) \in Han \cup {None}
  BY <1>1 DEF HanKey
<1>3. HanKey(rows[c]) # None => Key(rows, c) = HanKey(rows[c])
  BY DEF Key
<1>4. ASSUME HanKey(rows[c]) = None, Bridges(rows, c) # {}
      PROVE  Key(rows, c) \in {HanKey(rows[d]) : d \in Bridges(rows, c)}
  <2> DEFINE keys == {HanKey(rows[d]) : d \in Bridges(rows, c)}
             named(k) == {d \in Id : rows[d] # NoRow /\ HanKey(rows[d]) = k}
             ids == {First(named(k)) : k \in keys}
  <2>1. Key(rows, c) = CHOOSE k \in keys : \A l \in keys : First(named(k)) <= First(named(l))
    BY <1>4 DEF Key
  <2>2. \A k \in keys : named(k) \in SUBSET Id /\ named(k) # {}
    BY DEF Bridges
  <2>3. \A k \in keys : First(named(k)) \in Id
    BY <2>2, FirstOf
  <2>4. ids \in SUBSET Id /\ ids # {}
    <3>1. \E k : k \in keys
      BY <1>4
    <3> HIDE DEF named, keys
    <3> QED BY <2>3, <3>1
  <2>5. First(ids) \in ids /\ \A d \in ids : First(ids) <= d
    BY <2>4, FirstOf
  <2> HIDE DEF named
  <2>6. \E k \in keys : \A l \in keys : First(named(k)) <= First(named(l))
    BY <2>5
  <2> QED BY <2>1, <2>6
<1>5. HanKey(rows[c]) = None /\ Bridges(rows, c) = {} => Key(rows, c) = rows[c].name.latin /\ rows[c].name.latin # None
  BY <1>1 DEF Key, HanKey
<1> QED BY <1>1, <1>2, <1>3, <1>4, <1>5

(* It depends on the romanisation alone for rows without a Chinese name.     *)
LEMMA SameKey ==
  ASSUME NEW rows \in Table, NEW c \in Occupied(rows), NEW d \in Occupied(rows),
         HanKey(rows[c]) = None, HanKey(rows[d]) = None, rows[c].name.latin = rows[d].name.latin
  PROVE  Key(rows, c) = Key(rows, d)
<1>1. Bridges(rows, c) = Bridges(rows, d)
  BY DEF Bridges
<1> QED BY <1>1 DEF Key

(* The Chinese name of a row after the merge is that of its group, if that   *)
(* has one.                                                                  *)
LEMMA HanKeyAfter ==
  ASSUME NEW rows \in Table, NEW c \in Occupied(rows), c \in Occupied(Deduped(rows))
  PROVE  /\ Deduped(rows)[c].name = rows[c].name
         /\ ~Merges(rows, c) => HanKey(Deduped(rows)[c]) = HanKey(rows[c])
         /\ Merges(rows, c) => c = Survivor(rows, Key(rows, c))
         /\ Merges(rows, c) => HanKey(Deduped(rows)[c]) = IF Key(rows, c) \in Han THEN Key(rows, c) ELSE None
<1> DEFINE now == Deduped(rows)[c]
<1>0. c \in Id /\ rows[c] \in ContactRow /\ now # NoRow
  BY RowOf DEF Occupied
<1>1. CASE ~Merges(rows, c)
  BY <1>0, <1>1, DedupedOf
<1>2. CASE Merges(rows, c)
  <2> DEFINE k == Key(rows, c)
  <2>1. k \in Mergeables(rows) /\ Group(rows, k) # {} /\ Mergeable(rows, k)
    BY <1>2, MergeablesOf DEF Merges
  <2>2. c = Survivor(rows, k) /\ now = Survived(rows, k)
    BY <1>0, <1>2, DedupedOf
  <2>3. now.name = rows[c].name /\ now.zh = Completed(rows, k)
    BY <2>1, <2>2, SurvivedOf
  <2>4. \A v \in Named(rows, k) : v \in Occupied(rows) /\ Key(rows, v) = k /\ rows[v].zh # None
    BY GroupOf DEF Named
  <2>5. \A v \in Named(rows, k) : rows[v].zh = k /\ k \in Han
    BY <2>4, KeyOf DEF HanKey
  <2>6. Named(rows, k) # {} => First(Named(rows, k)) \in Named(rows, k)
    BY FirstOf, GroupOf DEF Named
  <2>7. None \notin Han /\ Latin \cap Han = {}
    BY ContactsAssumption
  <2>8. CASE k \in Han
    <3>1. rows[c].zh # None => rows[c].zh = k
      BY KeyOf DEF HanKey
    <3>2. Completed(rows, k) = k
      BY <2>2, <2>5, <2>6, <2>8, <3>1 DEF Completed
    <3> QED BY <1>2, <2>2, <2>3, <2>7, <2>8, <3>2 DEF HanKey
  <2>9. CASE k \notin Han
    <3>1. HanKey(rows[c]) = None
      BY <2>9, KeyOf
    <3>2. rows[c].zh = None /\ rows[c].name.han = None
      BY <3>1 DEF HanKey
    <3>3. Completed(rows, k) = None
      BY <2>2, <2>5, <2>9, <3>2 DEF Completed
    <3> QED BY <2>2, <2>3, <2>9, <3>2, <3>3 DEF HanKey
  <2> QED BY <1>2, <2>2, <2>3, <2>8, <2>9
<1> QED BY <1>1, <1>2

(* A group of two rows that is not merged is left to humans.                 *)
LEMMA LeftOf ==
  ASSUME NEW rows \in Table, NEW c \in Occupied(rows), NEW d \in Occupied(rows), c # d,
         Key(rows, c) = Key(rows, d), Key(rows, c) \in Latin \cup Han
  PROVE  Merges(rows, c) \/ LeftToHumans(rows, Key(rows, c))
<1> DEFINE k == Key(rows, c)
           verified == {a \in Group(rows, k) : HumanVerified(rows[a])}
<1>1. c \in Group(rows, k) /\ d \in Group(rows, k) /\ IsFiniteSet(Group(rows, k)) /\ IsFiniteSet(verified)
  BY GroupOf
<1>2. Cardinality(Group(rows, k)) >= 2
  BY <1>1, PairOf
<1>3. CASE Cardinality(verified) <= 1
  BY <1>2, <1>3 DEF Merges, Mergeables, Mergeable
<1>4. CASE Cardinality(verified) >= 2
  <2>1. \E a, b \in verified : a # b
    BY <1>1, <1>4, PairOf
  <2> QED BY <2>1 DEF LeftToHumans
<1>5. Cardinality(verified) \in Nat
  BY <1>1, FS_CardinalityType
<1> QED BY <1>3, <1>4, <1>5

(* After a merge, two rows of one person are in a group left to humans.      *)
LEMMA MergeConverges ==
  ASSUME NEW rows \in Table,
         NEW c \in Occupied(Deduped(rows)), NEW d \in Occupied(Deduped(rows)), c # d,
         Same(Deduped(rows)[c], Deduped(rows)[d])
  PROVE  LeftToHumans(rows, Key(rows, c)) \/ LeftToHumans(rows, Key(rows, d))
<1>0. None \notin Han /\ None \notin Latin
  BY ContactsAssumption
<1>1. c \in Occupied(rows) /\ d \in Occupied(rows)
  BY DedupedOf DEF Occupied
<1>2. \A x \in {c, d} : Key(rows, x) \in Latin \cup Han
  <2>1. ASSUME NEW x \in Occupied(rows) PROVE Key(rows, x) \in Latin \cup Han
    <3>1. \A y \in Bridges(rows, x) : y \in Occupied(rows) /\ HanKey(rows[y]) # None
      BY DEF Bridges, Occupied
    <3>2. \A y \in Bridges(rows, x) : HanKey(rows[y]) \in Han
      BY <3>1, KeyOf
    <3> QED BY <3>2, KeyOf
  <2> QED BY <1>1, <2>1
(* Two rows of one group: the group is not merged.                           *)
<1>3. ASSUME Key(rows, c) = Key(rows, d) PROVE LeftToHumans(rows, Key(rows, c))
  <2>1. ~Merges(rows, c)
    <3>1. Merges(rows, c) => Merges(rows, d)
      BY <1>3 DEF Merges
    <3> QED BY <1>1, <1>3, <3>1, HanKeyAfter
  <2> QED BY <1>1, <1>2, <1>3, <2>1, LeftOf
(* A row whose name is only romanised bridges to one with a Chinese name,    *)
(* and would have it, had its group been merged.                             *)
<1>4. ASSUME NEW x \in {c, d}, NEW y \in {c, d}, x # y, HanKey(Deduped(rows)[x]) = None,
             HanKey(rows[y]) # None, rows[x].name.latin # None, rows[x].name.latin = rows[y].name.latin
      PROVE  LeftToHumans(rows, Key(rows, x))
  <2>1. x \in Occupied(rows) /\ y \in Occupied(rows) /\ x \in Occupied(Deduped(rows))
    BY <1>1
  <2>2. y \in Bridges(rows, x)
    BY <1>4, <2>1 DEF Bridges, Occupied
  <2>3. ~Merges(rows, x) \/ Key(rows, x) \notin Han
    BY <1>0, <1>4, <2>1, HanKeyAfter
  <2>4. CASE HanKey(rows[x]) = None
    <3>1. PICK b \in Bridges(rows, x) : Key(rows, x) = HanKey(rows[b])
      BY <2>1, <2>2, <2>4, KeyOf
    <3>2. b \in Occupied(rows) /\ HanKey(rows[b]) # None
      BY <3>1 DEF Bridges, Occupied
    <3>3. Key(rows, b) = HanKey(rows[b]) /\ Key(rows, b) \in Han
      BY <3>2, KeyOf
    <3>4. x # b
      BY <2>4, <3>2
    <3>5. ~Merges(rows, x)
      BY <2>3, <3>1, <3>3
    <3> QED BY <2>1, <3>1, <3>2, <3>3, <3>4, <3>5, LeftOf
  <2>5. CASE HanKey(rows[x]) # None
    <3>1. Key(rows, x) \in Han
      BY <2>1, <2>5, KeyOf
    <3>2. ~Merges(rows, x)
      BY <2>3, <3>1
    <3> QED BY <1>4, <2>1, <2>5, <3>2, HanKeyAfter
  <2> QED BY <2>4, <2>5
<1>5. /\ Deduped(rows)[c].name = rows[c].name /\ Deduped(rows)[d].name = rows[d].name
      /\ HanKey(Deduped(rows)[c]) # None => HanKey(Deduped(rows)[c]) = Key(rows, c)
      /\ HanKey(Deduped(rows)[d]) # None => HanKey(Deduped(rows)[d]) = Key(rows, d)
  <2>1. ASSUME NEW x \in Occupied(rows), x \in Occupied(Deduped(rows)), HanKey(Deduped(rows)[x]) # None
        PROVE  HanKey(Deduped(rows)[x]) = Key(rows, x)
    <3>1. CASE Merges(rows, x)
      BY <2>1, <3>1, HanKeyAfter
    <3>2. CASE ~Merges(rows, x)
      BY <2>1, <3>2, HanKeyAfter, KeyOf
    <3> QED BY <3>1, <3>2
  <2> QED BY <1>1, <2>1, HanKeyAfter
<1>6. CASE HanKey(Deduped(rows)[c]) # None /\ HanKey(Deduped(rows)[d]) # None
  <2>1. HanKey(Deduped(rows)[c]) = HanKey(Deduped(rows)[d])
    BY <1>6 DEF Same
  <2>2. Key(rows, c) = Key(rows, d)
    BY <1>5, <1>6, <2>1
  <2> QED BY <1>3, <2>2
<1>7. CASE HanKey(Deduped(rows)[c]) = None \/ HanKey(Deduped(rows)[d]) = None
  <2>1. rows[c].name.latin # None /\ rows[c].name.latin = rows[d].name.latin
    <3>1. Deduped(rows)[c].name.latin # None /\ Deduped(rows)[c].name.latin = Deduped(rows)[d].name.latin
      BY <1>7 DEF Same
    <3> QED BY <1>5, <3>1
  <2>2. CASE HanKey(rows[c]) = None /\ HanKey(rows[d]) = None
    BY <1>1, <1>3, <2>1, <2>2, SameKey
  <2>3. CASE HanKey(rows[c]) # None /\ HanKey(Deduped(rows)[d]) = None
    BY <1>4, <2>1, <2>3
  <2>4. CASE HanKey(rows[d]) # None /\ HanKey(Deduped(rows)[c]) = None
    BY <1>4, <2>1, <2>4
  <2>5. ASSUME NEW x \in {c, d}, HanKey(rows[x]) # None PROVE HanKey(Deduped(rows)[x]) # None
    <3>1. x \in Occupied(rows) /\ x \in Occupied(Deduped(rows))
      BY <1>1
    <3> QED BY <1>0, <2>5, <3>1, KeyOf, HanKeyAfter
  <2> QED BY <1>7, <2>2, <2>3, <2>4, <2>5
<1> QED BY <1>6, <1>7
-----------------------------------------------------------------------------
(* The jobs and their runs.                                                  *)
Run == [at : {"over", "start"} \cup Working, saved : SUBSET NewContact]

JobsType ==
  /\ job \in [Job -> {"none", "queued", "running"} \cup Ended]
  /\ run \in [Job -> Run] /\ edits \in 0..MaxEdits

(* A job in progress has a run, which ends it or is given up on: a queued one *)
(* is about to start, one that is running works under the hard timeout.       *)
JobOK ==
  \A j \in Job : /\ job[j] = "queued" <=> At(j, "start")
                 /\ job[j] = "running" => run[j].at \in Working

(* A row that a crawl will add reports to nobody.                            *)
ChartOK == \A c \in Id : contact[c] = NoRow => reports[c] = None

RefsInv == RefsResolve /\ ChartOK

ResearchInv == ContactsTypeOK /\ JobsType /\ JobOK /\ RefsInv

LEMMA ResearchTypes == ResearchTypeOK <=> ContactsTypeOK /\ JobsType
BY DEF ResearchTypeOK, JobsType, Run

LEMMA ContactsTypes ==
  ContactsTypeOK <=>
    /\ contact \in Table /\ refers \in [Deal -> Id \cup {None}] /\ removed \subseteq Id
    /\ reports \in [Id -> Id \cup {None}] /\ into \in [Id -> Id \cup {None}]
BY DEF ContactsTypeOK, Table

LEMMA RowsOf == Rows = Occupied(contact) /\ Rows' = Occupied(contact')
BY DEF Rows, Occupied

LEMMA ResearchStart == ResearchInit => ResearchInv
<1> SUFFICES ASSUME ResearchInit PROVE ResearchInv
  OBVIOUS
<1>1. ContactsTypeOK /\ RefsInv
  BY DEF ResearchInit, ContactsInit, ContactsTypeOK, RefsInv, RefsResolve, There, ChartOK, Rows
<1>2. NoRun \in Run /\ NoRun.at = "over"
  BY DEF NoRun, Run
<1>3. JobsType
  BY <1>2, ResearchAssumption DEF ResearchInit, JobsType
<1>4. JobOK
  BY <1>2 DEF ResearchInit, JobOK, At, Working
<1> QED BY <1>1, <1>3, <1>4 DEF ResearchInv

(* The steps by what they do to contacts: a crawl writes, duplicates are     *)
(* merged, or none of it.                                                    *)
Crawl(j) ==
  \/ \E p \in Found : Standard(j, p) \/ StandardContact(j, p)
  \/ \E site, web \in Found : Persist(j, site, web)
  \/ \E s \in run[j].saved, found \in Found : EnrichPerson(j, s, found)

Aside(j) ==
  \/ \E s \in run[j].saved : PersonNotFound(j, s)
  \/ AskPerson(j) \/ CreateJob(j) \/ MarkRunning(j) \/ EnrichOver(j) \/ TooLate(j) \/ Fail(j) \/ HardTimeout(j)

LEMMA WorkKinds == Work <=> Restart \/ \E j \in Job : Crawl(j) \/ Dedupe(j) \/ Aside(j)
BY DEF Work, Crawl, Aside

(* No row is gone, and what humans did is in it as before.                   *)
AllKept == contact' \in Table /\ \A c \in Rows : c \in Rows' /\ Kept(contact[c], contact'[c])

LEMMA CrawlKeeps ==
  ASSUME ContactsTypeOK, JobsType, NEW j \in Job, Crawl(j)
  PROVE  AllKept /\ NoChartChange
<1>0. contact \in Table /\ Unused \in SUBSET Id /\ \A c \in Unused : contact[c] = NoRow
  BY ContactsTypes DEF Unused
<1>1. Found \subseteq NewContact
  BY ResearchAssumption
<1>2. ASSUME NEW p \in NewContact, NEW recorded \in BOOLEAN, contact' = Upsert(contact, p, Unused, recorded) PROVE AllKept
  BY <1>0, <1>2, UpsertOf, RowsOf DEF AllKept
<1>3. ASSUME NEW p \in Found, Standard(j, p) \/ StandardContact(j, p)
      PROVE  AllKept /\ NoChartChange
  BY <1>1, <1>2, <1>3 DEF Standard, StandardContact
<1>4. ASSUME NEW site \in Found, NEW web \in Found, Persist(j, site, web)
      PROVE  AllKept /\ NoChartChange
  <2> DEFINE sited == Upsert(contact, site, Unused, FALSE)
             left  == {c \in Unused : sited[c] = NoRow}
  <2>1. /\ sited \in Table
        /\ \A c \in Rows : c \in Occupied(sited) /\ Kept(contact[c], sited[c])
    BY <1>0, <1>1, UpsertOf, RowsOf
  <2>2. contact' = Upsert(sited, web, left, TRUE) /\ NoChartChange
    BY <1>4 DEF Persist
  <2>3. left \in SUBSET Id /\ \A c \in left : sited[c] = NoRow
    BY <1>0
  <2> HIDE DEF sited, left
  <2>4. /\ contact' \in Table
        /\ \A c \in Occupied(sited) : c \in Rows' /\ Kept(sited[c], contact'[c])
    BY <1>1, <2>1, <2>2, <2>3, UpsertOf, RowsOf
  <2>5. \A c \in Rows : Kept(contact[c], sited[c]) /\ Kept(sited[c], contact'[c]) => Kept(contact[c], contact'[c])
    BY DEF Kept
  <2> QED BY <2>1, <2>2, <2>4, <2>5 DEF AllKept
<1>5. ASSUME NEW s \in run[j].saved, NEW found \in Found, EnrichPerson(j, s, found)
      PROVE  AllKept /\ NoChartChange
  <2> DEFINE p == [name |-> s.name, zh |-> IF s.zh = None THEN found.zh ELSE None,
                   val |-> [f \in Field |-> IF s.val[f] = {} THEN found.val[f] ELSE {}]]
  <2>1. s \in NewContact /\ found \in NewContact
    BY <1>1 DEF JobsType, Run
  <2>2. p \in NewContact
    BY <2>1 DEF NewContact, Values
  <2>3. contact' = Upsert(contact, p, Unused, TRUE) /\ NoChartChange
    BY <1>5 DEF EnrichPerson
  <2> QED BY <1>2, <2>2, <2>3
<1> QED BY <1>3, <1>4, <1>5 DEF Crawl

LEMMA CrawlRefs ==
  ASSUME ContactsTypeOK, RefsInv, AllKept, NoChartChange
  PROVE  ContactsTypeOK' /\ RefsInv'
<1>1. \A c \in Id : c \notin Rows' => c \notin Rows
  BY DEF AllKept
<1>2. ContactsTypeOK' /\ ChartOK'
  BY <1>1, ContactsTypes DEF ContactsTypeOK, Table, AllKept, NoChartChange, RefsInv, ChartOK, Rows
<1>3. There \subseteq There'
  BY DEF AllKept, NoChartChange, There
<1>4. ASSUME NEW c \in Rows' PROVE reports'[c] \in There' \/ into'[reports'[c]] = c
  <2>1. CASE c \in Rows
    BY <1>3, <2>1 DEF RefsInv, RefsResolve, NoChartChange
  <2>2. CASE c \notin Rows
    BY <1>4, <2>2 DEF RefsInv, ChartOK, NoChartChange, There, Rows
  <2> QED BY <2>1, <2>2
<1> QED BY <1>2, <1>3, <1>4 DEF RefsInv, RefsResolve, NoChartChange

(* The org chart after a merge.                                              *)
Gone == {v \in Id : Repoint(contact, v) # v}

LEMMA ChartOf ==
  ASSUME ContactsTypeOK, RefsInv, NEW c \in Id
  PROVE  /\ Chart(contact)[c] \in Id \cup {None}
         /\ c \in Gone \/ contact[c] = NoRow => Chart(contact)[c] = None
         /\ c \in Rows \ Gone =>
              \/ Chart(contact)[c] = None
              \/ Chart(contact)[c] \in Gone /\ Repoint(contact, Chart(contact)[c]) = c
              \/ \E x \in Rows : /\ Repoint(contact, x) = c /\ reports[x] # None
                                 /\ Chart(contact)[c] = Repoint(contact, reports[x])
              \/ Chart(contact)[c] = c
<1> DEFINE victims == {v \in Gone : Repoint(contact, v) = c}
           heirs   == {v \in victims : reports[v] # None}
           heir    == First(heirs)
           kept    == IF reports[c] # None \/ heirs = {} THEN reports[c]
                      ELSE IF reports[heir] \in victims /\ reports[heir] < heir THEN c ELSE reports[heir]
<1>1. Chart(contact)[c] = IF c \in Gone THEN None
                          ELSE IF Repoint(contact, kept) = c THEN kept ELSE Repoint(contact, kept)
  BY DEF Chart, Gone
<1>2. contact \in Table /\ reports \in [Id -> Id \cup {None}]
  BY ContactsTypes
<1>3. heirs \in SUBSET Id /\ (heirs # {} => heir \in heirs)
  BY FirstOf DEF Gone
<1>4. Repoint(contact, None) = None /\ None \notin Id
  BY ContactsAssumption DEF Repoint, Id
<1>5. \/ kept = None \/ kept = c
      \/ \E x \in {c} \cup heirs : reports[x] # None /\ kept = reports[x]
  BY <1>3
<1>6. kept \in Id \cup {None}
  BY <1>2, <1>3, <1>5
<1>7. \A x \in Id : Repoint(contact, x) \in Id
  BY <1>2, RepointOf
<1>8. \A x \in heirs : x \in Rows /\ Repoint(contact, x) = c
  BY <1>2, RepointOf, RowsOf DEF Gone
<1> HIDE DEF kept, heirs, heir, victims
<1>9. ASSUME contact[c] = NoRow PROVE kept = None /\ c \notin Gone
  <2>1. c \notin Rows /\ Repoint(contact, c) = c
    BY <1>2, <1>9, RepointOf, RowsOf DEF Rows
  <2>2. heirs = {}
    <3>1. \A x \in heirs : Repoint(contact, x) \in Occupied(Deduped(contact))
      BY <1>2, <1>3, <1>8, RepointOf, RowsOf
    <3>2. c \notin Occupied(Deduped(contact))
      BY <1>2, <2>1, StaysOf, RowsOf
    <3> QED BY <1>8, <3>1, <3>2
  <2>3. reports[c] = None
    BY <1>9 DEF RefsInv, ChartOK
  <2> QED BY <2>1, <2>2, <2>3 DEF kept, Gone
<1>10. ASSUME c \in Rows \ Gone
       PROVE  \/ Chart(contact)[c] = None
              \/ Chart(contact)[c] \in Gone /\ Repoint(contact, Chart(contact)[c]) = c
              \/ \E x \in Rows : /\ Repoint(contact, x) = c /\ reports[x] # None
                                 /\ Chart(contact)[c] = Repoint(contact, reports[x])
              \/ Chart(contact)[c] = c
  <2>1. Repoint(contact, c) = c
    BY <1>10 DEF Gone
  <2>2. CASE Repoint(contact, kept) = c
    <3>1. Chart(contact)[c] = kept /\ kept \in Id
      BY <1>1, <1>4, <1>6, <1>10, <2>2
    <3> QED BY <2>2, <3>1 DEF Gone
  <2>3. CASE Repoint(contact, kept) # c
    <3>1. Chart(contact)[c] = Repoint(contact, kept) /\ kept # c
      BY <1>1, <1>10, <2>1, <2>3
    <3> QED BY <1>4, <1>5, <1>8, <1>10, <2>1, <3>1
  <2> QED BY <2>2, <2>3
<1> QED BY <1>1, <1>4, <1>6, <1>7, <1>9, <1>10

LEMMA DedupeRefs ==
  ASSUME ContactsTypeOK, RefsInv, NEW j \in Job, Dedupe(j)
  PROVE  ContactsTypeOK' /\ RefsInv'
<1>0. /\ contact \in Table /\ contact' = Deduped(contact) /\ removed' = removed /\ removed \subseteq Id
      /\ refers' = [d \in Deal |-> Repoint(contact, refers[d])]
      /\ refers \in [Deal -> Id \cup {None}] /\ reports \in [Id -> Id \cup {None}] /\ into \in [Id -> Id \cup {None}]
      /\ reports' = Chart(contact)
      /\ into' = [c \in Id |-> IF c \in Rows /\ Repoint(contact, c) = c THEN None
                               ELSE Repoint(contact, IF c \in Rows THEN c ELSE into[c])]
  BY ContactsTypes DEF Dedupe, DedupeContacts
<1>1. contact' \in Table
  BY <1>0, DedupedOf
<1>2. Repoint(contact, None) = None /\ None \notin Id
  BY ContactsAssumption DEF Repoint, Id
<1>3. \A c \in Id \cup {None} : Repoint(contact, c) \in Id \cup {None}
  BY <1>0, <1>2, RepointOf
<1>4. ASSUME NEW b \in There PROVE Repoint(contact, b) \in There'
  <2>1. CASE b = None
    BY <1>2, <2>1 DEF There
  <2>2. CASE b \in Rows
    <3>1. b \in Id /\ b \in Occupied(contact)
      BY <2>2, RowsOf DEF Rows
    <3> QED BY <1>0, <3>1, RepointOf, RowsOf DEF There
  <2>3. CASE b \in removed /\ b \notin Rows
    <3>1. b \in Id /\ b \notin Occupied(contact)
      BY <1>0, <2>3, RowsOf
    <3> QED BY <1>0, <2>3, <3>1, RepointOf DEF There
  <2> QED BY <2>1, <2>2, <2>3 DEF There
<1>5. refers' \in [Deal -> Id \cup {None}] /\ \A d \in Deal : refers'[d] \in There'
  BY <1>0, <1>3, <1>4 DEF RefsInv, RefsResolve
<1>6. reports' \in [Id -> Id \cup {None}]
  <2>1. \A c \in Id : Chart(contact)[c] \in Id \cup {None}
    BY ChartOf
  <2>2. Chart(contact) = [c \in Id |-> Chart(contact)[c]]
    BY DEF Chart
  <2> HIDE DEF Chart
  <2> QED BY <1>0, <2>1, <2>2
<1>7. into' \in [Id -> Id \cup {None}]
  BY <1>0, <1>3
<1>8. \A c \in Id : c \in Rows' <=> c \in Rows \ Gone
  BY <1>0, StaysOf, RowsOf DEF Gone, Rows
<1>9. ChartOK'
  BY <1>0, <1>8, ChartOf DEF ChartOK, Rows
<1>10. ASSUME NEW c \in Rows' PROVE reports'[c] \in There' \/ into'[reports'[c]] = c
  <2>0. c \in Id /\ c \in Rows \ Gone
    BY <1>8 DEF Rows
  <2>1. CASE reports'[c] = None
    BY <2>1 DEF There
  <2>2. CASE reports'[c] \in Gone /\ Repoint(contact, reports'[c]) = c
    <3>1. reports'[c] \in Id /\ Repoint(contact, reports'[c]) # reports'[c] /\ reports'[c] \in Rows
      BY <1>0, <2>2, RepointOf, RowsOf DEF Gone
    <3> QED BY <1>0, <2>2, <3>1
  <2>3. ASSUME NEW x \in Rows, Repoint(contact, x) = c, reports[x] # None, reports'[c] = Repoint(contact, reports[x])
        PROVE  reports'[c] \in There' \/ into'[reports'[c]] = c
    <3>1. CASE reports[x] \in There
      BY <1>4, <2>3, <3>1
    <3>2. CASE reports[x] \notin There /\ into[reports[x]] = x
      <4>1. reports[x] \in Id /\ reports[x] \notin Rows
        BY <1>0, <2>3, <3>2 DEF There, Rows
      <4>2. Repoint(contact, reports[x]) = reports[x]
        BY <1>0, <4>1, RepointOf, RowsOf
      <4>3. into'[reports[x]] = Repoint(contact, x)
        BY <1>0, <3>2, <4>1
      <4> QED BY <2>3, <4>2, <4>3
    <3> QED BY <2>3, <3>1, <3>2 DEF RefsInv, RefsResolve
  <2>4. CASE reports'[c] = c
    BY <2>4 DEF There
  <2> QED BY <1>0, <2>0, <2>1, <2>2, <2>3, <2>4, ChartOf
<1> QED BY <1>0, <1>1, <1>5, <1>6, <1>7, <1>9, <1>10 DEF ContactsTypeOK, Table, RefsInv, RefsResolve

(* What people do meanwhile.                                                 *)
LEMMA CreateOf ==
  ASSUME ContactsTypeOK, NEW n \in Called, NEW t \in Typed, NEW b \in Rows \cup {None},
         CreateContact(n, [f \in Field |-> IF f = "title" THEN t ELSE {}], b)
  PROVE  /\ AllKept /\ UNCHANGED <<refers, removed, into>>
         /\ \E c \in Id : contact[c] = NoRow /\ contact'[c] # NoRow /\ reports' = [reports EXCEPT ![c] = b]
<1> DEFINE person == [name |-> n, zh |-> None, val |-> [f \in Field |-> IF f = "title" THEN t ELSE {}]]
           c == First(Unused)
<1>1. contact \in Table /\ Unused \in SUBSET Id /\ \A d \in Unused : contact[d] = NoRow
  BY ContactsTypes DEF Unused
<1>2. person \in NewContact
  BY ResearchAssumption DEF NewContact, Values
<1>3. Inserted(person, FALSE) \in ContactRow
  BY <1>2, InsertedOf
<1>4. Unused # {} /\ contact' = [contact EXCEPT ![c] = Inserted(person, FALSE)] /\ UNCHANGED <<refers, removed, into>>
      /\ reports' = [reports EXCEPT ![c] = b]
  BY DEF CreateContact
<1>5. c \in Id /\ contact[c] = NoRow
  BY <1>1, <1>4, FirstOf
<1> HIDE DEF c, person
<1>6. contact' \in Table /\ contact'[c] # NoRow
  BY <1>1, <1>3, <1>4, <1>5, RowKinds DEF Table
<1>7. ASSUME NEW d \in Rows PROVE d \in Rows' /\ contact'[d] = contact[d]
  BY <1>1, <1>4, <1>5 DEF Table, Rows
<1> QED BY <1>4, <1>5, <1>6, <1>7 DEF AllKept, Kept

(* One row is written, with what humans did in it as before.                 *)
LEMMA OneRow ==
  ASSUME contact \in Table, NEW c \in Rows, NEW row \in ContactRow, Kept(contact[c], row),
         contact' = [contact EXCEPT ![c] = row]
  PROVE  AllKept /\ Rows' = Rows
<1>1. contact' \in Table /\ row # NoRow /\ c \in Id
  BY RowKinds DEF Table, Rows
<1>2. \A d \in Id : contact'[d] = IF d = c THEN row ELSE contact[d]
  BY DEF Table
<1>3. Rows' = Rows
  BY <1>1, <1>2 DEF Rows
<1> QED BY <1>1, <1>2, <1>3 DEF AllKept, Kept, Rows

(* Another name, another superior, a draft of the model's.                   *)
Retouched(c) ==
  \/ \E n \in Called : HumanRename(c, n) \/ HumanRenameZh(c, n.han)
  \/ \E b \in Rows \cup {None} : SetSuperior(c, b)
  \/ \E v \in Typed : AiDraft(c, v)

LEMMA RetouchOf ==
  ASSUME ContactsTypeOK, NEW c \in Id, Retouched(c)
  PROVE  /\ AllKept /\ Rows' = Rows /\ UNCHANGED <<refers, removed, into>>
         /\ reports' = reports \/ \E b \in Rows \cup {None} : reports' = [reports EXCEPT ![c] = b]
<1>0. contact \in Table /\ c \in Rows /\ contact[c] \in ContactRow
  BY ContactsTypes, RowOf, RowsOf DEF Retouched, HumanRename, HumanRenameZh, SetSuperior, AiDraft
<1>1. ASSUME NEW n \in Called, HumanRename(c, n)
      PROVE  AllKept /\ Rows' = Rows /\ UNCHANGED <<reports, refers, removed, into>>
  <2> DEFINE row == [contact[c] EXCEPT !.name = n, !.set = @ \cup {"fullName"}]
  <2>1. row \in ContactRow /\ row.val = contact[c].val /\ row.prov = contact[c].prov
    BY <1>0, ResearchAssumption DEF ContactRow, Other
  <2>2. contact' = [contact EXCEPT ![c] = row] /\ UNCHANGED <<reports, refers, removed, into>>
    BY <1>0, <1>1 DEF HumanRename, Table
  <2> HIDE DEF row
  <2> QED BY <1>0, <2>1, <2>2, OneRow DEF Kept, Trusted
<1>2. ASSUME NEW n \in Called, HumanRenameZh(c, n.han)
      PROVE  AllKept /\ Rows' = Rows /\ UNCHANGED <<reports, refers, removed, into>>
  <2> DEFINE row == [contact[c] EXCEPT !.zh = n.han, !.set = @ \cup {"fullNameZh"}]
  <2>1. n.han \in Han \cup {None}
    BY ResearchAssumption DEF Name
  <2>2. row \in ContactRow /\ row.val = contact[c].val /\ row.prov = contact[c].prov
    BY <1>0, <2>1 DEF ContactRow, Other
  <2>3. contact' = [contact EXCEPT ![c] = row] /\ UNCHANGED <<reports, refers, removed, into>>
    BY <1>0, <1>2 DEF HumanRenameZh, Table
  <2> HIDE DEF row
  <2> QED BY <1>0, <2>2, <2>3, OneRow DEF Kept, Trusted
<1>3. ASSUME NEW b \in Rows \cup {None}, SetSuperior(c, b)
      PROVE  AllKept /\ Rows' = Rows /\ UNCHANGED <<refers, removed, into>> /\ reports' = [reports EXCEPT ![c] = b]
  <2> DEFINE row == [contact[c] EXCEPT !.set = @ \cup {"reportsToContactId"}]
  <2>1. row \in ContactRow /\ row.val = contact[c].val /\ row.prov = contact[c].prov
    BY <1>0 DEF ContactRow, Other
  <2>2. contact' = [contact EXCEPT ![c] = row] /\ UNCHANGED <<refers, removed, into>> /\ reports' = [reports EXCEPT ![c] = b]
    BY <1>0, <1>3 DEF SetSuperior, Table
  <2> HIDE DEF row
  <2> QED BY <1>0, <2>1, <2>2, OneRow DEF Kept, Trusted
<1>4. ASSUME NEW v \in Typed, AiDraft(c, v)
      PROVE  AllKept /\ Rows' = Rows /\ UNCHANGED <<reports, refers, removed, into>>
  <2> DEFINE val  == [contact[c].val EXCEPT !["email"] = v]
             prov == [contact[c].prov EXCEPT !["email"] = [trusted |-> FALSE, value |-> v]]
             row  == [contact[c] EXCEPT !.val = val, !.prov = prov]
  <2>1. [trusted |-> FALSE, value |-> v] \in Provenance /\ v \in SUBSET Text
    BY ResearchAssumption DEF Provenance
  <2>2. contact[c].val \in [Field -> SUBSET Text] /\ contact[c].prov \in [Field -> Provenance]
    BY <1>0 DEF ContactRow, Values
  <2>3. val \in [Field -> SUBSET Text] /\ prov \in [Field -> Provenance]
    BY <2>1, <2>2
  <2>4. row \in ContactRow /\ row.val = val /\ row.prov = prov
    BY <1>0, <2>3 DEF ContactRow, Values
  <2>5. contact' = [contact EXCEPT ![c] = row] /\ UNCHANGED <<reports, refers, removed, into>>
    BY <1>0, <1>4 DEF AiDraft, Table, ContactRow
  <2>6. "email" \notin Trusted(contact[c])
    BY <1>4 DEF AiDraft
  <2>7. \A f \in Trusted(contact[c]) : f \in Field /\ prov[f] = contact[c].prov[f] /\ val[f] = contact[c].val[f]
    BY <2>2, <2>6 DEF Trusted
  <2> HIDE DEF row, val, prov
  <2>8. Kept(contact[c], row)
    BY <2>4, <2>7 DEF Kept, Trusted
  <2> QED BY <1>0, <2>4, <2>5, <2>8, OneRow
<1> QED BY <1>1, <1>2, <1>3, <1>4 DEF Retouched

(* A human edits one row, and of its fields one.                             *)
LEMMA EditOf ==
  ASSUME ContactsTypeOK, NEW c \in Id, NEW f \in Field,
         Confirm(c, f) \/ \E v \in Typed : HumanUpdate(c, f, v)
  PROVE  /\ contact' \in Table /\ Rows' = Rows /\ NoChartChange
         /\ Confirm(c, f) => \A d \in Rows : contact'[d].val = contact[d].val
         /\ \A d \in Rows, g \in Field : d # c \/ g # f => contact'[d].val[g] = contact[d].val[g]
<1>0. contact \in Table /\ c \in Rows /\ contact[c] \in ContactRow
  BY ContactsTypes, RowOf, RowsOf DEF Confirm, HumanUpdate
<1>1. CASE Confirm(c, f)
  <2> DEFINE row == [contact[c] EXCEPT !.prov[f].trusted = TRUE]
  <2>1. contact[c].prov[f] \in [trusted : BOOLEAN, value : SUBSET Text]
    BY <1>0, <1>1 DEF Confirm, ContactRow, Provenance
  <2>2. [contact[c].prov[f] EXCEPT !.trusted = TRUE] \in Provenance
    BY <2>1 DEF Provenance
  <2>3. row = [contact[c] EXCEPT !.prov = [contact[c].prov EXCEPT ![f] = [contact[c].prov[f] EXCEPT !.trusted = TRUE]]]
    BY <1>0 DEF ContactRow
  <2>4. row \in ContactRow /\ row.val = contact[c].val
    BY <1>0, <2>2, <2>3 DEF ContactRow
  <2>5. contact' = [contact EXCEPT ![c] = row] /\ NoChartChange
    BY <1>0, <1>1 DEF Confirm, Table, NoChartChange
  <2> HIDE DEF row
  <2> QED BY <1>0, <2>4, <2>5, RowKinds DEF Table, Rows
<1>2. ASSUME NEW v \in Typed, HumanUpdate(c, f, v)
      PROVE  /\ contact' \in Table /\ Rows' = Rows /\ NoChartChange
             /\ \A d \in Rows, g \in Field : d # c \/ g # f => contact'[d].val[g] = contact[d].val[g]
  <2> DEFINE row == [contact[c] EXCEPT !.val[f] = v, !.prov[f] = [trusted |-> TRUE, value |-> v]]
             val == [contact[c].val EXCEPT ![f] = v]
             prov == [contact[c].prov EXCEPT ![f] = [trusted |-> TRUE, value |-> v]]
  <2>1. v \in SUBSET Text
    BY ResearchAssumption
  <2>2. val \in Values /\ prov \in [Field -> Provenance]
    <3>1. [trusted |-> TRUE, value |-> v] \in Provenance
      BY <2>1 DEF Provenance
    <3>2. contact[c].val \in Values /\ contact[c].prov \in [Field -> Provenance]
      BY <1>0 DEF ContactRow
    <3> QED BY <2>1, <3>1, <3>2 DEF Values
  <2>3. row = [contact[c] EXCEPT !.val = val, !.prov = prov]
    BY <1>0 DEF ContactRow
  <2>4. row \in ContactRow /\ row.val = val
    BY <1>0, <2>2, <2>3 DEF ContactRow
  <2>5. contact' = [contact EXCEPT ![c] = row] /\ NoChartChange
    BY <1>0, <1>2 DEF HumanUpdate, Table, NoChartChange
  <2>6. \A g \in Field : g # f => val[g] = contact[c].val[g]
    BY <1>0 DEF ContactRow, Values
  <2> HIDE DEF row, val
  <2> QED BY <1>0, <2>4, <2>5, <2>6, RowKinds DEF Table, Rows
<1> QED BY <1>1, <1>2

(* One line of the org chart is drawn by a human.                            *)
LEMMA DrawnOf ==
  ASSUME ContactsTypeOK, RefsInv, AllKept, UNCHANGED <<refers, removed, into>>,
         NEW c \in Rows', NEW b \in Rows \cup {None}, reports' = [reports EXCEPT ![c] = b]
  PROVE  ContactsTypeOK' /\ RefsInv'
<1>1. b \in Id \cup {None} /\ b \in There' /\ c \in Id
  BY DEF Rows, AllKept, There
<1>2. reports' \in [Id -> Id \cup {None}] /\ \A d \in Id : reports'[d] = IF d = c THEN b ELSE reports[d]
  BY <1>1, ContactsTypes
<1>3. ContactsTypeOK'
  BY <1>2, ContactsTypes DEF AllKept, ContactsTypeOK, Table
<1>4. There \subseteq There'
  BY DEF AllKept, There
<1>5. ChartOK'
  BY <1>2 DEF RefsInv, ChartOK, AllKept, Rows
<1>6. ASSUME NEW d \in Rows' PROVE reports'[d] \in There' \/ into'[reports'[d]] = d
  <2>1. CASE d = c
    BY <1>1, <1>2, <2>1
  <2>2. CASE d # c /\ d \in Rows
    BY <1>2, <1>4, <2>2 DEF RefsInv, RefsResolve, Rows
  <2>3. CASE d # c /\ d \notin Rows
    BY <1>2, <1>6, <2>3 DEF RefsInv, ChartOK, There, Rows
  <2> QED BY <2>1, <2>2, <2>3
<1> QED BY <1>3, <1>4, <1>5, <1>6 DEF RefsInv, RefsResolve

LEMMA UserRefs ==
  ASSUME ContactsTypeOK, RefsInv, User
  PROVE  ContactsTypeOK' /\ RefsInv'
<1>0. /\ contact \in Table /\ refers \in [Deal -> Id \cup {None}] /\ removed \subseteq Id
      /\ reports \in [Id -> Id \cup {None}]
  BY ContactsTypes
<1>1. ASSUME NEW n \in Called, NEW t \in Typed, NEW b \in Rows \cup {None},
             CreateContact(n, [f \in Field |-> IF f = "title" THEN t ELSE {}], b)
      PROVE  ContactsTypeOK' /\ RefsInv'
  <2>1. PICK c \in Id : contact'[c] # NoRow /\ reports' = [reports EXCEPT ![c] = b]
    BY <1>1, CreateOf
  <2>2. c \in Rows'
    BY <2>1 DEF Rows
  <2> QED BY <1>1, <2>1, <2>2, CreateOf, DrawnOf
<1>2. ASSUME NEW c \in Id, NEW f \in Field, Confirm(c, f) \/ \E v \in Typed : HumanUpdate(c, f, v)
      PROVE  ContactsTypeOK' /\ RefsInv'
  <2>1. contact' \in Table /\ Rows' = Rows /\ NoChartChange
    BY <1>2, EditOf
  <2> QED BY <1>0, <2>1 DEF ContactsTypeOK, Table, RefsInv, RefsResolve, There, ChartOK, NoChartChange, Rows
<1>3. ASSUME NEW c \in Id, DeleteContact(c) PROVE ContactsTypeOK' /\ RefsInv'
  <2>1. contact' = [contact EXCEPT ![c] = NoRow] /\ removed' = removed \cup {c} /\ UNCHANGED <<refers, into>>
        /\ reports' = [reports EXCEPT ![c] = None]
    BY <1>3 DEF DeleteContact
  <2>2. contact' \in Table /\ reports' \in [Id -> Id \cup {None}]
        /\ \A d \in Id : reports'[d] = IF d = c THEN None ELSE reports[d]
    BY <1>0, <2>1 DEF Table
  <2>3. Rows' = Rows \ {c} /\ There' = There \cup {c}
    BY <1>0, <2>1, <1>3 DEF Rows, Table, There
  <2>4. ContactsTypeOK'
    BY <1>0, <2>1, <2>2 DEF ContactsTypeOK, Table
  <2>5. ChartOK'
    BY <1>0, <2>1, <2>2 DEF RefsInv, ChartOK, Table
  <2>6. RefsResolve'
    BY <2>1, <2>2, <2>3 DEF RefsInv, RefsResolve, Rows
  <2> QED BY <2>4, <2>5, <2>6 DEF RefsInv
<1>4. ASSUME NEW c \in Id, NEW d \in Deal, Refer(d, c) PROVE ContactsTypeOK' /\ RefsInv'
  <2>1. c \in Rows /\ Rows' = Rows /\ UNCHANGED <<contact, reports, removed, into>>
    BY <1>4 DEF Refer, Rows
  <2> QED BY <1>0, <1>4, <2>1 DEF Refer, ContactsTypeOK, RefsInv, RefsResolve, There, ChartOK
<1>5. ASSUME NEW c \in Id, Retouched(c) PROVE ContactsTypeOK' /\ RefsInv'
  <2>1. AllKept /\ Rows' = Rows /\ UNCHANGED <<refers, removed, into>>
    BY <1>5, RetouchOf
  <2>2. CASE reports' = reports
    BY <2>1, <2>2, CrawlRefs DEF NoChartChange
  <2>3. ASSUME NEW b \in Rows \cup {None}, reports' = [reports EXCEPT ![c] = b] PROVE ContactsTypeOK' /\ RefsInv'
    <3>1. c \in Rows'
      BY <1>5, <2>1 DEF Retouched, HumanRename, HumanRenameZh, SetSuperior, AiDraft
    <3> QED BY <2>1, <2>3, <3>1, DrawnOf
  <2> QED BY <1>5, <2>2, <2>3, RetouchOf
<1> QED BY <1>1, <1>2, <1>3, <1>4, <1>5 DEF User, Retouched
-----------------------------------------------------------------------------
(* The jobs. *)
Final == \A j \in Job : job[j] \in Ended => job'[j] = job[j]
JobsStay == JobsType' /\ JobOK' /\ Final

LEMMA RunOf ==
  ASSUME NEW r \in Run, NEW at \in {"over", "start"} \cup Working
  PROVE  /\ [r EXCEPT !.at = at] \in Run /\ [r EXCEPT !.at = at].at = at
         /\ NoRun \in Run /\ NoRun.at = "over"
BY DEF Run, NoRun

LEMMA EndsOf ==
  ASSUME JobsType, JobOK, NEW j \in Job, NEW as \in Ended, Ends(j, as), edits' = edits,
         run[j].at \in Working
  PROVE  JobsStay
<1>1. /\ job' = [job EXCEPT ![j] = IF job[j] = "running" THEN as ELSE job[j]]
      /\ run' = [run EXCEPT ![j] = NoRun] /\ NoRun \in Run /\ NoRun.at = "over"
  BY RunOf DEF JobsType, Ends, Run
<1>2. JobsType'
  BY <1>1 DEF JobsType
<1>3. job[j] # "queued" /\ job'[j] # "queued" /\ job'[j] # "running"
  BY <1>1 DEF JobsType, JobOK, At, Working, Ended
<1>4. JobOK'
  BY <1>1, <1>3 DEF JobsType, JobOK, At
<1>5. Final
  BY <1>1 DEF JobsType, Final, Ended
<1> QED BY <1>2, <1>4, <1>5 DEF JobsStay

(* One run goes on, to another part of its work.                             *)
LEMMA GoesOf ==
  ASSUME JobsType, JobOK, NEW j \in Job, NEW r \in Run, r.at \in Working, run[j].at \in Working,
         run' = [run EXCEPT ![j] = r], UNCHANGED <<job, edits>>
  PROVE  JobsStay
<1>1. JobsType'
  BY DEF JobsType
<1>2. JobOK'
  BY DEF JobsType, JobOK, At, Working
<1> QED BY <1>1, <1>2 DEF JobsStay, Final

LEMMA PersonJobs ==
  ASSUME JobsType, JobOK, NEW j \in Job, NEW s, At(j, "ask"), PersonOver(j, s), edits' = edits
  PROVE  JobsStay
<1> DEFINE r == [run[j] EXCEPT !.at = "enrich", !.saved = @ \ {s}]
<1>1. run' = [run EXCEPT ![j] = r] /\ job' = job /\ run[j].at = "ask"
  BY DEF PersonOver, JobsType, At
<1>2. r \in Run /\ r.at \in Working
  BY DEF JobsType, Run, Working
<1> HIDE DEF r
<1> QED BY <1>1, <1>2, GoesOf DEF Working

LEMMA CrawlJobs ==
  ASSUME ContactsTypeOK, JobsType, JobOK, NEW j \in Job, Crawl(j), edits' = edits
  PROVE  JobsStay
<1>1. ASSUME NEW p \in Found, Standard(j, p) \/ StandardContact(j, p) PROVE JobsStay
  <2>1. Ends(j, "done") /\ run[j].at \in Working
    BY <1>1 DEF Standard, StandardContact, At, Working
  <2> QED BY <2>1, EndsOf DEF Ended
<1>2. ASSUME NEW site \in Found, NEW web \in Found, Persist(j, site, web) PROVE JobsStay
  <2>1. contact' \in Table /\ run[j].at \in Working /\ job' = job
    BY <1>2, CrawlKeeps DEF AllKept, Crawl, Persist, At, Working
  <2>2. Match(contact', web) # {} => Saved(contact', web) \in NewContact
    <3>1. Match(contact', web) # {} => First(Match(contact', web)) \in Occupied(contact')
      BY MatchOf, FirstOf DEF Occupied
    <3>2. Match(contact', web) # {} => contact'[First(Match(contact', web))] \in ContactRow
      BY <2>1, <3>1, RowOf
    <3> QED BY <3>2 DEF Saved, NewContact, ContactRow
  <2> DEFINE saved == IF Match(contact', web) = {} THEN {} ELSE {Saved(contact', web)}
             r == [run[j] EXCEPT !.at = "enrich", !.saved = saved]
  <2>3. run' = [run EXCEPT ![j] = r]
    BY <1>2 DEF Persist, JobsType
  <2>4. saved \in SUBSET NewContact
    BY <2>2
  <2> HIDE DEF saved
  <2>5. r \in Run /\ r.at \in Working
    BY <2>4 DEF JobsType, Run, Working
  <2> HIDE DEF r
  <2> QED BY <2>1, <2>3, <2>5, GoesOf
<1>3. ASSUME NEW s \in run[j].saved, NEW found \in Found, EnrichPerson(j, s, found) PROVE JobsStay
  BY <1>3, PersonJobs DEF EnrichPerson
<1> QED BY <1>1, <1>2, <1>3 DEF Crawl

LEMMA AsideJobs ==
  ASSUME JobsType, JobOK, NEW j \in Job, Aside(j), edits' = edits
  PROVE  JobsStay
<1>0. run[j] \in Run /\ job \in [Job -> {"none", "queued", "running"} \cup Ended] /\ run \in [Job -> Run]
  BY DEF JobsType
<1>1. CASE CreateJob(j)
  <2>1. job' = [job EXCEPT ![j] = "queued"] /\ run' = [run EXCEPT ![j] = [run[j] EXCEPT !.at = "start"]] /\ job[j] = "none"
    BY <1>0, <1>1 DEF CreateJob, Goes
  <2>2. [run[j] EXCEPT !.at = "start"] \in Run /\ [run[j] EXCEPT !.at = "start"].at = "start"
    BY <1>0, RunOf
  <2>3. JobsType' /\ JobOK'
    BY <1>0, <2>1, <2>2 DEF JobsType, JobOK, At
  <2> QED BY <1>0, <2>1, <2>3 DEF JobsStay, Final, Ended
<1>2. CASE MarkRunning(j)
  <2>1. job' = [job EXCEPT ![j] = "running"] /\ run' = [run EXCEPT ![j] = [run[j] EXCEPT !.at = "gather"]] /\ job[j] = "queued"
    BY <1>0, <1>2 DEF MarkRunning, Goes, JobOK
  <2>2. [run[j] EXCEPT !.at = "gather"] \in Run /\ [run[j] EXCEPT !.at = "gather"].at = "gather"
    BY <1>0, RunOf DEF Working
  <2>3. JobsType' /\ JobOK'
    BY <1>0, <2>1, <2>2 DEF JobsType, JobOK, At, Working
  <2> QED BY <1>0, <2>1, <2>3 DEF JobsStay, Final, Ended
<1>3. CASE EnrichOver(j)
  <2> DEFINE r == [NoRun EXCEPT !.at = "tail"]
  <2>1. run' = [run EXCEPT ![j] = r] /\ job' = job /\ run[j].at = "enrich"
    BY <1>3 DEF EnrichOver, At
  <2>2. r \in Run /\ r.at \in Working
    BY DEF Run, NoRun, Working
  <2> HIDE DEF r
  <2> QED BY <2>1, <2>2, GoesOf DEF Working
<1>4. CASE TooLate(j) \/ Fail(j)
  <2>1. run[j].at \in Working /\ \E as \in Ended : Ends(j, as)
    BY <1>4 DEF TooLate, Fail, At, Working, Ended
  <2> QED BY <2>1, EndsOf
<1>5. CASE HardTimeout(j)
  <2>1. job' = [job EXCEPT ![j] = "failed"] /\ run' = run /\ job[j] = "running" /\ run[j].at \in Working
    BY <1>5 DEF HardTimeout
  <2>2. JobsType' /\ JobOK'
    BY <1>0, <2>1 DEF JobsType, JobOK, At, Working, Ended
  <2> QED BY <1>0, <2>1, <2>2 DEF JobsStay, Final, Ended
<1>6. CASE AskPerson(j)
  <2> DEFINE r == [run[j] EXCEPT !.at = "ask"]
  <2>1. run' = [run EXCEPT ![j] = r] /\ job' = job /\ run[j].at = "enrich"
    BY <1>0, <1>6 DEF AskPerson, Goes, At
  <2>2. r \in Run /\ r.at \in Working
    BY <1>0, RunOf DEF Working
  <2> HIDE DEF r
  <2> QED BY <2>1, <2>2, GoesOf DEF Working
<1>7. ASSUME NEW s \in run[j].saved, PersonNotFound(j, s) PROVE JobsStay
  BY <1>7, PersonJobs DEF PersonNotFound
<1> QED BY <1>1, <1>2, <1>3, <1>4, <1>5, <1>6, <1>7 DEF Aside

LEMMA RestartJobs ==
  ASSUME JobsType, JobOK, Restart, edits' = edits
  PROVE  JobsStay
<1>1. NoRun \in Run /\ NoRun.at = "over"
  BY DEF Run, NoRun
<1>2. JobsType' /\ JobOK'
  BY <1>1 DEF Restart, JobsType, JobOK, Left, Ended, At
<1>3. Final
  BY DEF Restart, Final, Left, Ended
<1> QED BY <1>2, <1>3 DEF JobsStay
-----------------------------------------------------------------------------
LEMMA StaysRefs ==
  ASSUME ContactsTypeOK, RefsInv, NoContactChange
  PROVE  ContactsTypeOK' /\ RefsInv'
BY DEF NoContactChange, NoChartChange, ContactsTypeOK, RefsInv, RefsResolve, There, ChartOK, Rows

LEMMA ResearchStep ==
  ASSUME ResearchInv, [ResearchNext]_researchVars
  PROVE  ResearchInv' /\ Final
<1>0. ContactsTypeOK /\ JobsType /\ JobOK /\ RefsInv
  BY DEF ResearchInv
<1>1. CASE User
  <2>1. edits' \in 0..MaxEdits /\ UNCHANGED <<job, run>>
    BY <1>0, <1>1, ResearchAssumption DEF User, JobsType
  <2>2. JobsStay
    BY <1>0, <2>1 DEF JobsType, JobOK, At, JobsStay, Final
  <2> QED BY <1>0, <1>1, <2>2, UserRefs DEF ResearchInv, JobsStay
<1>2. CASE Work /\ UNCHANGED edits
  <2>1. CASE Restart
    <3>1. NoContactChange
      BY <2>1 DEF Restart
    <3> QED BY <1>0, <1>2, <2>1, <3>1, RestartJobs, StaysRefs DEF ResearchInv, JobsStay
  <2>2. ASSUME NEW j \in Job, Crawl(j) PROVE ResearchInv' /\ Final
    BY <1>0, <1>2, <2>2, CrawlJobs, CrawlKeeps, CrawlRefs DEF ResearchInv, JobsStay
  <2>3. ASSUME NEW j \in Job, Dedupe(j) PROVE ResearchInv' /\ Final
    <3>1. Ends(j, "done") /\ run[j].at \in Working
      BY <2>3 DEF Dedupe, At, Working
    <3>2. JobsStay
      BY <1>0, <1>2, <3>1, EndsOf DEF Ended
    <3> QED BY <1>0, <2>3, <3>2, DedupeRefs DEF ResearchInv, JobsStay
  <2>4. ASSUME NEW j \in Job, Aside(j) PROVE ResearchInv' /\ Final
    <3>1. NoContactChange
      BY <2>4 DEF Aside, AskPerson, PersonNotFound, CreateJob, MarkRunning, EnrichOver, TooLate, Fail, HardTimeout
    <3> QED BY <1>0, <1>2, <2>4, <3>1, AsideJobs, StaysRefs DEF ResearchInv, JobsStay
  <2> QED BY <1>2, <2>1, <2>2, <2>3, <2>4, WorkKinds
<1>3. CASE UNCHANGED researchVars
  <2>1. NoContactChange /\ UNCHANGED <<job, run, edits>>
    BY <1>3 DEF researchVars, NoContactChange, NoChartChange
  <2> QED BY <1>0, <2>1, StaysRefs DEF ResearchInv, JobsType, JobOK, At, Final
<1> QED BY <1>1, <1>2, <1>3 DEF ResearchNext

LEMMA ResearchAlways == ResearchSpec => []ResearchInv
<1>1. ResearchInv /\ [ResearchNext]_researchVars => ResearchInv'
  BY ResearchStep
<1> QED BY <1>1, ResearchStart, PTL DEF ResearchSpec

(* Type correctness.                                                         *)
THEOREM ContactsTyped == ResearchSpec => []ResearchTypeOK
<1>1. ResearchInv => ResearchTypeOK
  BY ResearchTypes DEF ResearchInv
<1> QED BY <1>1, ResearchAlways, PTL

(* Whatever is merged, and whenever, what refers to a contact refers to one   *)
(* there is, or to one a user has deleted; only a survivor's own place in the *)
(* org chart may be under a row that was merged into it.                     *)
THEOREM ReferencesHold == ResearchSpec => []RefsResolve
<1>1. ResearchInv => RefsResolve
  BY DEF ResearchInv, RefsInv
<1> QED BY <1>1, ResearchAlways, PTL

(* A job in progress has a run that will end it: none is left behind by a     *)
(* timeout, a failure or a restart.                                          *)
THEOREM JobsAreRun == ResearchSpec => []JobOK
<1>1. ResearchInv => JobOK
  BY DEF ResearchInv
<1> QED BY <1>1, ResearchAlways, PTL

(* A job ends once: no answer that comes after the timeout, and no restart,   *)
(* changes what the user was told.                                           *)
THEOREM JobEndsOnce == ResearchSpec => OneOutcome
<1>1. ResearchInv /\ [ResearchNext]_researchVars => [\A j \in Job : job[j] \in Ended => job'[j] = job[j]]_researchVars
  BY ResearchStep DEF Final
<1> QED BY <1>1, ResearchAlways, PTL DEF ResearchSpec, OneOutcome

(* The end of a deep run leaves one row for one person, except in a group     *)
(* left to humans.                                                           *)
THEOREM OnePersonOneRow == ResearchSpec => DedupeConverges
<1>1. ASSUME ResearchInv, NEW j \in Job, Dedupe(j), NEW c \in Rows', NEW d \in Rows', c # d, Same(contact'[c], contact'[d])
      PROVE  \E x \in {c, d} : LeftToHumans(contact, Key(contact, x))
  <2>1. contact \in Table /\ contact' = Deduped(contact)
    BY <1>1, ContactsTypes DEF ResearchInv, Dedupe, DedupeContacts
  <2>2. c \in Occupied(Deduped(contact)) /\ d \in Occupied(Deduped(contact))
    BY <2>1, RowsOf
  <2> QED BY <1>1, <2>1, <2>2, MergeConverges
<1>2. ResearchInv => [\A j \in Job : Dedupe(j) =>
       \A c, d \in Rows' : c # d /\ Same(contact'[c], contact'[d]) =>
          \E x \in {c, d} : LeftToHumans(contact, Key(contact, x))]_researchVars
  BY <1>1
<1> QED BY <1>2, ResearchAlways, PTL DEF DedupeConverges

(* What a human typed or confirmed stays, until a human changes it.          *)
THEOREM HumanWorkKept == ResearchSpec => TypedValueKept
<1> DEFINE Stays(c, f) ==
       \/ contact[c].val[f] = {}
       \/ contact'[c] # NoRow /\ contact[c].val[f] \subseteq contact'[c].val[f]
       \/ \E v \in Typed : HumanUpdate(c, f, v)
       \/ DeleteContact(c)
<1>1. ASSUME ResearchInv, ResearchNext, NEW c \in Rows, NEW f \in Trusted(contact[c]) PROVE Stays(c, f)
  <2>0. ContactsTypeOK /\ JobsType /\ contact \in Table /\ c \in Occupied(contact) /\ c \in Id /\ contact[c] # NoRow /\ f \in Field
    BY <1>1, ContactsTypes, RowsOf DEF ResearchInv, Rows, Trusted
  <2>1. AllKept => Stays(c, f)
    BY <2>0, RowsOf DEF AllKept, Kept, Occupied
  <2>2. contact' = contact => Stays(c, f)
    BY <2>0
  <2>3. CASE User
    <3>1. ASSUME NEW n \in Called, NEW t \in Typed, NEW b \in Rows \cup {None},
                 CreateContact(n, [g \in Field |-> IF g = "title" THEN t ELSE {}], b)
          PROVE  Stays(c, f)
      <4>1. AllKept
        BY <2>0, <3>1, CreateOf
      <4> QED BY <2>1, <4>1
    <3>2. ASSUME NEW d \in Id, NEW g \in Field, Confirm(d, g) \/ \E v \in Typed : HumanUpdate(d, g, v)
          PROVE  Stays(c, f)
      <4>1. c \in Rows' /\ (Confirm(d, g) => contact'[c].val = contact[c].val)
            /\ (d # c \/ g # f => contact'[c].val[f] = contact[c].val[f])
        BY <1>1, <2>0, <3>2, EditOf
      <4>2. contact'[c] # NoRow
        BY <4>1 DEF Rows
      <4> QED BY <3>2, <4>1, <4>2
    <3>3. ASSUME NEW d \in Id, DeleteContact(d) PROVE Stays(c, f)
      <4>1. d # c => contact'[c] = contact[c]
        BY <2>0, <3>3 DEF DeleteContact, Table
      <4> QED BY <2>0, <3>3, <4>1
    <3>4. ASSUME NEW d \in Id, NEW e \in Deal, Refer(e, d) PROVE Stays(c, f)
      BY <2>2, <3>4 DEF Refer
    <3>5. ASSUME NEW d \in Id, Retouched(d) PROVE Stays(c, f)
      <4>1. AllKept
        BY <2>0, <3>5, RetouchOf
      <4> QED BY <2>1, <4>1
    <3> QED BY <2>3, <3>1, <3>2, <3>3, <3>4, <3>5 DEF User, Retouched
  <2>4. CASE Work
    <3>1. CASE Restart
      BY <2>2, <3>1 DEF Restart, NoContactChange
    <3>2. ASSUME NEW j \in Job, Crawl(j) PROVE Stays(c, f)
      <4>1. AllKept
        BY <2>0, <3>2, CrawlKeeps
      <4> QED BY <2>1, <4>1
    <3>3. ASSUME NEW j \in Job, Dedupe(j) PROVE Stays(c, f)
      <4>1. contact' = Deduped(contact)
        BY <3>3 DEF Dedupe, DedupeContacts
      <4>2. c \in Occupied(contact') /\ contact[c].val[f] \subseteq contact'[c].val[f]
        BY <1>1, <2>0, <4>1, MergeKeeps
      <4> QED BY <4>2 DEF Occupied
    <3>4. ASSUME NEW j \in Job, Aside(j) PROVE Stays(c, f)
      <4>1. contact' = contact
        BY <3>4 DEF Aside, AskPerson, PersonNotFound, CreateJob, MarkRunning, EnrichOver, TooLate, Fail, HardTimeout, NoContactChange
      <4> QED BY <2>2, <4>1
    <3> QED BY <2>4, <3>1, <3>2, <3>3, <3>4, WorkKinds
  <2> QED BY <1>1, <2>3, <2>4 DEF ResearchNext
<1>2. ResearchInv /\ [ResearchNext]_researchVars =>
        [\A c \in Rows : \A f \in Trusted(contact[c]) : Stays(c, f)]_researchVars
  BY <1>1
<1>3. ResearchSpec => [][\A c \in Rows : \A f \in Trusted(contact[c]) : Stays(c, f)]_researchVars
  BY <1>2, ResearchAlways, PTL DEF ResearchSpec
<1> QED BY <1>3 DEF TypedValueKept
=============================================================================

----------------------------- MODULE Org_proofs -----------------------------
(* Proofs of who may belong where in Org, of what Access keeps of a member's *)
(* tokens and assignments, and of what SignIn spends once, for any number of *)
(* users, organizations, connections, requests and answers.                  *)
EXTENDS MCOrg, Sequences, FiniteSetTheorems, TLAPS

-----------------------------------------------------------------------------
(* Org: the invariants. *)

Pcs == {"idle", "invite", "own", "room", "others", "join", "spend", "lock", "write", "provision"}
States == {"none", "pending", "revoked", "accepted", "gone"}
MaybeOrgs == Orgs \union {None}
MaybeUsers == Users \union {None}
Memberships == [org : MaybeOrgs, role : Roles]
Invitations == [state : States, org : MaybeOrgs, user : MaybeUsers, role : Roles]
Asked ==
    [pc : Pcs, user : MaybeUsers, org : MaybeOrgs, role : Roles \union {None}, invite : Int,
     was : Memberships, alone : BOOLEAN, orgs : SUBSET Orgs, rows : SUBSET Users]

Accepting == {"own", "room", "others", "join", "spend"}

\* What TypeOK leaves open: requests and invitations, and whom and what they are about.
TypeInv ==
    /\ TypeOK
    /\ invites \in [InviteIds -> Invitations]
    /\ req \in [Requests -> Asked]
    /\ \A i \in InviteIds : invites[i].state = "pending" => invites[i].user \in Users
    /\ \A r \in Requests : /\ req[r].pc \notin {"idle", "provision"} => req[r].user \in Users /\ req[r].org \in Orgs
                           /\ req[r].pc \in Accepting \union {"invite"} => req[r].role \in Roles

\* An administrator of o other than the user of q is among the rows that q holds.
Survivor(q, o) == \E x \in q.rows \ {q.user} : member[x].org = o /\ member[x].role = "admin"

\* The rows of a request are of members, and are as they were when it locked them: the
\* user's own, and those of who stays behind.
RowsInv(r) ==
    LET q == req[r] IN
    /\ \A u \in q.rows : member[u].org # None
    /\ q.pc \in {"room", "others", "join"} =>
        /\ q.was.org # q.org
        /\ q.was.org # None => q.user \in q.rows /\ member[q.user] = q.was
    /\ q.pc = "others" => q.was.org # None
    /\ q.pc = "join" /\ q.was.org # None /\ q.was.role = "admin" /\ ~q.alone => Survivor(q, q.was.org)
    /\ q.pc \in {"lock", "write"} => q.was.org = q.org
    /\ Fresh /\ q.pc = "write" =>
        /\ q.user \in q.rows /\ member[q.user] = q.was
        /\ Demotes(q) => Survivor(q, q.org)

\* No row is locked twice.
Exclusive == \A r, s \in Requests : r # s => req[r].rows \intersect req[s].rows = {}

LockInv == Exclusive /\ \A r \in Requests : RowsInv(r)

\* An organization is locked once.
OrgsExclusive == \A r, s \in Requests : r # s => req[r].orgs \intersect req[s].orgs = {}

\* Who has found room has the organization locked, and there is room still.
RoomInv ==
    /\ OrgsExclusive
    /\ \A r \in Requests : req[r].pc \in {"others", "join"} /\ req[r].org \in exists =>
         req[r].org \in req[r].orgs /\ Cardinality(Members(req[r].org)) < Limits[req[r].org]

\* Invitations are numbered as they are made, and one that is accepted is for who accepts it.
For(q) ==
    invites[q.invite].state = "pending" => invites[q.invite].user = q.user /\ invites[q.invite].org = q.org

InviteInv ==
    /\ \E n \in 0 .. MaxInvites : Made = 1 .. n
    /\ \A i \in InviteIds \ Made : invites[i].org = None
    /\ \A r \in Requests : /\ req[r].pc \in Accepting =>
                                /\ req[r].invite \in Made
                                /\ For(req[r])
                           /\ req[r].alone => req[r].pc = "join" /\ req[r].was.org # None

-----------------------------------------------------------------------------
(* Types. *)

LEMMA ClosedRow == ASSUME NEW s \in States PROVE Closed(s) \in Invitations /\ Closed(s).state = s /\ Closed(s).org = None
PROOF
  BY DEF Closed, NoInvite, Invitations, States, Roles, MaybeOrgs, MaybeUsers

LEMMA IdleType == Idle \in Asked
  BY DEF Idle, Asked, Pcs, MaybeUsers, MaybeOrgs, Roles, Memberships, Nobody

LEMMA NewestType == Newest \in Int
PROOF
  <1>1. IsFiniteSet(Made)
    <2>1. IsFiniteSet(InviteIds)
      BY OrgAssumption, FS_Interval DEF InviteIds
    <2> QED BY <2>1, FS_Subset DEF Made
  <1> QED BY <1>1, FS_CardinalityType DEF Newest

LEMMA TypeInit == Init => TypeInv
PROOF
  <1> SUFFICES ASSUME Init PROVE TypeInv
    OBVIOUS
  <1> USE OrgAssumption, IdleType DEF Init
  <1>1. exists \subseteq Orgs /\ owned \subseteq exists
    OBVIOUS
  <1>2. member \in [Users -> [org : exists \union {None}, role : Roles]]
    BY DEF Roles
  <1>3. req \in [Requests -> Asked] /\ DOMAIN req = Requests /\ \A r \in Requests : req[r].pc = "idle"
    BY DEF Idle
  <1>4. /\ invites \in [InviteIds -> Invitations]
        /\ \A i \in InviteIds : invites[i].state = "none"
    BY DEF NoInvite, Invitations, States, MaybeOrgs, MaybeUsers, Roles
  <1> QED BY <1>1, <1>2, <1>3, <1>4 DEF TypeInv, TypeOK, Accepting

\* A request that becomes q.
LEMMA SetType ==
    ASSUME TypeInv, NEW r \in Requests, NEW q \in Asked, Set(r, q),
           q.pc \notin {"idle", "provision"} => q.user \in Users /\ q.org \in Orgs,
           q.pc \in Accepting \union {"invite"} => q.role \in Roles
    PROVE  /\ req' \in [Requests -> Asked] /\ DOMAIN req' = Requests
           /\ req'[r] = q /\ \A s \in Requests \ {r} : req'[s] = req[s]
           /\ \A s \in Requests : /\ req'[s].pc \notin {"idle", "provision"} => req'[s].user \in Users /\ req'[s].org \in Orgs
                                  /\ req'[s].pc \in Accepting \union {"invite"} => req'[s].role \in Roles
  BY DEF TypeInv, Set

\* The request alone has changed.
LEMMA OnlyRequest ==
    ASSUME TypeInv, NEW r \in Requests, NEW q \in Asked, Set(r, q),
           q.pc \notin {"idle", "provision"} => q.user \in Users /\ q.org \in Orgs,
           q.pc \in Accepting \union {"invite"} => q.role \in Roles,
           UNCHANGED <<exists, member, owned, invites>>
    PROVE  TypeInv'
  BY SetType DEF TypeInv, TypeOK

LEMMA TypeStep == TypeInv /\ LockInv /\ [Next]_vars => TypeInv'
PROOF
  <1> SUFFICES ASSUME TypeInv, LockInv, [Next]_vars PROVE TypeInv'
    OBVIOUS
  <1> USE DEF TypeInv, TypeOK, Accepting, Pcs, MaybeOrgs, MaybeUsers
  <1>0. /\ None \notin Orgs /\ MaxInvites \in Nat
        /\ exists \subseteq Orgs /\ member \in [Users -> Memberships]
    BY OrgAssumption DEF Memberships
  <1>1. \A r \in Requests : Set(r, Idle) /\ UNCHANGED <<exists, member, owned, invites>> => TypeInv'
    BY IdleType, OnlyRequest DEF Idle
  <1>2. ASSUME NEW r \in Requests, NEW o \in exists, NEW u \in Users, NEW as \in Roles, Invite(r, o, u, as)
        PROVE  TypeInv'
    <2> DEFINE q == [Idle EXCEPT !.pc = "invite", !.org = o, !.user = u, !.role = as, !.invite = Newest]
    <2>1. q \in Asked /\ q.pc = "invite" /\ q.user \in Users /\ q.org \in Orgs /\ q.role \in Roles
      <3>1. q.pc = "invite" /\ q.user = u /\ q.org = o /\ q.role = as
        BY IdleType DEF Asked
      <3>2. "invite" \in Pcs /\ u \in MaybeUsers /\ o \in MaybeOrgs /\ as \in Roles \union {None} /\ Newest \in Int /\ o \in Orgs
        <4>1. Newest \in Int
          BY NewestType
        <4> QED BY <1>0, <4>1
      <3>3. q \in Asked
        BY <3>2, IdleType DEF Asked
      <3> QED BY <3>1, <3>2, <3>3
    <2>2. Set(r, q) /\ UNCHANGED <<exists, member, owned, invites>>
      BY <1>2 DEF Invite
    <2>3. /\ q.pc \notin {"idle", "provision"} => q.user \in Users /\ q.org \in Orgs
          /\ q.pc \in Accepting \union {"invite"} => q.role \in Roles
      BY <2>1
    <2> HIDE DEF q, TypeInv, TypeOK
    <2> QED BY <2>1, <2>2, <2>3, OnlyRequest
  <1>3. ASSUME NEW r \in Requests, CreateInvite(r) PROVE TypeInv'
    <2> DEFINE q == req[r]
    <2>1. q \in Asked /\ q.user \in Users /\ q.org \in Orgs /\ q.role \in Roles /\ q.org \in exists
      BY <1>3 DEF CreateInvite
    <2>2. /\ invites' \in [InviteIds -> Invitations]
          /\ \A i \in InviteIds : invites'[i].state = "pending" => invites'[i].user \in Users /\ invites'[i].org \in exists
      <3>1. PICK seen \in Int \union {seen \in q.invite .. Newest : TRUE} :
              invites' = [i \in InviteIds |->
                IF i = Newest + 1 THEN [state |-> "pending", org |-> q.org, user |-> q.user, role |-> q.role]
                ELSE IF i <= seen /\ i \in Pending(q.org) /\ invites[i].user = q.user
                     THEN Closed("revoked") ELSE invites[i]]
        BY <1>3 DEF CreateInvite
      <3>2. [state |-> "pending", org |-> q.org, user |-> q.user, role |-> q.role] \in Invitations
        BY <2>1 DEF Invitations, States
      <3>3. Closed("revoked") \in Invitations /\ Closed("revoked").state # "pending"
        BY ClosedRow DEF States
      <3>4. \A i \in InviteIds : /\ invites'[i] \in Invitations
                                 /\ invites'[i].state = "pending" => invites'[i].user \in Users /\ invites'[i].org \in exists
        BY <3>1, <3>2, <3>3, <2>1 DEF Invitations
      <3> QED BY <3>1, <3>4
    <2>3. Set(r, Idle) /\ UNCHANGED <<exists, member, owned>>
      BY <1>3 DEF CreateInvite
    <2> QED BY <2>2, <2>3, IdleType, SetType DEF Idle
  <1>4. ASSUME NEW r \in Requests, NEW i \in InviteIds, Accept(r, i) PROVE TypeInv'
    <2> DEFINE q == [Idle EXCEPT !.pc = "own", !.invite = i, !.user = invites[i].user,
                                 !.org = invites[i].org, !.role = invites[i].role]
    <2>1. q \in Asked /\ q.pc = "own" /\ q.user \in Users /\ q.org \in Orgs /\ q.role \in Roles
      <3>1. /\ "own" \in Pcs /\ i \in Int /\ invites[i] \in Invitations /\ invites[i].user \in Users
            /\ invites[i].org \in Orgs
        BY <1>0, <1>4 DEF Accept, InviteIds
      <3>2. invites[i].role \in Roles
        BY <3>1 DEF Invitations
      <3>3. q \in Asked
        BY <3>1, <3>2, IdleType DEF Asked
      <3> QED BY <3>1, <3>2, <3>3, IdleType DEF Asked
    <2>2. Set(r, q) /\ UNCHANGED <<exists, member, owned, invites>>
      BY <1>4 DEF Accept
    <2>3. /\ q.pc \notin {"idle", "provision"} => q.user \in Users /\ q.org \in Orgs
          /\ q.pc \in Accepting \union {"invite"} => q.role \in Roles
      BY <2>1
    <2> HIDE DEF q, TypeInv, TypeOK
    <2> QED BY <2>1, <2>2, <2>3, OnlyRequest
  <1>5. ASSUME NEW r \in Requests, LockOwn(r) \/ Room(r) \/ Others(r) \/ LockAdmins(r) PROVE TypeInv'
    <2>1. req[r] \in Asked /\ req[r].user \in Users /\ req[r].org \in Orgs /\ member[req[r].user] \in Memberships
      BY <1>0, <1>5 DEF LockOwn, Room, Others, LockAdmins
    <2>2. CASE LockOwn(r)
      <3> DEFINE q == [req[r] EXCEPT !.was = member[req[r].user],
                          !.rows = IF member[req[r].user].org = None THEN {} ELSE {req[r].user},
                          !.pc = IF member[req[r].user].org = req[r].org THEN "spend" ELSE "room"]
      <3>1. q \in Asked /\ q.user = req[r].user /\ q.org = req[r].org /\ q.role = req[r].role /\ q.role \in Roles
        BY <2>1, <2>2 DEF Asked, LockOwn
      <3> QED BY <2>1, <2>2, <3>1, OnlyRequest DEF LockOwn
    <2>3. CASE Room(r)
      <3> DEFINE q == [req[r] EXCEPT !.pc = After(req[r]), !.orgs = {req[r].org} \intersect exists]
      <3>1. q \in Asked /\ q.user = req[r].user /\ q.org = req[r].org /\ q.role = req[r].role /\ q.role \in Roles
        BY <2>1, <2>3 DEF Asked, Room, After
      <3> QED BY <2>1, <2>3, <3>1, OnlyRequest DEF Room
    <2>4. CASE Others(r)
      <3> DEFINE others == Members(req[r].was.org) \ {req[r].user}
                 q == [req[r] EXCEPT !.pc = "join", !.alone = others = {}, !.rows = @ \union others]
      <3>1. q \in Asked /\ q.user = req[r].user /\ q.org = req[r].org /\ q.role = req[r].role /\ q.role \in Roles
        BY <2>1, <2>4 DEF Asked, Others, Members
      <3> QED BY <2>1, <2>4, <3>1, OnlyRequest DEF Others
    <2>5. CASE LockAdmins(r)
      <3> DEFINE q == [req[r] EXCEPT !.pc = "write", !.rows = Members(req[r].org)]
      <3>1. q \in Asked /\ q.user = req[r].user /\ q.org = req[r].org /\ q.pc = "write"
        BY <2>1, <2>5 DEF Asked, LockAdmins, Members
      <3> QED BY <2>1, <2>5, <3>1, OnlyRequest DEF LockAdmins
    <2> QED BY <1>5, <2>2, <2>3, <2>4, <2>5
  <1>6. ASSUME NEW r \in Requests, Join(r) PROVE TypeInv'
    <2> DEFINE q == req[r]
               dropped == IF q.alone THEN {q.was.org} ELSE {}
    <2>1. q \in Asked /\ q.user \in Users /\ q.org \in exists /\ q.role \in Roles
      BY <1>6 DEF Join
    <2>2. exists' = exists \ dropped /\ owned' = owned /\ Set(r, Idle) /\ (\A o \in dropped : o \notin owned)
      BY <1>6 DEF Join
    <2>3. q.was.org # q.org
      BY <1>6 DEF Join, LockInv, RowsInv
    <2>4. member' = [u \in Users |-> IF u = q.user THEN [org |-> q.org, role |-> q.role]
                                    ELSE IF member[u].org \in dropped THEN Nobody ELSE member[u]]
      BY <1>6 DEF Join
    <2>5. invites' = [i \in InviteIds |->
               IF i = q.invite THEN Closed("accepted") ELSE WithOrg(i, dropped)]
      BY <1>6 DEF Join
    <2>6. exists' \subseteq Orgs /\ owned' \subseteq exists' /\ q.org \in exists'
      BY <2>1, <2>2, <2>3
    <2> HIDE DEF dropped
    <2>7. member' \in [Users -> [org : exists' \union {None}, role : Roles]]
      <3>1. ASSUME NEW u \in Users PROVE member'[u] \in [org : exists' \union {None}, role : Roles]
        <4>1. CASE u = q.user
          BY <2>1, <2>4, <2>6, <4>1
        <4>2. CASE u # q.user /\ member[u].org \in dropped
          BY <2>4, <4>2 DEF Nobody, Roles
        <4>3. CASE u # q.user /\ member[u].org \notin dropped
          BY <2>2, <2>4, <4>3
        <4> QED BY <4>1, <4>2, <4>3
      <3> QED BY <2>4, <3>1
    <2>8. ASSUME NEW i \in InviteIds
          PROVE  /\ invites'[i] \in Invitations
                 /\ invites'[i].state = "pending" => invites'[i].user \in Users /\ invites'[i].org \in exists'
      <3>1. invites[i] \in Invitations
        OBVIOUS
      <3>2. /\ Closed("accepted") \in Invitations /\ Closed("accepted").state # "pending"
            /\ Closed("gone") \in Invitations /\ Closed("gone").state # "pending"
        BY ClosedRow DEF States
      <3> QED BY <2>2, <2>5, <3>1, <3>2 DEF WithOrg
    <2>9. invites' \in [InviteIds -> Invitations]
      BY <2>5, <2>8
    <2> QED BY <2>2, <2>6, <2>7, <2>8, <2>9, IdleType, SetType DEF Idle
  <1>7. ASSUME NEW r \in Requests, Spend(r) PROVE TypeInv'
    <2>1. /\ invites' \in [InviteIds -> Invitations]
          /\ \A i \in InviteIds : invites'[i].state = "pending" => invites'[i].user \in Users /\ invites'[i].org \in exists
      <3>1. /\ DOMAIN invites' = InviteIds /\ invites' = [j \in InviteIds |-> invites'[j]]
            /\ \A j \in InviteIds : invites'[j] = invites[j] \/ invites'[j] = Closed("accepted")
        BY <1>7 DEF Spend
      <3>2. ASSUME NEW j \in InviteIds
            PROVE  /\ invites'[j] \in Invitations
                   /\ invites'[j].state = "pending" => invites'[j].user \in Users /\ invites'[j].org \in exists
        <4>1. invites[j] \in Invitations
          OBVIOUS
        <4>2. Closed("accepted") \in Invitations /\ Closed("accepted").state # "pending"
          BY ClosedRow DEF States
        <4> QED BY <3>1, <4>1, <4>2
      <3> QED BY <3>1, <3>2
    <2> QED BY <1>7, <2>1, IdleType, SetType DEF Idle, Spend
  <1>8. ASSUME NEW r \in Requests, NEW u \in Users, NEW as \in Roles \union {None}, AskMember(r, u, as) PROVE TypeInv'
    <2> DEFINE q == [Idle EXCEPT !.pc = "lock", !.user = u, !.org = member[u].org, !.role = as, !.was = member[u]]
    <2>1. q \in Asked /\ q.pc = "lock" /\ q.user \in Users /\ q.org \in Orgs
      <3>1. "lock" \in Pcs /\ member[u] \in Memberships /\ member[u].org \in Orgs
        BY <1>0, <1>8 DEF AskMember, Memberships
      <3>2. as \in Roles \union {None} /\ u \in MaybeUsers /\ member[u].org \in MaybeOrgs
        BY <3>1
      <3>3. q \in Asked
        <4> HIDE DEF MaybeUsers, MaybeOrgs, Pcs
        <4> QED BY <3>1, <3>2, IdleType DEF Asked
      <3> QED BY <3>1, <3>3, IdleType DEF Asked
    <2>2. Set(r, q) /\ UNCHANGED <<exists, member, owned, invites>>
      BY <1>8 DEF AskMember
    <2>3. /\ q.pc \notin {"idle", "provision"} => q.user \in Users /\ q.org \in Orgs
          /\ q.pc \in Accepting \union {"invite"} => q.role \in Roles
      BY <2>1
    <2> HIDE DEF q, TypeInv, TypeOK
    <2> QED BY <2>1, <2>2, <2>3, OnlyRequest
  <1>9. ASSUME NEW r \in Requests, WriteMember(r) PROVE TypeInv'
    <2> DEFINE q == req[r]
    <2>1. q \in Asked /\ q.user \in Users
      BY <1>9 DEF WriteMember
    <2>2. member' \in [Users -> [org : exists \union {None}, role : Roles]]
      BY <1>9, <2>1 DEF WriteMember, Nobody, Roles, Asked
    <2> QED BY <1>9, <2>2, IdleType, SetType DEF WriteMember, Idle
  <1>10. ASSUME NEW r \in Requests, NEW o \in exists, AskConnection(r, o) PROVE TypeInv'
    <2> DEFINE q == [Idle EXCEPT !.pc = "provision", !.org = o]
    <2>1. q \in Asked /\ q.pc = "provision"
      BY <1>0, IdleType DEF Idle, Asked
    <2>2. Set(r, q) /\ UNCHANGED <<exists, member, owned, invites>>
      BY <1>10 DEF AskConnection
    <2>3. /\ q.pc \notin {"idle", "provision"} => q.user \in Users /\ q.org \in Orgs
          /\ q.pc \in Accepting \union {"invite"} => q.role \in Roles
      BY <2>1
    <2> HIDE DEF q, TypeInv, TypeOK
    <2> QED BY <2>1, <2>2, <2>3, OnlyRequest
  <1>11. ASSUME NEW r \in Requests, Provision(r) PROVE TypeInv'
    BY <1>11, IdleType, SetType DEF Provision, Idle
  <1>12. ASSUME NEW i \in InviteIds, RevokeInvite(i) PROVE TypeInv'
    <2>1. Closed("revoked") \in Invitations /\ Closed("revoked").state # "pending"
      BY ClosedRow DEF States
    <2> QED BY <1>12, <2>1 DEF RevokeInvite
  <1>13. ASSUME NEW r \in Requests, Request(r) PROVE TypeInv'
    BY <1>1, <1>2, <1>3, <1>4, <1>5, <1>6, <1>7, <1>8, <1>9, <1>10, <1>11, <1>13 DEF Request, Abort
  <1>14. CASE UNCHANGED vars
    BY <1>14 DEF vars
  <1> QED BY <1>12, <1>13, <1>14 DEF Next

-----------------------------------------------------------------------------
(* Locks. *)

\* What a request knows of the rows it holds stays so while they do.
LEMMA RowsStay ==
    ASSUME NEW s \in Requests, RowsInv(s), req'[s] = req[s],
           \A x \in req[s].rows : member'[x] = member[x]
    PROVE  RowsInv(s)'
PROOF
  <1>1. \A q \in {req[s]}, o \in {req[s].was.org, req[s].org} : Survivor(q, o) => Survivor(q, o)'
    BY DEF Survivor
  <1> QED BY <1>1 DEF RowsInv, Demotes

\* A request that becomes q, and writes no row that another has locked.
LEMMA LocksStay ==
    ASSUME TypeInv, LockInv, NEW r \in Requests, NEW q \in Asked, Set(r, q), RowsInv(r)',
           \A s \in Requests \ {r} : q.rows \intersect req[s].rows = {},
           \A s \in Requests \ {r} : \A x \in req[s].rows : member'[x] = member[x]
    PROVE  LockInv'
PROOF
  <1>1. req'[r] = q /\ \A s \in Requests \ {r} : req'[s] = req[s]
    BY DEF TypeInv, Set
  <1>2. \A s \in Requests \ {r} : RowsInv(s)'
    <2> SUFFICES ASSUME NEW s \in Requests \ {r} PROVE RowsInv(s)'
      OBVIOUS
    <2> QED BY <1>1, RowsStay DEF LockInv
  <1>3. Exclusive'
    <2> SUFFICES ASSUME NEW s \in Requests, NEW t \in Requests, s # t
                 PROVE  req'[s].rows \intersect req'[t].rows = {}
      BY DEF Exclusive
    <2> QED BY <1>1 DEF LockInv, Exclusive
  <1> QED BY <1>2, <1>3 DEF LockInv

\* One that ends has no rows.
LEMMA EndsLock ==
    ASSUME TypeInv, LockInv, NEW r \in Requests, Set(r, Idle),
           \A s \in Requests \ {r} : \A x \in req[s].rows : member'[x] = member[x]
    PROVE  LockInv'
PROOF
  <1>1. req'[r] = Idle
    BY DEF TypeInv, Set
  <1>2. RowsInv(r)'
    BY <1>1 DEF RowsInv, Idle
  <1> QED BY <1>2, IdleType, LocksStay DEF Idle

\* One that is not past its questions has none either.
LEMMA AsksLock ==
    ASSUME TypeInv, LockInv, NEW r \in Requests, NEW q \in Asked, Set(r, q), q.rows = {},
           q.pc \in {"invite", "own", "provision"} \/ (q.pc = "lock" /\ q.was.org = q.org),
           UNCHANGED member
    PROVE  LockInv'
PROOF
  <1>1. req'[r] = q
    BY DEF TypeInv, Set
  <1>2. RowsInv(r)'
    BY <1>1 DEF RowsInv
  <1> QED BY <1>2, LocksStay

LEMMA LockInit == Init => LockInv
  BY DEF Init, LockInv, Exclusive, RowsInv, Idle

LEMMA LockOwnLocks == ASSUME TypeInv, LockInv, NEW r \in Requests, LockOwn(r) PROVE LockInv'
PROOF
  <1> DEFINE p == req[r]
             current == member[p.user]
             q == [p EXCEPT !.was = current, !.rows = IF current.org = None THEN {} ELSE {p.user},
                            !.pc = IF current.org = p.org THEN "spend" ELSE "room"]
  <1>1. p \in Asked /\ p.user \in Users /\ p.pc = "own" /\ p.org \in Orgs
    BY DEF TypeInv, LockOwn
  <1>2. current \in Memberships
    BY <1>1 DEF TypeInv, TypeOK, Memberships, MaybeOrgs
  <1>3. q \in Asked /\ Set(r, q) /\ UNCHANGED member /\ FreeRows(r, {p.user})
    BY <1>1, <1>2 DEF LockOwn, Asked, Pcs
  <1>4. req'[r] = q
    BY <1>3 DEF TypeInv, Set
  <1>5. RowsInv(r)'
    BY <1>1, <1>3, <1>4 DEF RowsInv, Asked
  <1>6. \A s \in Requests \ {r} : q.rows \intersect req[s].rows = {}
    BY <1>1, <1>3 DEF FreeRows, Asked
  <1> QED BY <1>3, <1>5, <1>6, LocksStay

LEMMA RoomLocks == ASSUME TypeInv, LockInv, NEW r \in Requests, Room(r) PROVE LockInv'
PROOF
  <1> DEFINE p == req[r]
             q == [p EXCEPT !.pc = After(p), !.orgs = {p.org} \intersect exists]
  <1>1. p \in Asked /\ p.pc = "room" /\ RowsInv(r)
    BY DEF TypeInv, Room, LockInv
  <1>2. q \in Asked /\ Set(r, q) /\ UNCHANGED member
    BY <1>1 DEF Room, Asked, Pcs, After, TypeInv, TypeOK
  <1>3. req'[r] = q /\ q.rows = p.rows
    BY <1>1, <1>2 DEF TypeInv, Set, Asked
  <1>4. RowsInv(r)'
    BY <1>1, <1>2, <1>3 DEF RowsInv, Asked, After
  <1>5. \A s \in Requests \ {r} : q.rows \intersect req[s].rows = {}
    BY <1>3 DEF LockInv, Exclusive
  <1> QED BY <1>2, <1>4, <1>5, LocksStay

LEMMA OthersLocks == ASSUME TypeInv, LockInv, NEW r \in Requests, Others(r) PROVE LockInv'
PROOF
  <1> DEFINE p == req[r]
             others == Members(p.was.org) \ {p.user}
             q == [p EXCEPT !.pc = "join", !.alone = others = {}, !.rows = @ \union others]
  <1>1. p \in Asked /\ p.pc = "others" /\ RowsInv(r)
    BY DEF TypeInv, Others, LockInv
  <1>2. p.was.org # None /\ p.user \in p.rows /\ member[p.user] = p.was /\ p.was.org # p.org
    BY <1>1 DEF RowsInv
  <1>3. q \in Asked /\ Set(r, q) /\ UNCHANGED member /\ FreeRows(r, others)
    <2>1. others \in SUBSET Users
      BY DEF Members
    <2> HIDE DEF others
    <2> QED BY <1>1, <2>1 DEF Asked, Pcs, Others, others
  <1>4. req'[r] = q /\ q.rows = p.rows \union others /\ q.user = p.user /\ q.was = p.was /\ q.pc = "join"
        /\ q.org = p.org /\ q.alone = (others = {})
    BY <1>1, <1>3 DEF TypeInv, Set, Asked
  <1>5. p.was.role = "admin" /\ others # {} => \E x \in others : x \in Admins(p.was.org)
    BY DEF Others
  <1>6. RowsInv(r)'
    <2>1. \A u \in q.rows : member[u].org # None
      BY <1>1, <1>2, <1>4 DEF RowsInv, Members
    <2>2. q.was.role = "admin" /\ ~q.alone => Survivor(q, q.was.org)
      BY <1>4, <1>5 DEF Survivor, Admins, Members
    <2> HIDE DEF q, others
    <2> QED BY <1>2, <1>3, <1>4, <2>1, <2>2 DEF RowsInv, Survivor
  <1>7. \A s \in Requests \ {r} : q.rows \intersect req[s].rows = {}
    BY <1>3, <1>4 DEF LockInv, Exclusive, FreeRows
  <1> QED BY <1>3, <1>6, <1>7, LocksStay

\* Two administrators there are: one is not the user.
LEMMA AnotherAdmin ==
    ASSUME NEW o \in Orgs, NEW u \in Users, Cardinality(Admins(o)) > 1
    PROVE  \E x \in Admins(o) : x # u
PROOF
  <1> SUFFICES ASSUME Admins(o) \subseteq {u} PROVE FALSE
    OBVIOUS
  <1>1. Admins(o) = {} \/ Admins(o) = {u}
    OBVIOUS
  <1>2. Cardinality(Admins(o)) = 0 \/ Cardinality(Admins(o)) = 1
    BY <1>1, FS_EmptySet, FS_Singleton
  <1> QED BY <1>2

LEMMA AdminsLocks == ASSUME TypeInv, LockInv, NEW r \in Requests, LockAdmins(r) PROVE LockInv'
PROOF
  <1> DEFINE p == req[r]
             q == [p EXCEPT !.pc = "write", !.rows = Members(p.org)]
  <1>1. p \in Asked /\ p.pc = "lock" /\ p.was.org = p.org /\ p.user \in Users /\ p.org \in Orgs
    BY DEF TypeInv, LockAdmins, LockInv, RowsInv
  <1>2. q \in Asked /\ Set(r, q) /\ UNCHANGED member /\ FreeRows(r, Members(p.org))
    BY <1>1 DEF Asked, Pcs, Members, LockAdmins
  <1>3. req'[r] = q /\ q.rows = Members(p.org) /\ q.user = p.user /\ q.was = p.was /\ q.pc = "write"
        /\ q.org = p.org /\ q.role = p.role
    BY <1>1, <1>2 DEF TypeInv, Set, Asked
  <1>4. Fresh => member[p.user] = p.was /\ p.user \in Members(p.org)
    BY <1>1 DEF LockAdmins, Members
  <1>5. Demotes(p) => Survivor(q, p.org)
    <2> SUFFICES ASSUME Demotes(p) PROVE Survivor(q, p.org)
      OBVIOUS
    <2>1. Cardinality(Admins(p.org)) > 1
      BY DEF LockAdmins
    <2> HIDE DEF q
    <2> QED BY <1>1, <1>3, <2>1, AnotherAdmin DEF Survivor, Admins, Members
  <1>6. RowsInv(r)'
    <2>1. \A u \in q.rows : member[u].org # None
      BY <1>1, <1>3, OrgAssumption DEF Members
    <2> HIDE DEF q
    <2> QED BY <1>1, <1>2, <1>3, <1>4, <1>5, <2>1 DEF RowsInv, Demotes, Survivor
  <1>7. \A s \in Requests \ {r} : q.rows \intersect req[s].rows = {}
    BY <1>2, <1>3 DEF FreeRows
  <1> QED BY <1>2, <1>6, <1>7, LocksStay

LEMMA JoinLocks == ASSUME TypeInv, LockInv, NEW r \in Requests, Join(r) PROVE LockInv'
PROOF
  <1> DEFINE p == req[r]
             dropped == IF p.alone THEN {p.was.org} ELSE {}
  <1>1. p \in Asked /\ p.pc = "join" /\ p.user \in Users /\ RowsInv(r)
    BY DEF TypeInv, Join, LockInv
  <1>2. /\ Set(r, Idle)
        /\ p.was.org = None => member[p.user].org = None
        /\ \A o \in dropped : FreeRows(r, Members(o))
        /\ member' = [u \in Users |-> IF u = p.user THEN [org |-> p.org, role |-> p.role]
                                      ELSE IF member[u].org \in dropped THEN Nobody ELSE member[u]]
    BY DEF Join
  <1>3. ASSUME NEW s \in Requests \ {r}, NEW x \in req[s].rows PROVE member'[x] = member[x]
    <2>1. x \in Users /\ member[x].org # None
      BY DEF TypeInv, Asked, LockInv, RowsInv
    <2>2. x # p.user
      BY <1>1, <1>2, <2>1 DEF LockInv, Exclusive, RowsInv
    <2>3. member[x].org \notin dropped
      <3> HIDE DEF dropped
      <3> QED BY <1>2, <2>1 DEF FreeRows, Members
    <2> HIDE DEF dropped
    <2> QED BY <1>2, <2>1, <2>2, <2>3
  <1> QED BY <1>2, <1>3, EndsLock

LEMMA WriteLocks == ASSUME TypeInv, LockInv, NEW r \in Requests, WriteMember(r) PROVE LockInv'
PROOF
  <1>1. ASSUME NEW s \in Requests \ {r}, NEW x \in req[s].rows PROVE member'[x] = member[x]
    <2>1. x \in Users /\ x # req[r].user
      BY DEF TypeInv, Asked, WriteMember, FreeRows
    <2> QED BY <2>1 DEF WriteMember, TypeInv, TypeOK
  <1> QED BY <1>1, EndsLock DEF WriteMember

LEMMA LockStep == TypeInv /\ LockInv /\ [Next]_vars => LockInv'
PROOF
  <1> SUFFICES ASSUME TypeInv, LockInv, [Next]_vars PROVE LockInv'
    OBVIOUS
  <1>0. exists \subseteq Orgs
    BY DEF TypeInv, TypeOK
  <1>1. ASSUME NEW r \in Requests, Set(r, Idle), UNCHANGED member PROVE LockInv'
    BY <1>1, EndsLock
  <1>2. ASSUME NEW r \in Requests, NEW o \in exists, NEW u \in Users, NEW as \in Roles, Invite(r, o, u, as)
        PROVE  LockInv'
    <2> DEFINE q == [Idle EXCEPT !.pc = "invite", !.org = o, !.user = u, !.role = as, !.invite = Newest]
    <2>1. "invite" \in Pcs /\ u \in MaybeUsers /\ o \in MaybeOrgs /\ as \in Roles \union {None} /\ Newest \in Int
      <3>1. Newest \in Int
        BY NewestType
      <3> QED BY <1>0, <3>1 DEF Pcs, MaybeUsers, MaybeOrgs
    <2>2. q \in Asked
      BY <2>1, IdleType DEF Asked
    <2>3. q.pc = "invite" /\ q.rows = {}
      BY DEF Idle
    <2>4. Set(r, q) /\ UNCHANGED member
      BY <1>2 DEF Invite
    <2> HIDE DEF q
    <2> QED BY <2>2, <2>3, <2>4, AsksLock
  <1>3. ASSUME NEW r \in Requests, NEW i \in InviteIds, Accept(r, i) PROVE LockInv'
    <2> DEFINE q == [Idle EXCEPT !.pc = "own", !.invite = i, !.user = invites[i].user,
                                 !.org = invites[i].org, !.role = invites[i].role]
    <2>1. invites[i] \in Invitations /\ "own" \in Pcs /\ i \in Int
      BY DEF TypeInv, InviteIds, Pcs
    <2>2. q \in Asked
      BY <2>1, IdleType DEF Asked, Invitations
    <2>3. q.pc = "own" /\ q.rows = {}
      BY DEF Idle
    <2>4. Set(r, q) /\ UNCHANGED member
      BY <1>3 DEF Accept
    <2> HIDE DEF q
    <2> QED BY <2>2, <2>3, <2>4, AsksLock
  <1>4. ASSUME NEW r \in Requests, NEW u \in Users, NEW as \in Roles \union {None}, AskMember(r, u, as) PROVE LockInv'
    <2> DEFINE q == [Idle EXCEPT !.pc = "lock", !.user = u, !.org = member[u].org, !.role = as, !.was = member[u]]
    <2>1. "lock" \in Pcs /\ u \in MaybeUsers /\ member[u] \in Memberships
      BY <1>0 DEF Pcs, MaybeUsers, MaybeOrgs, TypeInv, TypeOK, Memberships
    <2>2. q \in Asked
      BY <2>1, IdleType DEF Asked, Memberships
    <2>3. q.pc = "lock" /\ q.rows = {} /\ q.was.org = q.org
      BY DEF Idle
    <2>4. Set(r, q) /\ UNCHANGED member
      BY <1>4 DEF AskMember
    <2> HIDE DEF q
    <2> QED BY <2>2, <2>3, <2>4, AsksLock
  <1>5. ASSUME NEW r \in Requests, NEW o \in exists, AskConnection(r, o) PROVE LockInv'
    <2> DEFINE q == [Idle EXCEPT !.pc = "provision", !.org = o]
    <2>1. "provision" \in Pcs /\ o \in MaybeOrgs
      BY <1>0 DEF Pcs, MaybeOrgs
    <2>2. q \in Asked
      BY <2>1, IdleType DEF Asked
    <2>3. q.pc = "provision" /\ q.rows = {}
      BY DEF Idle
    <2>4. Set(r, q) /\ UNCHANGED member
      BY <1>5 DEF AskConnection
    <2> HIDE DEF q
    <2> QED BY <2>2, <2>3, <2>4, AsksLock
  <1>6. ASSUME UNCHANGED <<member, req>> PROVE LockInv'
    BY <1>6 DEF LockInv, Exclusive, RowsInv, Survivor, Demotes
  <1>7. ASSUME NEW r \in Requests, Request(r) PROVE LockInv'
    <2>1. CASE CreateInvite(r) \/ Spend(r) \/ Provision(r) \/ Abort(r)
      BY <1>1, <2>1 DEF CreateInvite, Spend, Provision, Abort
    <2> QED BY <1>2, <1>3, <1>4, <1>5, <1>7, <2>1, LockOwnLocks, RoomLocks, OthersLocks, AdminsLocks, JoinLocks,
               WriteLocks DEF Request
  <1>8. CASE \E i \in InviteIds : RevokeInvite(i)
    BY <1>6, <1>8 DEF RevokeInvite
  <1>9. CASE UNCHANGED vars
    BY <1>6, <1>9 DEF vars
  <1> QED BY <1>7, <1>8, <1>9 DEF Next

-----------------------------------------------------------------------------
(* The last administrator. *)

LEMMA AdminInit == Init => AdminRemains
PROOF
  <1> SUFFICES ASSUME Init, NEW o \in exists PROVE Admins(o) # {}
    BY DEF AdminRemains
  <1>1. PICK u \in Users : Homes[u] = o
    BY DEF Init
  <1>2. o # None
    BY OrgAssumption DEF Init
  <1>3. u \in Admins(o)
    BY <1>1, <1>2 DEF Init, Admins, Members
  <1> QED BY <1>3

\* Whoever was one and is not touched is one still.
LEMMA AdminStays ==
    ASSUME NEW o, NEW x \in Admins(o), member'[x] = member[x]
    PROVE  Admins(o)' # {}
PROOF
  <1>1. x \in Users /\ member'[x].org = o /\ member'[x].role = "admin"
    BY DEF Admins, Members
  <1> QED BY <1>1 DEF Admins, Members

LEMMA AdminStep == ASSUME Fresh, TypeInv, LockInv, AdminRemains, [Next]_vars PROVE AdminRemains'
PROOF
  <1> SUFFICES ASSUME NEW o \in exists' PROVE Admins(o)' # {}
    BY DEF AdminRemains
  <1>1. CASE UNCHANGED <<exists, member>>
    BY <1>1 DEF AdminRemains, Admins, Members
  <1>2. ASSUME NEW r \in Requests, Join(r) PROVE Admins(o)' # {}
    <2> DEFINE p == req[r]
               dropped == IF p.alone THEN {p.was.org} ELSE {}
    <2>1. p \in Asked /\ p.pc = "join" /\ p.user \in Users /\ RowsInv(r)
      BY <1>2 DEF TypeInv, Join, LockInv
    <2>2. /\ exists' = exists \ dropped
          /\ p.was.org = None => member[p.user].org = None
          /\ member' = [u \in Users |-> IF u = p.user THEN [org |-> p.org, role |-> p.role]
                                        ELSE IF member[u].org \in dropped THEN Nobody ELSE member[u]]
      BY <1>2 DEF Join
    <2>3. o \in exists /\ o \notin dropped /\ o # None
      BY <2>2, OrgAssumption DEF TypeInv, TypeOK
    <2>4. \A x \in Admins(o) : x # p.user => member'[x] = member[x]
      <3> HIDE DEF dropped
      <3> QED BY <2>2, <2>3 DEF Admins, Members
    <2>5. PICK a \in Admins(o) : TRUE
      BY <2>3 DEF AdminRemains
    <2>6. CASE a # p.user
      BY <2>4, <2>6, AdminStays
    <2>7. CASE a = p.user
      <3>1. member[p.user].org = o /\ member[p.user].role = "admin"
        BY <2>7 DEF Admins, Members
      <3>2. p.was.org = o /\ p.was.role = "admin" /\ ~p.alone
        BY <2>1, <2>2, <2>3, <3>1 DEF RowsInv
      <3>3. Survivor(p, o)
        BY <2>1, <2>3, <3>2 DEF RowsInv
      <3>4. PICK x \in Admins(o) : x # p.user
        BY <2>1, <3>3 DEF Survivor, Admins, Members, Asked
      <3> QED BY <2>4, <3>4, AdminStays
    <2> QED BY <2>6, <2>7
  <1>3. ASSUME NEW r \in Requests, WriteMember(r) PROVE Admins(o)' # {}
    <2> DEFINE p == req[r]
    <2>1. p \in Asked /\ p.pc = "write" /\ p.user \in Users /\ RowsInv(r)
      BY <1>3 DEF TypeInv, WriteMember, LockInv
    <2>2. o \in exists /\ o # None /\ member \in [Users -> [org : exists \union {None}, role : Roles]]
      BY <1>3, OrgAssumption DEF TypeInv, TypeOK, WriteMember
    <2>3. /\ member[p.user].org # None
          /\ member' = [member EXCEPT ![p.user] = IF p.role = None THEN Nobody ELSE [@ EXCEPT !.role = p.role]]
      BY <1>3, <2>1 DEF WriteMember, RowsInv
    <2>4. \A x \in Admins(o) : x # p.user => member'[x] = member[x]
      BY <2>2, <2>3 DEF Admins, Members
    <2>5. PICK a \in Admins(o) : TRUE
      BY <2>2 DEF AdminRemains
    <2>6. CASE a # p.user
      BY <2>4, <2>6, AdminStays
    <2>7. CASE a = p.user /\ Demotes(p)
      <3>1. p.was.org = o /\ p.was.org = p.org
        BY <2>1, <2>7 DEF RowsInv, Admins, Members
      <3>2. PICK x \in Admins(o) : x # p.user
        BY <2>1, <2>7, <3>1 DEF RowsInv, Survivor, Admins, Members, Asked
      <3> QED BY <2>4, <3>2, AdminStays
    <2>8. CASE a = p.user /\ ~Demotes(p)
      <3>1. p.role = "admin" /\ member[p.user].org = o
        BY <2>1, <2>8 DEF RowsInv, Admins, Members, Demotes
      <3>2. member'[p.user].org = o /\ member'[p.user].role = "admin"
        BY <2>1, <2>2, <2>3, <3>1 DEF None
      <3> QED BY <2>1, <3>2 DEF Admins, Members
    <2> QED BY <2>6, <2>7, <2>8
  <1>4. ASSUME NEW r \in Requests, Request(r) PROVE UNCHANGED <<exists, member>> \/ Join(r) \/ WriteMember(r)
    BY <1>4 DEF Request, Invite, CreateInvite, Accept, LockOwn, Room, Others, Spend, AskMember, LockAdmins, AskConnection,
                Provision, Abort
  <1>5. CASE (\E i \in InviteIds : RevokeInvite(i)) \/ UNCHANGED vars
    BY <1>1, <1>5 DEF RevokeInvite, vars
  <1> QED BY <1>1, <1>2, <1>3, <1>4, <1>5 DEF Next

\* The shape of the state, for every number of users, organizations and requests.
THEOREM TypeCorrect == Spec => []TypeOK
PROOF
  <1>1. TypeInv => TypeOK
    BY DEF TypeInv
  <1> QED BY <1>1, TypeInit, LockInit, TypeStep, LockStep, PTL DEF Spec

\* "This is the whole last-admin guard" (org.ts:407), as long as a member is, when a request
\* locks them, as it read them before: however many demotions, removals, departures and
\* acceptances overlap, every organization there is has an administrator.
THEOREM LastAdmin == ASSUME Fresh PROVE Spec => []AdminRemains
PROOF
  <1>1. TypeInv /\ LockInv /\ AdminRemains /\ [Next]_vars => AdminRemains'
    BY AdminStep
  <1> QED BY <1>1, TypeInit, LockInit, AdminInit, TypeStep, LockStep, PTL DEF Spec

-----------------------------------------------------------------------------
(* Room. *)

\* A request alone has changed, to one that holds no organization it did not.
LEMMA RoomStays ==
    ASSUME TypeInv, RoomInv, NEW r \in Requests, NEW q \in Asked, Set(r, q),
           q.orgs = {} \/ q.orgs = req[r].orgs,
           q.pc \in {"others", "join"} =>
               req[r].pc \in {"others", "join"} /\ q.org = req[r].org /\ q.orgs = req[r].orgs,
           UNCHANGED <<exists, member>>
    PROVE  RoomInv'
PROOF
  <1>1. req'[r] = q /\ \A s \in Requests \ {r} : req'[s] = req[s]
    BY DEF TypeInv, Set
  <1>2. OrgsExclusive'
    BY <1>1 DEF RoomInv, OrgsExclusive
  <1>3. \A o : Members(o)' = Members(o)
    BY DEF Members
  <1>4. ASSUME NEW s \in Requests, req'[s].pc \in {"others", "join"}, req'[s].org \in exists'
        PROVE  req'[s].org \in req'[s].orgs /\ Cardinality(Members(req[s].org)') < Limits[req'[s].org]
    <2>1. req'[s].org = req[s].org /\ req'[s].orgs = req[s].orgs /\ req[s].pc \in {"others", "join"} /\ req[s].org \in exists
      BY <1>1, <1>4
    <2>2. Members(req[s].org)' = Members(req[s].org)
      BY <2>1 DEF Members
    <2> QED BY <2>1, <2>2 DEF RoomInv
  <1> QED BY <1>2, <1>4 DEF RoomInv

LEMMA MembersFinite ==
    ASSUME TypeInv, NEW o
    PROVE  /\ IsFiniteSet(Members(o)) /\ Cardinality(Members(o)) \in Nat
           /\ \A S \in SUBSET Members(o) : IsFiniteSet(S) /\ Cardinality(S) \in Nat /\ Cardinality(S) <= Cardinality(Members(o))
           /\ \A u : Cardinality(Members(o) \union {u}) <= Cardinality(Members(o)) + 1
PROOF
  <1>1. IsFiniteSet(Members(o))
    BY OrgAssumption, FS_Subset DEF Members
  <1> HIDE DEF Members
  <1> QED BY <1>1, FS_CardinalityType, FS_Subset, FS_AddElement

\* Who does what to the members of an organization: somebody joins where their request has
\* the organization locked; otherwise they only get fewer.
LEMMA WhoJoins ==
    ASSUME TypeInv, LockInv, NEW r \in Requests, Join(r)
    PROVE  /\ req[r].org \in exists
           /\ \A o \in Orgs : Members(o)' \subseteq IF o = req[r].org THEN Members(o) \union {req[r].user} ELSE Members(o)
           /\ req[r].pc = "join" /\ Set(r, Idle) /\ exists' \subseteq exists
PROOF
  <1> DEFINE p == req[r]
             dropped == IF p.alone THEN {p.was.org} ELSE {}
  <1>1. /\ p.org \in exists /\ p.pc = "join" /\ Set(r, Idle) /\ exists' = exists \ dropped
        /\ member' = [u \in Users |-> IF u = p.user THEN [org |-> p.org, role |-> p.role]
                                        ELSE IF member[u].org \in dropped THEN Nobody ELSE member[u]]
    BY DEF Join
  <1>2. ASSUME NEW o \in Orgs, NEW u \in Users, u # p.user, member'[u].org = o PROVE member[u].org = o
    <2> HIDE DEF dropped
    <2> QED BY <1>1, <1>2, OrgAssumption DEF Nobody
  <1>3. ASSUME NEW o \in Orgs, member'[p.user].org = o, p.user \in Users PROVE o = p.org
    <2> HIDE DEF dropped
    <2> QED BY <1>1, <1>3
  <1>4. exists \subseteq Orgs
    BY DEF TypeInv, TypeOK
  <1> QED BY <1>1, <1>2, <1>3, <1>4 DEF Members

LEMMA FewerMembers ==
    ASSUME TypeInv, NEW r \in Requests, NEW o \in Orgs, WriteMember(r)
    PROVE  Members(o)' \subseteq Members(o)
PROOF
  <1>1. ASSUME NEW u \in Users, member'[u].org = o PROVE member[u].org = o
    BY <1>1, OrgAssumption DEF WriteMember, TypeInv, TypeOK, Nobody
  <1> QED BY <1>1 DEF Members

LEMMA RoomInit == Init => RoomInv
  BY DEF Init, RoomInv, OrgsExclusive, Idle

\* Members got fewer, but for the organization of the request that ended.
LEMMA EndsRoom ==
    ASSUME TypeInv, RoomInv, NEW r \in Requests, Set(r, Idle), exists' \subseteq exists,
           \A o \in Orgs : o \notin req[r].orgs => Members(o)' \subseteq Members(o)
    PROVE  RoomInv'
PROOF
  <1>1. req'[r] = Idle /\ \A s \in Requests \ {r} : req'[s] = req[s]
    BY DEF TypeInv, Set
  <1>2. OrgsExclusive'
    BY <1>1 DEF RoomInv, OrgsExclusive, Idle
  <1>3. ASSUME NEW s \in Requests, req'[s].pc \in {"others", "join"}, req'[s].org \in exists'
        PROVE  req'[s].org \in req'[s].orgs /\ Cardinality(Members(req[s].org)') < Limits[req'[s].org]
    <2>1. s # r /\ req'[s] = req[s] /\ req[s].org \in exists /\ req[s].org \in Orgs
      BY <1>1, <1>3 DEF Idle, TypeInv, TypeOK
    <2> DEFINE o == req[s].org
    <2>2. o \in req[s].orgs /\ Cardinality(Members(o)) < Limits[o] /\ o \notin req[r].orgs
      BY <1>3, <2>1 DEF RoomInv, OrgsExclusive
    <2>3. Members(req[s].org)' = {u \in Users : member'[u].org = o}
      BY <2>1 DEF Members
    <2>4. {u \in Users : member'[u].org = o} \in SUBSET Members(o)
      BY <2>1, <2>2 DEF Members
    <2>5. Limits[o] \in Nat
      BY <2>1, OrgAssumption
    <2> QED BY <2>1, <2>2, <2>3, <2>4, <2>5, MembersFinite
  <1> QED BY <1>2, <1>3 DEF RoomInv

LEMMA RoomStep == TypeInv /\ LockInv /\ RoomInv /\ [Next]_vars => RoomInv'
PROOF
  <1> SUFFICES ASSUME TypeInv, LockInv, RoomInv, [Next]_vars PROVE RoomInv'
    OBVIOUS
  <1>0. exists \subseteq Orgs
    BY DEF TypeInv, TypeOK
  <1>1. ASSUME NEW r \in Requests, NEW q, Set(r, q), UNCHANGED <<exists, member>>,
               q.pc \notin {"others", "join"}, q.orgs = {} \/ q.orgs = req[r].orgs
        PROVE  RoomInv'
    <2>1. req'[r] = q /\ \A s \in Requests \ {r} : req'[s] = req[s]
      BY <1>1 DEF TypeInv, Set
    <2>2. OrgsExclusive'
      BY <1>1, <2>1 DEF RoomInv, OrgsExclusive
    <2>3. ASSUME NEW s \in Requests, req'[s].pc \in {"others", "join"}, req'[s].org \in exists'
          PROVE  req'[s].org \in req'[s].orgs /\ Cardinality(Members(req[s].org)') < Limits[req'[s].org]
      <3>1. s # r /\ req'[s] = req[s] /\ req[s].org \in exists
        BY <1>1, <2>1, <2>3
      <3>2. Members(req[s].org)' = Members(req[s].org)
        BY <1>1, <3>1 DEF Members
      <3> QED BY <2>3, <3>1, <3>2 DEF RoomInv
    <2> QED BY <2>2, <2>3 DEF RoomInv
  <1>2. ASSUME NEW r \in Requests, Room(r) PROVE RoomInv'
    <2> DEFINE p == req[r]
               q == [p EXCEPT !.pc = After(p), !.orgs = {p.org} \intersect exists]
    <2>1. p \in Asked /\ Set(r, q) /\ UNCHANGED <<exists, member>> /\ Unlocked(r, p.org)
      BY <1>2 DEF TypeInv, Room
    <2>2. q.orgs = {p.org} \intersect exists /\ q.org = p.org
      BY <2>1 DEF Asked
    <2>3. req'[r] = q /\ \A s \in Requests \ {r} : req'[s] = req[s]
      BY <2>1 DEF TypeInv, Set
    <2>4. OrgsExclusive'
      <3> SUFFICES ASSUME NEW s \in Requests, NEW t \in Requests, s # t
                   PROVE  req'[s].orgs \intersect req'[t].orgs = {}
        BY DEF OrgsExclusive
      <3> HIDE DEF q
      <3>1. \A u \in Requests \ {r} : q.orgs \intersect req[u].orgs = {}
        BY <2>1, <2>2 DEF Unlocked
      <3> QED BY <2>3, <3>1 DEF RoomInv, OrgsExclusive
    <2>5. ASSUME NEW s \in Requests, req'[s].pc \in {"others", "join"}, req'[s].org \in exists'
          PROVE  req'[s].org \in req'[s].orgs /\ Cardinality(Members(req[s].org)') < Limits[req'[s].org]
      <3>1. req'[s].org = req[s].org /\ req[s].org \in exists
        <4> HIDE DEF q
        <4> QED BY <2>1, <2>2, <2>3, <2>5
      <3>2. Members(req[s].org)' = Members(req[s].org)
        BY <2>1, <3>1 DEF Members
      <3>3. CASE s = r
        <4> HIDE DEF q
        <4> QED BY <1>2, <2>2, <2>3, <3>1, <3>2, <3>3 DEF Room
      <3>4. CASE s # r
        BY <2>3, <2>5, <3>1, <3>2, <3>4 DEF RoomInv
      <3> QED BY <3>3, <3>4
    <2> QED BY <2>4, <2>5 DEF RoomInv
  <1>3. ASSUME NEW r \in Requests, Others(r) PROVE RoomInv'
    <2> DEFINE p == req[r]
               others == Members(p.was.org) \ {p.user}
               q == [p EXCEPT !.pc = "join", !.alone = others = {}, !.rows = @ \union others]
    <2>1. p \in Asked /\ p.pc = "others" /\ Set(r, q) /\ UNCHANGED <<exists, member>>
      BY <1>3 DEF TypeInv, Others
    <2>2. others \in SUBSET Users /\ "join" \in Pcs
      BY DEF Members, Pcs
    <2> HIDE DEF others
    <2>3. q \in Asked /\ q.orgs = p.orgs /\ q.org = p.org
      BY <2>1, <2>2 DEF Asked
    <2> HIDE DEF q
    <2> QED BY <2>1, <2>3, RoomStays
  <1>4. ASSUME NEW r \in Requests, LockOwn(r) \/ LockAdmins(r) PROVE RoomInv'
    <2>1. req[r] \in Asked
      BY DEF TypeInv
    <2>2. CASE LockOwn(r)
      <3> DEFINE q == [req[r] EXCEPT !.was = member[req[r].user],
                          !.rows = IF member[req[r].user].org = None THEN {} ELSE {req[r].user},
                          !.pc = IF member[req[r].user].org = req[r].org THEN "spend" ELSE "room"]
      <3>1. q.pc \notin {"others", "join"} /\ q.orgs = req[r].orgs
        BY <2>1 DEF Asked
      <3> QED BY <1>1, <2>2, <3>1 DEF LockOwn
    <2>3. CASE LockAdmins(r)
      <3> DEFINE q == [req[r] EXCEPT !.pc = "write", !.rows = Members(req[r].org)]
      <3>1. q.pc \notin {"others", "join"} /\ q.orgs = req[r].orgs
        BY <2>1 DEF Asked
      <3> QED BY <1>1, <2>3, <3>1 DEF LockAdmins
    <2> QED BY <1>4, <2>2, <2>3
  <1>5. ASSUME NEW r \in Requests, Join(r) PROVE RoomInv'
    <2>1. req[r].org \in req[r].orgs
      BY <1>5, WhoJoins DEF RoomInv
    <2> QED BY <1>5, <2>1, WhoJoins, EndsRoom
  <1>6. ASSUME NEW r \in Requests, WriteMember(r) PROVE RoomInv'
    BY <1>6, FewerMembers, EndsRoom DEF WriteMember
  <1>7. ASSUME NEW r \in Requests, NEW q, Set(r, q), UNCHANGED <<exists, member>>,
               q.pc \in {"idle", "invite", "own", "lock", "provision"}, q.orgs = {} PROVE RoomInv'
    BY <1>1, <1>7
  <1>8. ASSUME NEW r \in Requests, Request(r) PROVE RoomInv'
    <2>1. CASE CreateInvite(r) \/ Spend(r) \/ Provision(r) \/ Abort(r)
      BY <1>7, <2>1 DEF CreateInvite, Spend, Provision, Abort, Idle
    <2>2. CASE \E o \in exists, u \in Users, as \in Roles : Invite(r, o, u, as)
      BY <1>7, <2>2 DEF Invite, Idle
    <2>3. CASE \E i \in InviteIds : Accept(r, i)
      BY <1>7, <2>3 DEF Accept, Idle
    <2>4. CASE \E u \in Users, as \in Roles \union {None} : AskMember(r, u, as)
      BY <1>7, <2>4 DEF AskMember, Idle
    <2>5. CASE \E o \in exists : AskConnection(r, o)
      BY <1>7, <2>5 DEF AskConnection, Idle
    <2> QED BY <1>2, <1>3, <1>4, <1>5, <1>6, <1>8, <2>1, <2>2, <2>3, <2>4, <2>5 DEF Request
  <1>9. CASE UNCHANGED <<exists, member, req>>
    <2>1. \A r \in Requests : Members(req[r].org)' = Members(req[r].org)
      BY <1>9 DEF Members
    <2> QED BY <1>9, <2>1 DEF RoomInv, OrgsExclusive
  <1> QED BY <1>8, <1>9 DEF Next, RevokeInvite, vars

\* Only who joins makes an organization larger.
LEMMA JoinsOnly ==
    ASSUME TypeInv, LockInv, RoomInv, [Next]_vars, NEW o \in exists, Cardinality(Members(o)') > Cardinality(Members(o))
    PROVE  Cardinality(Members(o)') <= Limits[o]
PROOF
  <1>0. o \in Orgs
    BY DEF TypeInv, TypeOK
  <1>1. ~(Members(o)' \subseteq Members(o))
    <2> SUFFICES ASSUME Members(o)' \subseteq Members(o) PROVE FALSE
      OBVIOUS
    <2>1. Members(o)' \in SUBSET Members(o)
      OBVIOUS
    <2>2. Cardinality(Members(o)') \in Nat /\ Cardinality(Members(o)) \in Nat
          /\ Cardinality(Members(o)') <= Cardinality(Members(o))
      BY <2>1, MembersFinite
    <2> QED BY <2>2
  <1>2. ~UNCHANGED member
    BY <1>1 DEF Members
  <1>3. PICK r \in Requests : Join(r)
    <2>1. PICK r \in Requests : Request(r)
      BY <1>2 DEF Next, RevokeInvite, vars
    <2>2. ~WriteMember(r)
      BY <1>0, <1>1, FewerMembers
    <2> QED BY <1>2, <2>1, <2>2 DEF Request, Invite, CreateInvite, Accept, LockOwn, Room, Others, Spend, AskMember, LockAdmins,
               AskConnection, Provision, Abort
  <1>4. o = req[r].org /\ Members(o)' \subseteq Members(o) \union {req[r].user} /\ req[r].pc = "join"
    BY <1>0, <1>1, <1>3, WhoJoins
  <1>5. Cardinality(Members(o)) < Limits[o] /\ Limits[o] \in Nat
    BY <1>0, <1>4, OrgAssumption DEF RoomInv
  <1>6. /\ Cardinality(Members(o)) \in Nat /\ IsFiniteSet(Members(o) \union {req[r].user})
        /\ Cardinality(Members(o) \union {req[r].user}) <= Cardinality(Members(o)) + 1
    <2>1. IsFiniteSet(Members(o) \union {req[r].user})
      <3> HIDE DEF Members
      <3> QED BY MembersFinite, FS_AddElement
    <2> QED BY <2>1, MembersFinite
  <1>7. Cardinality(Members(o)') \in Nat /\ Cardinality(Members(o) \union {req[r].user}) \in Nat
        /\ Cardinality(Members(o)') <= Cardinality(Members(o) \union {req[r].user})
    BY <1>4, <1>6, FS_Subset, FS_CardinalityType
  <1> QED BY <1>5, <1>6, <1>7

\* "Every join goes through here" (org.ts:555): of invitations accepted at one time, no more
\* come in than there is room for, for any number of requests and any limits.
THEOREM RoomForJoins == Spec => JoinsHaveRoom
PROOF
  <1>1. TypeInv /\ LockInv /\ RoomInv /\ [Next]_vars =>
        [\A o \in exists : Cardinality(Members(o)') > Cardinality(Members(o)) => Cardinality(Members(o)') <= Limits[o]]_vars
    BY JoinsOnly
  <1> QED BY <1>1, TypeInit, LockInit, RoomInit, TypeStep, LockStep, RoomStep, PTL DEF Spec, JoinsHaveRoom

-----------------------------------------------------------------------------
(* Invitations. *)

LEMMA InviteInit == Init => InviteInv
PROOF
  <1> SUFFICES ASSUME Init PROVE InviteInv
    OBVIOUS
  <1>1. Made = 1 .. 0 /\ 0 \in 0 .. MaxInvites
    BY OrgAssumption DEF Init, Made, NoInvite
  <1> QED BY <1>1 DEF Init, InviteInv, Idle, NoInvite, Accepting

\* Invitations that are made stay so, and stay who and what they are for; a request alone
\* has changed, to one that ends or is about the invitation it was about.
LEMMA InvitesStay ==
    ASSUME TypeInv, InviteInv, NEW r \in Requests, NEW q, Set(r, q),
           q.pc \in Accepting =>
               /\ q.invite \in Made /\ For(q),
           q.alone => q.pc = "join" /\ q.was.org # None,
           \A i \in InviteIds : /\ invites'[i].state = "none" <=> invites[i].state = "none"
                                /\ invites'[i].state \in {"none", "pending"} => invites'[i] = invites[i]
    PROVE  InviteInv'
PROOF
  <1>1. req'[r] = q /\ \A s \in Requests \ {r} : req'[s] = req[s]
    BY DEF TypeInv, Set
  <1>2. Made' = Made /\ Made \subseteq InviteIds
    BY DEF Made
  <1>3. ASSUME NEW s \in Requests, req'[s].pc \in Accepting
        PROVE  req'[s].invite \in Made /\ For(req[s])'
    <2>1. PICK p : p = req'[s]
      OBVIOUS
    <2>2. p.invite \in Made /\ For(p)
      BY <1>1, <1>3, <2>1 DEF InviteInv
    <2>3. For(p)'
      BY <1>2, <2>2 DEF For
    <2> QED BY <2>1, <2>2, <2>3 DEF For
  <1>4. ASSUME NEW s \in Requests, req'[s].alone PROVE req'[s].pc = "join" /\ req'[s].was.org # None
    BY <1>1, <1>4 DEF InviteInv
  <1>5. (\E n \in 0 .. MaxInvites : Made' = 1 .. n) /\ \A i \in InviteIds \ Made' : invites'[i].org = None
    <2>1. \A i \in InviteIds \ Made : invites[i].state = "none"
      BY DEF Made
    <2> QED BY <1>2, <2>1 DEF InviteInv
  <1> QED BY <1>2, <1>3, <1>4, <1>5 DEF InviteInv

LEMMA CreateInvites == ASSUME TypeInv, InviteInv, NEW r \in Requests, CreateInvite(r) PROVE InviteInv'
PROOF
  <1>1. PICK n \in 0 .. MaxInvites : Made = 1 .. n
    BY DEF InviteInv
  <1>2. Newest = n
    BY <1>1, FS_Interval DEF Newest
  <1> DEFINE q == req[r]
             new == n + 1
  <1>3. /\ new \in 1 .. MaxInvites /\ Set(r, Idle)
        /\ \E seen \in q.invite .. Newest :
              invites' = [i \in InviteIds |->
                IF i = new THEN [state |-> "pending", org |-> q.org, user |-> q.user, role |-> q.role]
                ELSE IF i <= seen /\ i \in Pending(q.org) /\ invites[i].user = q.user
                     THEN Closed("revoked") ELSE invites[i]]
    BY <1>1, <1>2, OrgAssumption DEF CreateInvite
  <1>4. PICK seen \in q.invite .. Newest :
              invites' = [i \in InviteIds |->
                IF i = new THEN [state |-> "pending", org |-> q.org, user |-> q.user, role |-> q.role]
                ELSE IF i <= seen /\ i \in Pending(q.org) /\ invites[i].user = q.user
                     THEN Closed("revoked") ELSE invites[i]]
    BY <1>3
  <1>5. \A i \in InviteIds \ {new} : /\ invites'[i].state = "none" <=> invites[i].state = "none"
                                     /\ invites'[i].state \in {"none", "pending"} => invites'[i] = invites[i]
    <2> SUFFICES ASSUME NEW i \in InviteIds \ {new}
                 PROVE  /\ invites'[i].state = "none" <=> invites[i].state = "none"
                        /\ invites'[i].state \in {"none", "pending"} => invites'[i] = invites[i]
      OBVIOUS
    <2>1. invites[i] \in Invitations
      BY DEF TypeInv
    <2>2. CASE i <= seen /\ i \in Pending(q.org) /\ invites[i].user = q.user
      <3>1. Closed("revoked").state = "revoked"
        BY ClosedRow DEF States
      <3> QED BY <1>4, <2>1, <2>2, <3>1 DEF Pending
    <2>3. CASE ~(i <= seen /\ i \in Pending(q.org) /\ invites[i].user = q.user)
      BY <1>4, <2>3
    <2> QED BY <2>2, <2>3
  <1>6. new \in InviteIds /\ new \notin Made /\ invites'[new].state = "pending"
    BY <1>1, <1>3, <1>4 DEF InviteIds
  <1>7. Made' = Made \union {new} /\ Made \subseteq InviteIds
    BY <1>5, <1>6 DEF Made
  <1>8. Made' = 1 .. new /\ new \in 0 .. MaxInvites
    BY <1>1, <1>3, <1>7
  <1>10. req'[r] = Idle /\ \A s \in Requests \ {r} : req'[s] = req[s]
    BY <1>3 DEF TypeInv, Set
  <1>11. ASSUME NEW s \in Requests, req'[s].pc \in Accepting
         PROVE  req'[s].invite \in Made' /\ For(req[s])'
    <2>1. s # r /\ req'[s] = req[s]
      BY <1>10, <1>11 DEF Idle, Accepting
    <2>2. req[s].invite \in Made /\ For(req[s])
      BY <1>11, <2>1 DEF InviteInv
    <2>3. req[s].invite \in InviteIds \ {new}
      BY <1>6, <1>7, <2>2
    <2> QED BY <1>5, <1>7, <2>1, <2>2, <2>3 DEF For
  <1>12. ASSUME NEW s \in Requests, req'[s].alone PROVE req'[s].pc = "join" /\ req'[s].was.org # None
    BY <1>10, <1>12 DEF InviteInv, Idle
  <1>13. \A i \in InviteIds \ Made' : invites'[i].org = None
    <2>1. \A i \in InviteIds \ Made' : i # new /\ i \notin Made
      BY <1>7
    <2>2. \A i \in InviteIds \ Made' : invites[i].state = "none" /\ invites[i].org = None
      BY <2>1 DEF InviteInv, Made
    <2> QED BY <1>5, <2>1, <2>2
  <1> HIDE DEF new
  <1> QED BY <1>8, <1>11, <1>12, <1>13 DEF InviteInv

\* What a join leaves of the invitations.
LEMMA JoinInvites ==
    ASSUME TypeInv, LockInv, InviteInv, NEW r \in Requests, Join(r)
    PROVE  \A i \in InviteIds : /\ invites'[i].state = "none" <=> invites[i].state = "none"
                                /\ invites'[i].state \in {"none", "pending"} => invites'[i] = invites[i]
PROOF
  <1> DEFINE p == req[r]
             dropped == IF p.alone THEN {p.was.org} ELSE {}
  <1>1. /\ p.pc = "join" /\ p.invite \in Made
        /\ invites' = [i \in InviteIds |->
               IF i = p.invite THEN Closed("accepted") ELSE WithOrg(i, dropped)]
    BY DEF Join, InviteInv, Accepting
  <1>2. None \notin dropped
    BY DEF InviteInv
  <1> SUFFICES ASSUME NEW i \in InviteIds
               PROVE  /\ invites'[i].state = "none" <=> invites[i].state = "none"
                      /\ invites'[i].state \in {"none", "pending"} => invites'[i] = invites[i]
    OBVIOUS
  <1> HIDE DEF dropped
  <1>3. invites[i] \in Invitations
    BY DEF TypeInv
  <1>4. CASE i = p.invite
    <2>1. Closed("accepted").state = "accepted"
      BY ClosedRow DEF States
    <2> QED BY <1>1, <1>4, <2>1 DEF Made
  <1>5. CASE i # p.invite /\ invites[i].org \in dropped
    <2>1. i \in Made
      BY <1>2, <1>5 DEF InviteInv
    <2>2. Closed("gone").state = "gone"
      BY ClosedRow DEF States
    <2> QED BY <1>1, <1>5, <2>1, <2>2 DEF Made, WithOrg
  <1>6. CASE i # p.invite /\ invites[i].org \notin dropped
    BY <1>1, <1>6 DEF WithOrg
  <1> QED BY <1>4, <1>5, <1>6

LEMMA InviteStep == TypeInv /\ LockInv /\ InviteInv /\ [Next]_vars => InviteInv'
PROOF
  <1> SUFFICES ASSUME TypeInv, LockInv, InviteInv, [Next]_vars PROVE InviteInv'
    OBVIOUS
  <1>1. ASSUME NEW r \in Requests, Set(r, Idle),
               \A i \in InviteIds : /\ invites'[i].state = "none" <=> invites[i].state = "none"
                                    /\ invites'[i].state \in {"none", "pending"} => invites'[i] = invites[i]
        PROVE  InviteInv'
    BY <1>1, InvitesStay DEF Idle, Accepting
  <1>2. ASSUME NEW r \in Requests, NEW q, Set(r, q), UNCHANGED invites, q.pc \notin Accepting, ~q.alone PROVE InviteInv'
    BY <1>2, InvitesStay
  <1>3. ASSUME NEW r \in Requests, NEW q, Set(r, q), UNCHANGED invites, req[r].pc \in Accepting,
               q.invite = req[r].invite, q.user = req[r].user, q.org = req[r].org,
               q.alone => q.pc = "join" /\ q.was.org # None
        PROVE  InviteInv'
    <2>1. /\ q.invite \in Made /\ For(q)
      BY <1>3 DEF InviteInv, For
    <2> QED BY <1>3, <2>1, InvitesStay
  <1>4. ASSUME NEW r \in Requests, NEW i \in InviteIds, Accept(r, i) PROVE InviteInv'
    <2> DEFINE q == [Idle EXCEPT !.pc = "own", !.invite = i, !.user = invites[i].user,
                                 !.org = invites[i].org, !.role = invites[i].role]
    <2>1. q.pc = "own" /\ ~q.alone /\ q.invite = i /\ q.user = invites[i].user /\ q.org = invites[i].org
      BY DEF Idle
    <2>2. Set(r, q) /\ UNCHANGED invites /\ i \in Made
      BY <1>4 DEF Accept, Made
    <2> HIDE DEF q
    <2>3. For(q)
      BY <2>1 DEF For
    <2> QED BY <2>1, <2>2, <2>3, InvitesStay
  <1>5. ASSUME NEW r \in Requests, LockOwn(r) \/ Room(r) \/ Others(r) \/ LockAdmins(r) PROVE InviteInv'
    <2> DEFINE p == req[r]
    <2>1. p \in Asked /\ (p.alone => p.pc = "join")
      BY DEF TypeInv, InviteInv
    <2>2. CASE LockOwn(r)
      <3> DEFINE q == [p EXCEPT !.was = member[p.user], !.rows = IF member[p.user].org = None THEN {} ELSE {p.user},
                                !.pc = IF member[p.user].org = p.org THEN "spend" ELSE "room"]
      <3>1. p.pc = "own" /\ Set(r, q) /\ UNCHANGED invites
        BY <2>2 DEF LockOwn
      <3>2. q.invite = p.invite /\ q.user = p.user /\ q.org = p.org /\ ~q.alone
        BY <2>1, <3>1 DEF Asked
      <3> HIDE DEF q
      <3> QED BY <1>3, <3>1, <3>2 DEF Accepting
    <2>3. CASE Room(r)
      <3> DEFINE q == [p EXCEPT !.pc = After(p), !.orgs = {p.org} \intersect exists]
      <3>1. p.pc = "room" /\ Set(r, q) /\ UNCHANGED invites
        BY <2>3 DEF Room
      <3>2. q.invite = p.invite /\ q.user = p.user /\ q.org = p.org /\ ~q.alone
        BY <2>1, <3>1 DEF Asked
      <3> HIDE DEF q
      <3> QED BY <1>3, <3>1, <3>2 DEF Accepting
    <2>4. CASE Others(r)
      <3> DEFINE others == Members(p.was.org) \ {p.user}
                 q == [p EXCEPT !.pc = "join", !.alone = others = {}, !.rows = @ \union others]
      <3>1. p.pc = "others" /\ Set(r, q) /\ UNCHANGED invites /\ p.was.org # None
        BY <2>4 DEF Others, LockInv, RowsInv
      <3>2. q.invite = p.invite /\ q.user = p.user /\ q.org = p.org /\ q.pc = "join" /\ q.was = p.was
        BY <2>1 DEF Asked
      <3> HIDE DEF q
      <3> QED BY <1>3, <3>1, <3>2 DEF Accepting
    <2>5. CASE LockAdmins(r)
      <3> DEFINE q == [p EXCEPT !.pc = "write", !.rows = Members(p.org)]
      <3>1. p.pc = "lock" /\ Set(r, q) /\ UNCHANGED invites
        BY <2>5 DEF LockAdmins
      <3>2. q.pc = "write" /\ ~q.alone
        BY <2>1, <3>1 DEF Asked
      <3> HIDE DEF q
      <3> QED BY <1>2, <3>1, <3>2 DEF Accepting
    <2> QED BY <1>5, <2>2, <2>3, <2>4, <2>5
  <1>6. ASSUME NEW r \in Requests, Join(r) PROVE InviteInv'
    BY <1>1, <1>6, JoinInvites DEF Join
  <1>7. ASSUME NEW r \in Requests, Spend(r) PROVE InviteInv'
    <2>1. req[r].invite \in Made /\ Set(r, Idle) /\ invites' = [invites EXCEPT ![req[r].invite] = Closed("accepted")]
      BY <1>7 DEF Spend, At, InviteInv, Accepting
    <2>2. invites \in [InviteIds -> Invitations]
      BY DEF TypeInv
    <2>3. \A i \in InviteIds : /\ invites'[i].state = "none" <=> invites[i].state = "none"
                               /\ invites'[i].state \in {"none", "pending"} => invites'[i] = invites[i]
      <3>1. Closed("accepted").state = "accepted"
        BY ClosedRow DEF States
      <3> QED BY <2>1, <2>2, <3>1 DEF Made
    <2> QED BY <1>1, <2>1, <2>3
  <1>8. ASSUME NEW i \in InviteIds, RevokeInvite(i) PROVE InviteInv'
    <2>1. UNCHANGED req /\ invites[i].state = "pending" /\ invites' = [invites EXCEPT ![i] = Closed("revoked")]
      BY <1>8 DEF RevokeInvite
    <2>2. invites \in [InviteIds -> Invitations]
      BY DEF TypeInv
    <2>3. \A j \in InviteIds : /\ invites'[j].state = "none" <=> invites[j].state = "none"
                               /\ invites'[j].state \in {"none", "pending"} => invites'[j] = invites[j]
      <3>1. Closed("revoked").state = "revoked"
        BY ClosedRow DEF States
      <3> QED BY <2>1, <2>2, <3>1
    <2>4. Made' = Made /\ Made \subseteq InviteIds
      BY <2>3 DEF Made
    <2>5. ASSUME NEW s \in Requests, req[s].pc \in Accepting PROVE req[s].invite \in Made /\ For(req[s])'
      <3>1. req[s].invite \in Made /\ For(req[s])
        BY <2>5 DEF InviteInv
      <3> QED BY <2>1, <2>3, <2>4, <3>1 DEF For
    <2>6. \A j \in InviteIds \ Made : invites'[j].org = None
      BY <2>3 DEF InviteInv, Made
    <2> QED BY <2>1, <2>4, <2>5, <2>6 DEF InviteInv
  <1>9. ASSUME NEW r \in Requests, Request(r) PROVE InviteInv'
    <2>1. CASE Provision(r) \/ Abort(r)
      BY <1>1, <2>1 DEF Provision, Abort
    <2>2. CASE WriteMember(r)
      BY <1>1, <2>2 DEF WriteMember
    <2>3. CASE \E o \in exists, u \in Users, as \in Roles : Invite(r, o, u, as)
      <3>1. \A o, u, as : LET q == [Idle EXCEPT !.pc = "invite", !.org = o, !.user = u, !.role = as, !.invite = Newest]
                           IN q.pc \notin Accepting /\ ~q.alone
        BY DEF Idle, Accepting
      <3> QED BY <1>2, <2>3, <3>1 DEF Invite
    <2>4. CASE \E u \in Users, as \in Roles \union {None} : AskMember(r, u, as)
      <3>1. \A u, as : LET q == [Idle EXCEPT !.pc = "lock", !.user = u, !.org = member[u].org, !.role = as, !.was = member[u]]
                        IN q.pc \notin Accepting /\ ~q.alone
        BY DEF Idle, Accepting
      <3> QED BY <1>2, <2>4, <3>1 DEF AskMember
    <2>5. CASE \E o \in exists : AskConnection(r, o)
      <3>1. \A o : LET q == [Idle EXCEPT !.pc = "provision", !.org = o] IN q.pc \notin Accepting /\ ~q.alone
        BY DEF Idle, Accepting
      <3> QED BY <1>2, <2>5, <3>1 DEF AskConnection
    <2> QED BY <1>4, <1>5, <1>6, <1>7, <1>9, <2>1, <2>2, <2>3, <2>4, <2>5, CreateInvites DEF Request
  <1>10. CASE UNCHANGED vars
    BY <1>10 DEF vars, InviteInv, Made, For
  <1> QED BY <1>8, <1>9, <1>10 DEF Next

LEMMA PendingOnly ==
    ASSUME TypeInv, LockInv, InviteInv, [Next]_vars, NEW u \in Users, member'[u].org \notin {None, member[u].org}
    PROVE  \E i \in InviteIds : /\ invites[i].state = "pending" /\ invites'[i].state = "accepted"
                                /\ invites[i].user = u /\ invites[i].org = member'[u].org
PROOF
  <1>1. ASSUME NEW r \in Requests, WriteMember(r) PROVE FALSE
    BY <1>1 DEF WriteMember, TypeInv, TypeOK, Nobody
  <1>2. PICK r \in Requests : Join(r)
    <2>1. ~UNCHANGED member
      OBVIOUS
    <2>2. PICK r \in Requests : Request(r)
      BY <2>1 DEF Next, RevokeInvite, vars
    <2> QED BY <1>1, <2>1, <2>2 DEF Request, Invite, CreateInvite, Accept, LockOwn, Room, Others, Spend, AskMember, LockAdmins,
               AskConnection, Provision, Abort
  <1> DEFINE p == req[r]
             dropped == IF p.alone THEN {p.was.org} ELSE {}
  <1>3. /\ p.pc = "join" /\ Spent(p.invite) /\ p.invite \in Made
        /\ invites[p.invite].user = p.user /\ invites[p.invite].org = p.org
    BY <1>2 DEF Join, InviteInv, Accepting, For, Spent
  <1>4. member' = [v \in Users |-> IF v = p.user THEN [org |-> p.org, role |-> p.role]
                                   ELSE IF member[v].org \in dropped THEN Nobody ELSE member[v]]
    BY <1>2 DEF Join
  <1>5. u = p.user /\ member'[u].org = p.org
    <2> HIDE DEF dropped
    <2> QED BY <1>4 DEF Nobody
  <1>6. p.invite \in InviteIds /\ invites[p.invite].state = "pending" /\ invites'[p.invite].state = "accepted"
    <2>1. Closed("accepted").state = "accepted"
      BY ClosedRow DEF States
    <2> QED BY <1>2, <1>3, <2>1 DEF Join, Made, Spent
  <1> QED BY <1>3, <1>5, <1>6

\* A code that was revoked, replaced or used brings nobody in (invites.ts:301-304), for any
\* number of invitations and of requests that accept, revoke and replace them at one time.
THEOREM CodesThatCount == Spec => OnlyPendingJoins
PROOF
  <1>1. TypeInv /\ LockInv /\ InviteInv /\ [Next]_vars =>
        [\A u \in Users : member'[u].org \notin {None, member[u].org} =>
            \E i \in InviteIds : /\ invites[i].state = "pending" /\ invites'[i].state = "accepted"
                                 /\ invites[i].user = u /\ invites[i].org = member'[u].org]_vars
    BY PendingOnly
  <1> QED BY <1>1, TypeInit, LockInit, InviteInit, TypeStep, LockStep, InviteStep, PTL DEF Spec, OnlyPendingJoins

-----------------------------------------------------------------------------
(* Access: the invariants. *)

TokenStates == [state : {"none", "live", "dead"}, conn : Conns \union {0}, secret : {1, 2}]
AskStates ==
    [pc : {"idle", "asked", "open"}, kind : Kinds \union {"none"}, conn : Conns \union {0},
     seat : 0 .. MaxSeats, hit : SUBSET TokenIds, drop : SUBSET (Conns \union {0})]
CallStates == [pc : {"idle", "facts", "limit", "run"}, token : TokenIds, secret : {1, 2}, valid : BOOLEAN]

\* What AccessTypeOK leaves open, but for the call.
TokenRowsInv ==
    /\ AccessTypeOK
    /\ tokens \in [TokenIds -> TokenStates]
    /\ ask \in [Askers -> AskStates]
    /\ plan \in Plans /\ calm \in BOOLEAN
    /\ \A r \in Askers : /\ ask[r].pc = "idle" <=> ask[r].kind = "none"
                         /\ ask[r].pc = "open" => ask[r].kind \notin Grants

\* What a request under way relies on and will leave behind: what it grants may still be
\* granted; what it revokes has no token left that lives on, what it removes no assignment.
Prepared(q) ==
    /\ q.kind = "mint" /\ q.conn \in conns => Authorizes(q.conn)
    /\ q.kind = "assign" => role = "member"
    /\ q.kind \in Locking => q.seat = seat
    /\ q.pc = "open" =>
         /\ q.kind = "unassign" => \A t \in Live : tokens[t].conn \in q.drop => t \in q.hit
         /\ q.kind = "demote" => \A t \in Live : tokens[t].conn \notin assigned => t \in q.hit
         /\ q.kind = "remove" => Live \subseteq q.hit /\ assigned \subseteq q.drop
         /\ q.kind \in {"promote", "demote"} => q.drop = {}

\* Where nothing changes under another request's check, there are only grants at one time, or
\* one request; and what AccessIsTheirs says holds at each of its steps.
CalmInv ==
    calm =>
        /\ \A r, s \in Askers : r # s =>
             ask[r].kind = "none" \/ ask[s].kind = "none" \/ (ask[r].kind \in Grants /\ ask[s].kind \in Grants)
        /\ \A t \in Live : Authorizes(tokens[t].conn)
        /\ role = "none" => assigned = {}
        /\ \A r \in Askers : Prepared(ask[r])

\* A call whose token is good is known to have had a good one, and only such a call goes on.
CallInv ==
    /\ call \in CallStates
    /\ call.pc # "idle" /\ Valid(call.token, call.secret) => call.valid
    /\ call.pc \in {"limit", "run"} => call.valid

AccessInv == TokenRowsInv /\ CalmInv /\ CallInv

rowVars == <<role, seat, conns, assigned, tokens, plan, ask, calm>>

-----------------------------------------------------------------------------
(* To begin with. *)

LEMMA Bounds == MaxTokens \in Nat \ {0} /\ MaxSeats \in Nat \ {0} /\ 1 \in TokenIds /\ TokenIds \subseteq Nat
  BY AccessAssumption DEF TokenIds

LEMMA InitRows == AccessInit => TokenRowsInv /\ CalmInv /\ CallInv
PROOF
  <1> SUFFICES ASSUME AccessInit PROVE TokenRowsInv /\ CalmInv /\ CallInv
    OBVIOUS
  <1>1. conns \subseteq Conns /\ calm \in BOOLEAN
    BY AccessAssumption DEF AccessInit, Conns
  <1>2. Live = {}
    BY DEF AccessInit, Live, NoToken
  <1>3. NoToken \in TokenStates /\ NoAsk \in AskStates
    BY Bounds DEF NoToken, NoAsk, TokenStates, AskStates
  <1>4. \A r \in Askers : ask[r] = NoAsk
    BY DEF AccessInit
  <1>5. TokenRowsInv
    BY <1>1, <1>2, <1>3, <1>4, Bounds DEF TokenRowsInv, AccessTypeOK, AccessInit, Standings, NoAsk
  <1>6. CalmInv
    BY <1>2, <1>4 DEF CalmInv, Prepared, NoAsk, Locking, AccessInit
  <1>7. CallInv
    BY Bounds DEF CallInv, CallStates, AccessInit, NoCall
  <1> QED BY <1>5, <1>6, <1>7

-----------------------------------------------------------------------------
(* What a step of a request leaves alone. *)

LEMMA Becoming ==
    ASSUME TokenRowsInv, NEW r \in Askers, NEW q \in AskStates, Becomes(r, q),
           q.pc = "idle" <=> q.kind = "none", q.pc = "open" => q.kind \notin Grants
    PROVE  /\ ask' \in [Askers -> AskStates]
           /\ ask'[r] = q /\ \A s \in Askers \ {r} : ask'[s] = ask[s]
           /\ \A s \in Askers : /\ ask'[s].pc = "idle" <=> ask'[s].kind = "none"
                                /\ ask'[s].pc = "open" => ask'[s].kind \notin Grants
  BY DEF TokenRowsInv, Becomes

\* A request goes on and the rows stay: it suffices that it is prepared, and does not overlap
\* with others where it may not.
LEMMA GoesOn ==
    ASSUME TokenRowsInv, CalmInv, NEW r \in Askers, NEW q \in AskStates, Becomes(r, q),
           q.pc = "idle" <=> q.kind = "none", q.pc = "open" => q.kind \notin Grants,
           UNCHANGED <<role, seat, conns, assigned, tokens, plan, calm>>,
           calm => Prepared(q),
           calm => \A s \in Askers \ {r} :
               q.kind = "none" \/ ask[s].kind = "none" \/ (q.kind \in Grants /\ ask[s].kind \in Grants)
    PROVE  TokenRowsInv' /\ CalmInv'
PROOF
  <1>1. /\ ask' \in [Askers -> AskStates]
        /\ ask'[r] = q /\ \A s \in Askers \ {r} : ask'[s] = ask[s]
        /\ \A s \in Askers : /\ ask'[s].pc = "idle" <=> ask'[s].kind = "none"
                             /\ ask'[s].pc = "open" => ask'[s].kind \notin Grants
    BY Becoming
  <1>2. TokenRowsInv'
    <2>1. Live' = Live
      BY DEF Live
    <2>2. \A s \in Askers : ask'[s].hit \subseteq TokenIds
      BY <1>1 DEF AskStates
    <2> QED BY <1>1, <2>1, <2>2 DEF TokenRowsInv, AccessTypeOK
  <1>3. CalmInv'
    <2> SUFFICES ASSUME calm PROVE CalmInv'
      BY DEF CalmInv
    <2>1. /\ \A t \in Live : Authorizes(tokens[t].conn)
          /\ role = "none" => assigned = {}
          /\ \A s \in Askers : Prepared(ask[s])
          /\ \A s, t \in Askers : s # t =>
               ask[s].kind = "none" \/ ask[t].kind = "none" \/ (ask[s].kind \in Grants /\ ask[t].kind \in Grants)
      BY DEF CalmInv
    <2>2. \A s, t \in Askers : s # t =>
             ask'[s].kind = "none" \/ ask'[t].kind = "none" \/ (ask'[s].kind \in Grants /\ ask'[t].kind \in Grants)
      BY <1>1, <2>1
    <2>3. \A s \in Askers : Prepared(ask'[s])
      BY <1>1, <2>1
    <2>4. (\A t \in Live : Authorizes(tokens[t].conn))' /\ (role = "none" => assigned = {})'
      BY <2>1 DEF Live, Authorizes
    <2> QED BY <1>1, <2>2, <2>3, <2>4 DEF CalmInv, Prepared, Authorizes, Live
  <1> QED BY <1>2, <1>3

LEMMA AsksKeeps ==
    ASSUME TokenRowsInv, CalmInv, NEW r \in Askers, NEW kind \in Kinds, NEW c \in Conns \union {0}, Asks(r, kind, c)
    PROVE  TokenRowsInv' /\ CalmInv'
PROOF
  <1> DEFINE q == [pc |-> "asked", kind |-> kind, conn |-> c, seat |-> seat, hit |-> {}, drop |-> {}]
  <1>1. Becomes(r, q) /\ UNCHANGED <<role, seat, conns, assigned, tokens, plan, calm>>
    BY DEF Asks
  <1>2. /\ q.pc = "asked" /\ q.kind = kind /\ q.conn = c /\ q.seat = seat
        /\ q \in AskStates
    <2>1. seat \in 0 .. MaxSeats
      BY Bounds DEF TokenRowsInv, AccessTypeOK
    <2> QED BY <2>1 DEF AskStates
  <1>3. kind # "none"
    BY DEF Kinds, Grants, Locking
  <1> HIDE DEF q
  <1>4. Prepared(q)
    BY <1>2 DEF Asks, Prepared, Locking, Authorizes
  <1>5. calm => \A s \in Askers : ask[s].kind = "none" \/ (q.kind \in Grants /\ ask[s].kind \in Grants)
    BY <1>2 DEF Asks
  <1> QED BY <1>1, <1>2, <1>3, <1>4, <1>5, GoesOn

LEMMA GivesUpKeeps ==
    ASSUME TokenRowsInv, CalmInv, NEW r \in Askers, Becomes(r, NoAsk),
           UNCHANGED <<role, seat, conns, assigned, tokens, plan, calm>>
    PROVE  TokenRowsInv' /\ CalmInv'
PROOF
  <1>1. NoAsk \in AskStates /\ NoAsk.pc = "idle" /\ NoAsk.kind = "none"
    BY Bounds DEF NoAsk, AskStates
  <1>2. Prepared(NoAsk)
    BY <1>1 DEF Prepared, Locking
  <1> QED BY <1>1, <1>2, GoesOn

LEMMA OpenKeeps ==
    ASSUME TokenRowsInv, CalmInv, NEW r \in Askers, Open(r)
    PROVE  TokenRowsInv' /\ CalmInv'
PROOF
  <1>1. PICK q : q = ask[r]
    OBVIOUS
  <1>2. PICK drop : drop = CASE q.kind = "unassign" -> {q.conn} [] q.kind = "remove" -> assigned [] OTHER -> {}
    OBVIOUS
  <1>3. PICK hit : hit = Revoked(q)
    OBVIOUS
  <1>4. PICK n : n = [q EXCEPT !.pc = "open", !.hit = hit, !.drop = drop]
    OBVIOUS
  <1>5. q \in AskStates /\ q.pc = "asked" /\ q.kind \in Locking \union {"unassign"}
    BY <1>1 DEF Open, Stands, TokenRowsInv
  <1>6. hit \subseteq TokenIds /\ drop \subseteq Conns \union {0}
    <2>1. hit \subseteq TokenIds
      BY <1>3 DEF Revoked, Live
    <2>2. drop \subseteq Conns \union {0}
      BY <1>2, <1>5 DEF AskStates, TokenRowsInv, AccessTypeOK
    <2> QED BY <2>1, <2>2
  <1>7. Becomes(r, n) /\ UNCHANGED <<role, seat, conns, assigned, tokens, plan, calm>>
    BY <1>1, <1>2, <1>3, <1>4 DEF Open
  <1>8. n \in AskStates
    BY <1>4, <1>5, <1>6 DEF AskStates
  <1>9. n.pc = "open" /\ n.kind = q.kind /\ n.conn = q.conn /\ n.seat = q.seat /\ n.hit = hit /\ n.drop = drop
    BY <1>4, <1>5 DEF AskStates
  <1>10. n.kind # "none" /\ n.kind \notin Grants
    BY <1>5, <1>9 DEF Locking, Grants
  <1>11. ASSUME calm PROVE Prepared(n)
    <2>1. Prepared(q)
      BY <1>1, <1>11 DEF CalmInv
    <2>2. n.kind = "unassign" => \A t \in Live : tokens[t].conn \in n.drop => t \in n.hit
      BY <1>2, <1>3, <1>9 DEF Revoked
    <2>3. n.kind = "demote" => \A t \in Live : tokens[t].conn \notin assigned => t \in n.hit
      BY <1>3, <1>9 DEF Revoked
    <2>4. n.kind = "remove" => Live \subseteq n.hit /\ assigned \subseteq n.drop
      BY <1>2, <1>3, <1>9 DEF Revoked
    <2>5. n.kind \in {"promote", "demote"} => n.drop = {}
      BY <1>2, <1>9
    <2> QED BY <1>9, <1>10, <2>1, <2>2, <2>3, <2>4, <2>5 DEF Prepared, Grants, Locking
  <1>12. calm => \A s \in Askers \ {r} :
             n.kind = "none" \/ ask[s].kind = "none" \/ (n.kind \in Grants /\ ask[s].kind \in Grants)
    BY <1>1, <1>9 DEF CalmInv
  <1> QED BY <1>7, <1>8, <1>9, <1>10, <1>11, <1>12, GoesOn

-----------------------------------------------------------------------------
(* What changes the rows. *)

\* What a calm world is known to keep, taken apart once.
LEMMA Calm ==
    ASSUME CalmInv, calm
    PROVE  /\ \A t \in Live : Authorizes(tokens[t].conn)
           /\ role = "none" => assigned = {}
           /\ \A s \in Askers : Prepared(ask[s])
           /\ \A s, t \in Askers : s # t =>
                ask[s].kind = "none" \/ ask[t].kind = "none" \/ (ask[s].kind \in Grants /\ ask[t].kind \in Grants)
  BY DEF CalmInv

\* A request that is over relies on nothing.
LEMMA Over ==
    ASSUME TokenRowsInv, NEW r \in Askers, Becomes(r, NoAsk)
    PROVE  /\ ask' \in [Askers -> AskStates]
           /\ ask'[r] = NoAsk /\ \A s \in Askers \ {r} : ask'[s] = ask[s]
           /\ \A s \in Askers : /\ ask'[s].pc = "idle" <=> ask'[s].kind = "none"
                                /\ ask'[s].pc = "open" => ask'[s].kind \notin Grants
           /\ NoAsk.kind = "none" /\ NoAsk.pc = "idle"
           /\ \A s \in Askers : ask'[s].hit \subseteq TokenIds
PROOF
  <1>1. NoAsk \in AskStates /\ NoAsk.pc = "idle" /\ NoAsk.kind = "none"
    BY Bounds DEF NoAsk, AskStates
  <1>2. /\ ask' \in [Askers -> AskStates]
        /\ ask'[r] = NoAsk /\ \A s \in Askers \ {r} : ask'[s] = ask[s]
        /\ \A s \in Askers : /\ ask'[s].pc = "idle" <=> ask'[s].kind = "none"
                             /\ ask'[s].pc = "open" => ask'[s].kind \notin Grants
    BY <1>1, Becoming
  <1> QED BY <1>1, <1>2 DEF AskStates

\* Who is exempt of the others' checks is alone, or among grants.
LEMMA Company ==
    ASSUME TokenRowsInv, CalmInv, calm, NEW r \in Askers, NEW s \in Askers \ {r}
    PROVE  /\ ask[r].kind \in Grants => ask[s].kind \in Grants \union {"none"} /\ ask[s].pc # "open"
           /\ ask[r].kind \notin Grants \union {"none"} => ask[s].kind = "none" /\ ask[s].pc = "idle"
PROOF
  <1>1. "none" \notin Grants
    BY DEF Grants
  <1> QED BY <1>1, Calm DEF TokenRowsInv

LEMMA MintKeeps ==
    ASSUME TokenRowsInv, CalmInv, NEW r \in Askers, Mint(r)
    PROVE  TokenRowsInv' /\ CalmInv'
PROOF
  <1>1. PICK t \in TokenIds : tokens' = [tokens EXCEPT ![t] = [state |-> "live", conn |-> ask[r].conn, secret |-> 1]]
    BY DEF Mint
  <1>2. /\ Becomes(r, NoAsk) /\ UNCHANGED <<role, seat, conns, assigned, plan, calm>>
        /\ ask[r].kind = "mint" /\ ask[r].conn \in conns
    BY DEF Mint
  <1>3. /\ tokens' \in [TokenIds -> TokenStates] /\ tokens'[t].conn = ask[r].conn
        /\ \A u \in TokenIds \ {t} : tokens'[u] = tokens[u]
    BY <1>1, <1>2 DEF TokenRowsInv, TokenStates, AccessTypeOK
  <1>4. Live' \subseteq Live \union {t} /\ \A u \in Live' \ {t} : u \in Live
    BY <1>3 DEF Live
  <1>5. TokenRowsInv'
    <2>1. \A u \in TokenIds : u \in Live' => tokens'[u].conn \in conns
      BY <1>2, <1>3, <1>4 DEF TokenRowsInv, AccessTypeOK
    <2> QED BY <1>2, <1>3, <2>1, Over DEF TokenRowsInv, AccessTypeOK
  <1>6. CalmInv'
    <2> SUFFICES ASSUME calm PROVE CalmInv'
      BY <1>2 DEF CalmInv
    <2>1. Authorizes(ask[r].conn)
      BY <1>2, Calm DEF Prepared
    <2>2. \A u \in Live' : Authorizes(tokens'[u].conn)
      BY <1>3, <1>4, <2>1, Calm DEF Live
    <2>3. \A u \in Live' : Authorizes(tokens[u].conn)'
      BY <1>2, <2>2 DEF Authorizes
    <2>4. ask[r].kind \in Grants
      BY <1>2 DEF Grants
    <2>5. \A s \in Askers : Prepared(ask[s])'
      <3> SUFFICES ASSUME NEW s \in Askers PROVE Prepared(ask[s])'
        OBVIOUS
      <3>1. CASE s = r
        BY <3>1, <1>2, Over DEF Prepared, Locking
      <3>2. CASE s # r
        <4>1. ask'[s] = ask[s] /\ ask[s].pc # "open" /\ ask[s].kind \in Grants \union {"none"}
          BY <3>2, <1>2, <2>4, Over, Company
        <4> QED BY <4>1, <1>2, Calm DEF Prepared, Authorizes, Grants, Locking
      <3> QED BY <3>1, <3>2
    <2> QED BY <1>2, <2>3, <2>5, Over, Calm DEF CalmInv
  <1> QED BY <1>5, <1>6

LEMMA AssignKeeps ==
    ASSUME TokenRowsInv, CalmInv, NEW r \in Askers, Assign(r)
    PROVE  TokenRowsInv' /\ CalmInv'
PROOF
  <1>1. /\ Becomes(r, NoAsk) /\ UNCHANGED <<role, seat, conns, tokens, plan, calm>>
        /\ ask[r].kind = "assign" /\ ask[r].conn \in conns /\ assigned' = assigned \union {ask[r].conn}
    BY DEF Assign
  <1>2. Live' = Live
    BY <1>1 DEF Live
  <1>3. TokenRowsInv'
    BY <1>1, <1>2, Over DEF TokenRowsInv, AccessTypeOK
  <1>4. CalmInv'
    <2> SUFFICES ASSUME calm PROVE CalmInv'
      BY <1>1 DEF CalmInv
    <2>1. ask[r].kind \in Grants /\ role = "member"
      BY <1>1, Calm DEF Grants, Prepared
    <2>2. \A t \in Live' : Authorizes(tokens[t].conn)'
      BY <1>1, <1>2, Calm DEF Authorizes
    <2>3. \A s \in Askers : Prepared(ask[s])'
      <3> SUFFICES ASSUME NEW s \in Askers PROVE Prepared(ask[s])'
        OBVIOUS
      <3>1. CASE s = r
        BY <3>1, <1>1, Over DEF Prepared, Locking
      <3>2. CASE s # r
        <4>1. ask'[s] = ask[s] /\ ask[s].pc # "open" /\ ask[s].kind \in Grants \union {"none"}
          BY <3>2, <1>1, <2>1, Over, Company
        <4> QED BY <4>1, <1>1, Calm DEF Prepared, Authorizes, Grants, Locking
      <3> QED BY <3>1, <3>2
    <2> QED BY <1>1, <2>1, <2>2, <2>3, Over, Calm DEF CalmInv
  <1> QED BY <1>3, <1>4

\* A commit kills what it hit and drops what it chose; where it was alone, what is left is
\* still within reach.
LEMMA CommitSettles ==
    ASSUME TokenRowsInv, CalmInv, NEW r \in Askers, Commit(r)
    PROVE  TokenRowsInv' /\ CalmInv'
PROOF
  <1>1. PICK q : q = ask[r]
    OBVIOUS
  <1>2. /\ Becomes(r, NoAsk) /\ UNCHANGED <<seat, conns, plan, calm>> /\ q.pc = "open"
        /\ assigned' = assigned \ q.drop
        /\ tokens' = [t \in TokenIds |-> IF t \in q.hit THEN Dead ELSE tokens[t]]
    BY <1>1 DEF Commit, Stands
  <1>3. q \in AskStates /\ q.kind \in Locking \union {"unassign"}
    BY <1>1, <1>2 DEF TokenRowsInv, AskStates, Kinds
  <1>4. role' = IF q.seat # seat \/ role = "none" \/ q.kind = "unassign" THEN role
                ELSE [promote |-> "admin", demote |-> "member", remove |-> "none"][q.kind]
    BY <1>1 DEF Commit
  <1>5. /\ q.seat # seat \/ role = "none" \/ q.kind = "unassign" => role' = role
        /\ q.seat = seat /\ role # "none" =>
             /\ q.kind = "promote" => role' = "admin"
             /\ q.kind = "demote" => role' = "member"
             /\ q.kind = "remove" => role' = "none"
    BY <1>4
  <1>6. role' \in Standings
    BY <1>3, <1>5 DEF TokenRowsInv, AccessTypeOK, Standings, Locking
  <1>7. Dead \in TokenStates /\ Dead.state = "dead"
    BY DEF Dead, NoToken, TokenStates
  <1>8. tokens' \in [TokenIds -> TokenStates] /\ \A t \in Live' : t \in Live /\ t \notin q.hit /\ tokens'[t] = tokens[t]
    BY <1>2, <1>7 DEF TokenRowsInv, Live
  <1>9. TokenRowsInv'
    BY <1>2, <1>6, <1>8, Over DEF TokenRowsInv, AccessTypeOK
  <1>10. CalmInv'
    <2> SUFFICES ASSUME calm PROVE CalmInv'
      BY <1>2 DEF CalmInv
    <2>1. Prepared(q)
      BY <1>1, Calm
    <2>2. \A s \in Askers \ {r} : ask'[s] = ask[s] /\ ask[s].kind = "none" /\ ask[s].pc = "idle"
      BY <1>1, <1>3, <1>2, Company, Over DEF Locking, Grants
    <2>3. \A t \in Live' : tokens'[t].conn = tokens[t].conn /\ Authorizes(tokens[t].conn)
      BY <1>8, Calm
    <2>4. \A t \in Live' : Authorizes(tokens[t].conn)'
      <3> SUFFICES ASSUME NEW t \in Live' PROVE role' = "admin" \/ (role' = "member" /\ tokens[t].conn \in assigned')
        BY <2>3 DEF Authorizes
      <3>1. role # "none" /\ (role = "admin" \/ (role = "member" /\ tokens[t].conn \in assigned))
        BY <2>3 DEF Authorizes
      <3>2. t \in Live /\ t \notin q.hit
        BY <1>8
      <3>3. CASE q.kind = "unassign"
        <4>1. tokens[t].conn \notin q.drop
          BY <1>2, <2>1, <3>2, <3>3 DEF Prepared
        <4> QED BY <1>2, <1>5, <3>1, <3>3, <4>1
      <3>4. CASE q.kind = "promote"
        BY <1>5, <2>1, <3>1, <3>4 DEF Prepared, Locking
      <3>5. CASE q.kind = "demote"
        <4>1. tokens[t].conn \in assigned /\ q.drop = {} /\ q.seat = seat
          BY <1>2, <2>1, <3>2, <3>5 DEF Prepared, Locking
        <4> QED BY <1>2, <1>5, <3>1, <3>5, <4>1
      <3>6. CASE q.kind = "remove"
        BY <1>2, <2>1, <3>2, <3>6 DEF Prepared
      <3> QED BY <1>3, <3>3, <3>4, <3>5, <3>6 DEF Locking
    <2>5. role' = "none" => assigned' = {}
      <3>1. CASE role = "none"
        BY <1>2, <3>1, Calm
      <3>2. CASE role # "none"
        <4>1. q.kind \in Locking => q.seat = seat
          BY <2>1 DEF Prepared
        <4>2. role' = "none" => q.kind = "remove"
          BY <1>3, <1>5, <3>2, <4>1 DEF Locking
        <4>3. q.kind = "remove" => assigned \subseteq q.drop
          BY <1>2, <2>1 DEF Prepared
        <4> QED BY <1>2, <4>2, <4>3
      <3> QED BY <3>1, <3>2
    <2>6. \A s \in Askers : ask'[s].kind = "none" /\ ask'[s].pc = "idle"
      BY <1>2, <2>2, Over
    <2>7. \A s \in Askers : Prepared(ask[s])'
      BY <2>6 DEF Prepared, Locking
    <2> QED BY <1>2, <2>4, <2>5, <2>6, <2>7 DEF CalmInv
  <1> QED BY <1>9, <1>10

LEMMA RejoinKeeps ==
    ASSUME TokenRowsInv, CalmInv, NEW as \in {"member", "admin"}, Rejoin(as)
    PROVE  TokenRowsInv' /\ CalmInv'
PROOF
  <1>1. UNCHANGED <<conns, assigned, tokens, plan, ask, calm>> /\ role = "none" /\ role' = as /\ Live' = Live
    BY DEF Rejoin, Live
  <1>2. seat' \in 1 .. MaxSeats
    BY Bounds DEF Rejoin, TokenRowsInv, AccessTypeOK
  <1>3. TokenRowsInv'
    BY <1>1, <1>2 DEF TokenRowsInv, AccessTypeOK, Standings
  <1>4. CalmInv'
    <2> SUFFICES ASSUME calm PROVE CalmInv'
      BY <1>1 DEF CalmInv
    <2>1. \A s \in Askers : ask[s].kind = "none" /\ ask[s].pc = "idle"
      BY DEF Rejoin, TokenRowsInv
    <2>2. Live = {}
      BY <1>1, Calm DEF Authorizes
    <2>3. \A s \in Askers : Prepared(ask[s])'
      BY <1>1, <2>1 DEF Prepared, Locking
    <2> QED BY <1>1, <2>1, <2>2, <2>3 DEF CalmInv
  <1> QED BY <1>3, <1>4

LEMMA DeleteKeeps ==
    ASSUME TokenRowsInv, CalmInv, NEW c \in Conns, DeleteConnection(c)
    PROVE  TokenRowsInv' /\ CalmInv'
PROOF
  <1>1. /\ UNCHANGED <<role, seat, plan, ask, calm>> /\ conns' = conns \ {c} /\ assigned' = assigned \ {c}
        /\ tokens' = [t \in TokenIds |-> IF tokens[t].conn = c THEN Dead ELSE tokens[t]]
    BY DEF DeleteConnection
  <1>2. Dead \in TokenStates /\ Dead.state = "dead"
    BY DEF Dead, NoToken, TokenStates
  <1>3. /\ tokens' \in [TokenIds -> TokenStates]
        /\ \A t \in Live' : t \in Live /\ tokens[t].conn # c /\ tokens'[t] = tokens[t]
    BY <1>1, <1>2 DEF TokenRowsInv, Live
  <1>4. TokenRowsInv'
    BY <1>1, <1>3 DEF TokenRowsInv, AccessTypeOK
  <1>5. CalmInv'
    <2> SUFFICES ASSUME calm PROVE CalmInv'
      BY <1>1 DEF CalmInv
    <2>1. \A d \in conns' : Authorizes(d) => Authorizes(d)'
      BY <1>1 DEF Authorizes
    <2>2. \A t \in Live' : Authorizes(tokens[t].conn)'
      BY <1>1, <1>3, Calm DEF Authorizes
    <2>3. \A s \in Askers : Prepared(ask[s])'
      <3> SUFFICES ASSUME NEW s \in Askers PROVE Prepared(ask[s])'
        OBVIOUS
      <3>1. Prepared(ask[s])
        BY Calm
      <3>2. ask'[s] = ask[s]
        BY <1>1
      <3>3. ask[s].kind = "mint" /\ ask[s].conn \in conns' => Authorizes(ask[s].conn)'
        BY <1>1, <3>1 DEF Prepared, Authorizes
      <3>4. ask[s].pc = "open" /\ ask[s].kind = "unassign" =>
              \A t \in Live' : tokens'[t].conn \in ask[s].drop => t \in ask[s].hit
        BY <1>3, <3>1 DEF Prepared
      <3>5. ask[s].pc = "open" /\ ask[s].kind = "demote" =>
              \A t \in Live' : tokens'[t].conn \notin assigned' => t \in ask[s].hit
        BY <1>1, <1>3, <3>1 DEF Prepared
      <3>6. ask[s].pc = "open" /\ ask[s].kind = "remove" => Live' \subseteq ask[s].hit /\ assigned' \subseteq ask[s].drop
        BY <1>1, <1>3, <3>1 DEF Prepared
      <3> QED BY <1>1, <3>1, <3>2, <3>3, <3>4, <3>5, <3>6 DEF Prepared
    <2> QED BY <1>1, <2>2, <2>3, Calm DEF CalmInv
  <1> QED BY <1>4, <1>5

\* Tokens die or get a new secret, or the plan changes.
LEMMA LessKeeps ==
    ASSUME TokenRowsInv, CalmInv, UNCHANGED <<role, seat, conns, assigned, ask, calm>>, plan' \in Plans,
           tokens' \in [TokenIds -> TokenStates],
           \A t \in Live' : t \in Live /\ tokens'[t].conn = tokens[t].conn
    PROVE  TokenRowsInv' /\ CalmInv'
PROOF
  <1>1. TokenRowsInv'
    BY DEF TokenRowsInv, AccessTypeOK
  <1>2. CalmInv'
    <2> SUFFICES ASSUME calm PROVE CalmInv'
      BY DEF CalmInv
    <2>1. \A t \in Live' : Authorizes(tokens[t].conn)'
      BY Calm DEF Authorizes
    <2>2. \A s \in Askers : Prepared(ask[s])'
      BY Calm DEF Prepared, Authorizes
    <2> QED BY <2>1, <2>2, Calm DEF CalmInv
  <1> QED BY <1>1, <1>2

LEMMA TokenKeeps ==
    ASSUME TokenRowsInv, CalmInv, NEW t \in TokenIds, Revoke(t) \/ Rotate(t)
    PROVE  TokenRowsInv' /\ CalmInv'
PROOF
  <1>1. Dead \in TokenStates /\ Dead.state = "dead"
    BY DEF Dead, NoToken, TokenStates
  <1>2. \/ tokens' = [tokens EXCEPT ![t] = Dead]
        \/ tokens' = [tokens EXCEPT ![t].secret = 2]
    BY DEF Revoke, Rotate
  <1>3. \A u \in TokenIds \ {t} : tokens'[u] = tokens[u]
    BY <1>2 DEF TokenRowsInv
  <1>4. tokens' \in [TokenIds -> TokenStates] /\ \A u \in Live' : u \in Live /\ tokens'[u].conn = tokens[u].conn
    BY <1>1, <1>2 DEF TokenRowsInv, TokenStates, Live
  <1> QED BY <1>4, LessKeeps DEF Revoke, Rotate, TokenRowsInv

LEMMA PlanKeeps ==
    ASSUME TokenRowsInv, CalmInv, NEW p \in Plans, ChangePlan(p)
    PROVE  TokenRowsInv' /\ CalmInv'
PROOF
  <1>1. Live' = Live
    BY DEF Live, ChangePlan
  <1> QED BY <1>1, LessKeeps DEF ChangePlan, TokenRowsInv

LEMMA WriteKeeps ==
    ASSUME TokenRowsInv, CalmInv, Write
    PROVE  TokenRowsInv' /\ CalmInv'
PROOF
  <1>1. ASSUME NEW r \in Askers, AdminRequest(r) PROVE TokenRowsInv' /\ CalmInv'
    <2>1. ASSUME NEW kind \in Kinds, NEW c \in Conns \union {0}, Asks(r, kind, c) PROVE TokenRowsInv' /\ CalmInv'
      BY <2>1, AsksKeeps
    <2>2. CASE Mint(r) \/ Assign(r) \/ Open(r) \/ Commit(r)
      BY <2>2, MintKeeps, AssignKeeps, OpenKeeps, CommitSettles
    <2>3. CASE Becomes(r, NoAsk) /\ UNCHANGED <<role, seat, conns, assigned, tokens, plan, calm>>
      BY <2>3, GivesUpKeeps
    <2> QED BY <1>1, <2>1, <2>2, <2>3 DEF AdminRequest
  <1> QED BY <1>1, RejoinKeeps, DeleteKeeps, TokenKeeps, PlanKeeps DEF Write

-----------------------------------------------------------------------------
(* The call. *)

\* Whatever is written while a call is on its way, a moment at which its token is good is noted.
LEMMA WatchKeeps ==
    ASSUME CallInv, Watch
    PROVE  CallInv'
PROOF
  <1>1. PICK t \in TokenIds, s \in {1, 2} :
          /\ t = call.token /\ s = call.secret
          /\ call' = [call EXCEPT !.valid = @ \/ (call.pc # "idle" /\ Valid(t, s)')]
    BY DEF Watch
  <1>2. Valid(t, s)' \in BOOLEAN /\ call.valid \in BOOLEAN
    BY DEF Valid, CallInv, CallStates
  <1>3. PICK v \in BOOLEAN : v = (call.valid \/ (call.pc # "idle" /\ Valid(t, s)'))
    BY <1>2
  <1>4. call' = [call EXCEPT !.valid = v]
    BY <1>1, <1>3
  <1>5. call' \in CallStates /\ call'.pc = call.pc /\ call'.token = t /\ call'.secret = s /\ call'.valid = v
    BY <1>1, <1>4 DEF CallInv, CallStates
  <1>6. Valid(call.token, call.secret)' => Valid(t, s)'
    BY <1>5 DEF Valid, Authorizes
  <1>7. call'.pc \in {"limit", "run"} => v
    BY <1>3, <1>5 DEF CallInv
  <1> QED BY <1>3, <1>5, <1>6, <1>7 DEF CallInv

LEMMA CallKeeps ==
    ASSUME TokenRowsInv, CallInv, UNCHANGED rowVars,
           (\E t \in TokenIds, s \in {1, 2} : CallBegins(t, s)) \/ Facts \/ Limit \/ Run
    PROVE  CallInv'
PROOF
  <1>1. \A t, s : Valid(t, s)' <=> Valid(t, s)
    BY DEF rowVars, Valid, Authorizes
  <1>2. NoCall \in CallStates /\ NoCall.pc = "idle"
    BY Bounds DEF NoCall, CallStates
  <1>3. CASE call' = NoCall
    BY <1>2, <1>3 DEF CallInv
  <1>4. ASSUME NEW t \in TokenIds, NEW s \in {1, 2}, CallBegins(t, s) PROVE CallInv'
    <2>1. Valid(t, s) \in BOOLEAN
      BY DEF Valid
    <2>2. PICK v \in BOOLEAN : v = Valid(t, s)
      BY <2>1
    <2>3. call' = [pc |-> "facts", token |-> t, secret |-> s, valid |-> v]
      BY <1>4, <2>2 DEF CallBegins
    <2>4. call' \in CallStates /\ call'.pc = "facts" /\ call'.token = t /\ call'.secret = s /\ call'.valid = v
      BY <2>3 DEF CallStates
    <2>5. Valid(call.token, call.secret)' => Valid(t, s)
      BY <2>4 DEF rowVars, Valid, Authorizes
    <2> QED BY <2>2, <2>4, <2>5 DEF CallInv
  <1>5. ASSUME NEW pc \in {"limit", "run"}, call' = [call EXCEPT !.pc = pc], call.valid, call.pc # "idle" PROVE CallInv'
    <2>1. /\ call' \in CallStates /\ call'.pc = pc /\ call'.token = call.token /\ call'.secret = call.secret
          /\ call'.valid = call.valid
      BY <1>5 DEF CallInv, CallStates
    <2> QED BY <1>5, <2>1 DEF CallInv
  <1>6. CASE Facts
    BY <1>3, <1>5, <1>6 DEF Facts, CallInv
  <1>7. CASE Limit
    BY <1>3, <1>5, <1>7 DEF Limit, CallInv
  <1>8. CASE Run
    BY <1>3, <1>8 DEF Run
  <1> QED BY <1>4, <1>6, <1>7, <1>8

LEMMA StepKeeps == AccessInv /\ [AccessNext]_accessVars => AccessInv'
PROOF
  <1> SUFFICES ASSUME AccessInv, [AccessNext]_accessVars PROVE AccessInv'
    OBVIOUS
  <1> USE DEF AccessInv
  <1>1. CASE Write /\ Watch
    BY <1>1, WriteKeeps, WatchKeeps
  <1>2. ASSUME UNCHANGED rowVars PROVE TokenRowsInv' /\ CalmInv'
    <2>1. Live' = Live
      BY <1>2 DEF rowVars, Live
    <2> QED BY <1>2, <2>1, LessKeeps DEF rowVars, TokenRowsInv
  <1>3. CASE (\E t \in TokenIds, s \in {1, 2} : CallBegins(t, s)) \/ Facts \/ Limit \/ Run
    <2>1. UNCHANGED rowVars
      BY <1>3 DEF rowVars, CallBegins, Facts, Limit, Run
    <2> QED BY <1>2, <1>3, <2>1, CallKeeps
  <1>4. CASE UNCHANGED accessVars
    <2>1. UNCHANGED rowVars /\ UNCHANGED call
      BY <1>4 DEF accessVars, rowVars
    <2>2. CallInv'
      BY <2>1 DEF CallInv, rowVars, Valid, Authorizes
    <2> QED BY <1>2, <2>1, <2>2
  <1> QED BY <1>1, <1>3, <1>4 DEF AccessNext

LEMMA AccessInvariance == AccessSpec => []AccessInv
PROOF
  <1>1. AccessInit => AccessInv
    BY InitRows DEF AccessInv
  <1> QED BY <1>1, StepKeeps, PTL DEF AccessSpec

-----------------------------------------------------------------------------
(* The theorems. *)

\* Roles, assignments, tokens and requests keep their shape; a live token is of a connection
\* there is (what deleteInstance() takes with it).
THEOREM AccessTypeCorrect == AccessSpec => []AccessTypeOK
PROOF
  <1>1. AccessInv => AccessTypeOK
    BY DEF AccessInv, TokenRowsInv
  <1> QED BY <1>1, AccessInvariance, PTL

\* Where nothing changes under another request's check, whatever order members are assigned,
\* promoted, demoted, removed and taken back in, every live token answers, and who is gone has no
\* assignment left (tokens.ts:239-243, org.ts:212-219, org.ts:524); and whatever overlaps, a call
\* that is let in had a token that was good since it began (mcp-auth.ts:134-141).
THEOREM AccessStaysTheirs == AccessSpec => []AccessIsTheirs
PROOF
  <1>1. AccessInv => AccessIsTheirs
    BY DEF AccessInv, CalmInv, CallInv, AccessIsTheirs, ActiveAnswers, AssignedAreMembers, AdmittedWasValid, AtRest
  <1> QED BY <1>1, AccessInvariance, PTL

\* createToken() counts under the lock it inserts under: however requests, revocations and
\* changes of the plan interleave, a step that leaves more live tokens leaves no more than the
\* plan has room for (tokens.post.ts:51-53).
THEOREM RoomForMints == AccessSpec => MintsHaveRoom
PROOF
  <1>1. ASSUME AccessInv, [AccessNext]_accessVars, Cardinality(Live') > Cardinality(Live)
        PROVE  Cardinality(Live') <= plan.tokens
    <2>1. IsFiniteSet(Live) /\ Cardinality(Live) \in Nat
      <3>1. IsFiniteSet(TokenIds)
        BY Bounds, FS_Interval DEF TokenIds
      <3> QED BY <3>1, FS_Subset, FS_CardinalityType DEF Live
    <2>2. ~(Live' \subseteq Live)
      <3>1. Live' \subseteq Live => Cardinality(Live') <= Cardinality(Live) /\ Cardinality(Live') \in Nat
        BY <2>1, FS_Subset, FS_CardinalityType
      <3> QED BY <1>1, <2>1, <3>1
    <2>3. PICK r \in Askers : Mint(r)
      <3>1. Dead.state = "dead"
        BY DEF Dead, NoToken
      <3>2. \/ tokens' = tokens
            \/ \E r \in Askers : Mint(r) \/ Commit(r)
            \/ \E c \in Conns : DeleteConnection(c)
            \/ \E t \in TokenIds : Revoke(t) \/ Rotate(t)
        BY <1>1 DEF AccessNext, Write, AdminRequest, Asks, Assign, Open, Rejoin, ChangePlan, CallBegins, Facts, Limit,
                    Run, accessVars
      <3>3. CASE tokens' = tokens
        BY <2>2, <3>3 DEF Live
      <3>4. ASSUME NEW r \in Askers, Commit(r) PROVE FALSE
        BY <2>2, <3>1, <3>4 DEF Commit, Live
      <3>5. ASSUME NEW c \in Conns, DeleteConnection(c) PROVE FALSE
        BY <2>2, <3>1, <3>5 DEF DeleteConnection, Live
      <3>6. ASSUME NEW t \in TokenIds, Revoke(t) \/ Rotate(t) PROVE FALSE
        BY <1>1, <2>2, <3>1, <3>6 DEF Revoke, Rotate, Live, AccessInv, TokenRowsInv, TokenStates
      <3> QED BY <3>2, <3>3, <3>4, <3>5, <3>6
    <2>4. PICK t \in TokenIds : tokens' = [tokens EXCEPT ![t] = [state |-> "live", conn |-> ask[r].conn, secret |-> 1]]
      BY <2>3 DEF Mint
    <2>5. Live' = Live \union {t}
      BY <1>1, <2>4 DEF Live, AccessInv, TokenRowsInv
    <2>6. Cardinality(Live') \in Nat /\ Cardinality(Live') <= Cardinality(Live) + 1
      <3>1. IsFiniteSet(Live') /\ Cardinality(Live') \in Nat
        BY <2>1, <2>5, FS_AddElement, FS_CardinalityType
      <3>2. t \notin Live
        BY <2>2, <2>5
      <3>3. Cardinality(Live \union {t}) = Cardinality(Live) + 1
        BY <2>1, <3>2, FS_AddElement
      <3> QED BY <2>1, <2>5, <3>1, <3>3
    <2>7. plan.tokens \in Nat /\ Cardinality(Live) < plan.tokens
      BY <1>1, <2>3, AccessAssumption DEF Mint, AccessInv, TokenRowsInv
    <2> QED BY <2>1, <2>6, <2>7
  <1>2. AccessInv /\ [AccessNext]_accessVars =>
          [Cardinality(Live') > Cardinality(Live) => Cardinality(Live') <= plan.tokens]_accessVars
    BY <1>1
  <1> QED BY <1>2, AccessInvariance, PTL DEF AccessSpec, MintsHaveRoom

-----------------------------------------------------------------------------
(* SignIn: the inductive invariant. *)

AnswerStates == [way : {"none", "totp", "recovery", "key"}, from : Nat, code : Nat \union CodeIds]
SignPcs ==
    {"idle", "session", "start", "locked", "claim", "check", "spend", "assert", "fail", "finish", "begin",
     "setup", "end_others"}
Owing == {"claim", "check", "spend", "assert", "fail", "finish"}
SignStates ==
    [pc : SignPcs, kind : SignIn!Kinds \union {"none"}, id : Nat, prompt : Nat, attempt : Nat,
     answer : AnswerStates, had : BOOLEAN, gone : SUBSET Nat]
ChallengeStates == [state : {"none", "live", "gone"}, attempts : Nat, prompt : Nat]

SignTypes ==
    /\ visit \in [kinds : SUBSET SignIn!Kinds, limit : Nat, challenges : Nat, secrets : Nat, mints : Nat]
    /\ totp \in [secret : Nat, confirmed : BOOLEAN, last : Nat]
    /\ passkey \in BOOLEAN /\ registering \in BOOLEAN
    /\ codes \in [mint : Nat, unused : SUBSET CodeIds]
    /\ challenge \in [SignIn!Ids -> ChallengeStates] /\ signedIn \subseteq {"password", "factor"}
    /\ signIn \in [Requests -> SignStates]
    /\ \A r \in Requests :
        signIn[r].id \in SignIn!Ids \union {0} /\ (signIn[r].pc \in Owing => signIn[r].id \in SignIn!Ids)
    /\ made \in [secrets : Nat, mints : Nat, prompts : Nat]
    /\ answered \in [SignIn!Ids -> Nat] /\ begun \in [SignIn!Ids -> Nat]
    /\ passed \subseteq AnswerStates /\ twice \in BOOLEAN

\* Every answer that was checked was claimed; a sign-in that began a session is gone, and at
\* most one is not.
ClaimInv ==
    /\ \A i \in SignIn!Ids :
        /\ answered[i] = challenge[i].attempts /\ answered[i] <= visit.limit
        /\ begun[i] <= 1 /\ (begun[i] # 0 => challenge[i].state = "gone")
    /\ \A i, j \in SignIn!Live : i = j

\* What a request that holds the lock has read is so, and the lock is held by one.
HoldsLock(r) == signIn[r].pc = "locked"
HeldInv ==
    /\ \A r, s \in Requests : HoldsLock(r) /\ HoldsLock(s) => r = s
    /\ \A r \in Requests : HoldsLock(r) =>
        /\ signIn[r].kind = "start" => SignIn!Live \subseteq signIn[r].gone
        /\ signIn[r].kind # "start" => (signIn[r].had <=> SignIn!HasFactor)

\* An answer names a secret, minted codes or a prompt there was.
Named(a) ==
    /\ a.way = "totp" => a.from \in 1 .. made.secrets /\ a.code \in Nat
    /\ a.way = "recovery" => a.from \in 1 .. made.mints
    /\ a.way = "key" => a.from \in 1 .. made.prompts

\* What was matched and is to be spent is of the secret there is, if any; a prompt that was
\* taken is nobody else's.
AnswerInv ==
    \A r \in Requests :
        /\ Named(signIn[r].answer)
        /\ signIn[r].pc = "locked" /\ signIn[r].kind = "confirm" => signIn[r].answer.way = "totp"
        /\ signIn[r].pc = "spend" =>
            /\ signIn[r].answer.way = "totp"
            /\ Steady /\ totp.secret # 0 => totp.secret = signIn[r].answer.from
        /\ signIn[r].pc = "assert" =>
            /\ signIn[r].answer.way = "key" /\ signIn[r].prompt \in 1 .. made.prompts
            /\ \A i \in SignIn!Ids : challenge[i].prompt # signIn[r].prompt
            /\ \A s \in Requests : signIn[s].pc = "assert" /\ signIn[s].prompt = signIn[r].prompt => s = r

PromptInv ==
    /\ \A i \in SignIn!Ids : challenge[i].prompt <= made.prompts
    /\ \A i, j \in SignIn!Ids : challenge[i].prompt # 0 /\ challenge[i].prompt = challenge[j].prompt => i = j

\* While a secret stays that is being spent, what has passed cannot pass again: its step is
\* behind, its code used, its prompt taken.
Behind(a) ==
    /\ a.way = "totp" => (a.from = totp.secret => a.code <= totp.last)
    /\ a.way = "recovery" => (a.from = codes.mint => a.code \notin codes.unused)
    /\ a.way = "key" =>
        /\ \A i \in SignIn!Ids : challenge[i].prompt # a.from
        /\ \A r \in Requests : signIn[r].pc = "assert" => signIn[r].prompt # a.from
PassedInv ==
    /\ totp.secret <= made.secrets /\ codes.mint <= made.mints
    /\ Steady => ~twice /\ \A a \in passed : a.way # "none" /\ Named(a) /\ Behind(a)

\* Codes go with factors; who is about to begin a session by password alone has no factor,
\* and none is being enrolled.
FactorInv ==
    /\ (codes.mint # 0) <=> SignIn!HasFactor
    /\ totp.confirmed => totp.secret # 0
    /\ \A r \in Requests : signIn[r].pc = "session" => signIn[r].kind = "password" /\ ~SignIn!HasFactor
    /\ \A r, s \in Requests : signIn[r].kind = "password" => signIn[s].kind \notin SignIn!Enrolments
    /\ "password" \in signedIn => ~SignIn!HasFactor \/ \E r \in Requests : signIn[r].pc = "end_others"

SignInv == SignTypes /\ ClaimInv /\ HeldInv /\ AnswerInv /\ PromptInv /\ PassedInv /\ FactorInv

LEMMA IdleState ==
    /\ SignIn!Idle \in SignStates /\ SignIn!Idle.pc = "idle" /\ SignIn!Idle.kind = "none" /\ SignIn!Idle.id = 0
    /\ SignIn!Idle.answer = SignIn!NoAnswer /\ SignIn!NoAnswer.way = "none" /\ SignIn!NoAnswer \in AnswerStates
BY DEF SignIn!Idle, SignIn!NoAnswer, SignStates, SignPcs, AnswerStates

LEMMA SignStart == SignIn!Init => SignInv
<1> SUFFICES ASSUME SignIn!Init PROVE SignInv
  OBVIOUS
<1>1. visit \in [kinds : SUBSET SignIn!Kinds, limit : Nat, challenges : Nat, secrets : Nat, mints : Nat]
  BY SignInAssumed DEF SignIn!Init, SignIn!Assumption
<1>2. SignTypes
  BY <1>1, IdleState DEF SignIn!Init, SignTypes, Owing, SignIn!NoTotp, SignIn!NoCodes, SignIn!NoChallenge, ChallengeStates
<1>3. ClaimInv /\ PromptInv
  BY <1>1 DEF SignIn!Init, ClaimInv, PromptInv, SignIn!NoChallenge, SignIn!Live
<1>4. HeldInv /\ AnswerInv
  BY IdleState DEF SignIn!Init, HeldInv, HoldsLock, AnswerInv, Named
<1>5. PassedInv /\ FactorInv
  BY IdleState DEF SignIn!Init, PassedInv, FactorInv, SignIn!NoTotp, SignIn!NoCodes, SignIn!HasFactor, SignIn!Enrolments
<1>6. QED
  BY <1>2, <1>3, <1>4, <1>5 DEF SignInv

-----------------------------------------------------------------------------
(* Steps that move one request, and perhaps the sessions. *)

\* What a request may come to be in such a step.
MayBe(r, n) ==
    /\ n \in SignStates /\ n.id \in SignIn!Ids \union {0} /\ (n.pc \in Owing => n.id \in SignIn!Ids)
    /\ Named(n.answer) /\ n.pc \notin {"spend", "assert"}
    /\ n.pc = "locked" =>
        /\ \A s \in Requests \ {r} : ~HoldsLock(s)
        /\ n.kind = "start" => SignIn!Live \subseteq n.gone
        /\ n.kind # "start" => (n.had <=> SignIn!HasFactor)
        /\ n.kind = "confirm" => n.answer.way = "totp"
    /\ n.pc = "session" => n.kind = "password" /\ ~SignIn!HasFactor
    /\ n.kind = "password" => \A s \in Requests : signIn[s].kind \notin SignIn!Enrolments
    /\ n.kind \in SignIn!Enrolments => \A s \in Requests \ {r} : signIn[s].kind # "password"

LEMMA RequestMoves ==
    ASSUME SignInv, NEW r \in Requests, NEW n, MayBe(r, n), signIn' = [signIn EXCEPT ![r] = n],
           UNCHANGED <<visit, totp, passkey, registering, codes, challenge, made, answered, begun, passed, twice>>,
           signedIn' \subseteq {"password", "factor"},
           "password" \in signedIn' => ~SignIn!HasFactor \/ \E s \in Requests : s # r /\ signIn[s].pc = "end_others"
    PROVE  SignInv'
<1> USE DEF MayBe
<1>a. /\ signIn \in [Requests -> SignStates] /\ signIn' \in [Requests -> SignStates]
      /\ \A s \in Requests : signIn'[s] = IF s = r THEN n ELSE signIn[s]
  BY DEF SignInv, SignTypes
<1>1. SignTypes'
  BY <1>a DEF SignInv, SignTypes, SignIn!Ids
<1>2. ClaimInv'
  BY DEF SignInv, ClaimInv, SignIn!Ids, SignIn!Live
<1>3. HeldInv'
  BY <1>a DEF SignInv, HeldInv, HoldsLock, SignIn!Live, SignIn!Ids, SignIn!HasFactor
<1>4. AnswerInv'
  BY <1>a DEF SignInv, AnswerInv, Named, SignIn!Ids
<1>5. PromptInv'
  BY DEF SignInv, PromptInv, SignIn!Ids
<1>6. PassedInv'
  <2>1. ASSUME NEW a \in passed, a.way # "none" /\ Named(a) /\ Behind(a)
        PROVE (a.way # "none" /\ Named(a) /\ Behind(a))'
    BY <1>a, <2>1 DEF Named, Behind, SignIn!Ids
  <2>2. QED
    BY <2>1 DEF SignInv, PassedInv
<1>7. FactorInv'
  BY <1>a DEF SignInv, FactorInv, SignIn!HasFactor, SignIn!Enrolments
<1>8. QED
  BY <1>1, <1>2, <1>3, <1>4, <1>5, <1>6, <1>7 DEF SignInv

\* A request that is through.
LEMMA IdleMayBe == ASSUME SignInv, NEW r \in Requests PROVE MayBe(r, SignIn!Idle)
BY IdleState DEF MayBe, Owing, Named, SignIn!Enrolments

LEMMA SignUnlocked ==
    ASSUME SignInv, NEW r \in Requests, SignIn!Free(r) PROVE \A s \in Requests \ {r} : ~HoldsLock(s)
BY DEF SignIn!Free, SignIn!At, HoldsLock

\* What begins is what Begins() says of it.
LEMMA SignBegins ==
    ASSUME SignInv, NEW r \in Requests, NEW k \in SignIn!Kinds, NEW q \in SignStates, SignIn!Begins(r, k, q)
    PROVE  \E n \in SignStates :
        /\ signIn' = [signIn EXCEPT ![r] = n] /\ n.kind = k
        /\ n.pc = q.pc /\ n.id = q.id /\ n.answer = q.answer /\ n.had = q.had /\ n.gone = q.gone /\ n.prompt = q.prompt
        /\ signIn[r].pc = "idle"
        /\ k = "password" => \A s \in Requests : signIn[s].kind \notin SignIn!Enrolments
        /\ k \in SignIn!Enrolments => \A s \in Requests : signIn[s].kind # "password"
<1> DEFINE n == [q EXCEPT !.kind = k]
<1>1. /\ n \in SignStates /\ n.kind = k /\ n.prompt = q.prompt
      /\ n.pc = q.pc /\ n.id = q.id /\ n.answer = q.answer /\ n.had = q.had /\ n.gone = q.gone
  BY DEF SignStates
<1>2. /\ signIn' = [signIn EXCEPT ![r] = n] /\ signIn[r].pc = "idle"
      /\ k = "password" => \A s \in Requests : signIn[s].kind \notin SignIn!Enrolments
      /\ k \in SignIn!Enrolments => \A s \in Requests : signIn[s].kind # "password"
  BY DEF SignIn!Begins, SignIn!Set, SignIn!At, SignIn!Apart
<1> HIDE DEF n
<1>3. QED
  BY <1>1, <1>2

LEMMA PasswordKeeps ==
    ASSUME SignInv, UNCHANGED visit, NEW r \in Requests, SignIn!Password(r) PROVE SignInv'
<1>1. PICK q \in SignStates :
        /\ q.pc = (IF SignIn!HasFactor THEN "start" ELSE "session")
        /\ q.id = 0 /\ q.answer = SignIn!NoAnswer /\ SignIn!Begins(r, "password", q)
  <2>1. PICK p \in SignPcs : p = IF SignIn!HasFactor THEN "start" ELSE "session"
    BY DEF SignPcs
  <2>2. SignIn!Begins(r, "password", [SignIn!Idle EXCEPT !.pc = p])
    BY <2>1 DEF SignIn!Password
  <2>3. /\ [SignIn!Idle EXCEPT !.pc = p] \in SignStates /\ [SignIn!Idle EXCEPT !.pc = p].pc = p
        /\ [SignIn!Idle EXCEPT !.pc = p].id = 0 /\ [SignIn!Idle EXCEPT !.pc = p].answer = SignIn!NoAnswer
    BY IdleState DEF SignStates
  <2>4. QED
    BY <2>1, <2>2, <2>3
<1>2. PICK n \in SignStates :
        /\ signIn' = [signIn EXCEPT ![r] = n] /\ n.kind = "password"
        /\ n.pc = q.pc /\ n.id = q.id /\ n.answer = q.answer /\ signIn[r].pc = "idle"
        /\ \A s \in Requests : signIn[s].kind \notin SignIn!Enrolments
  BY <1>1, SignBegins DEF SignIn!Kinds
<1>3. MayBe(r, n)
  BY <1>1, <1>2, IdleState DEF MayBe, Owing, Named, SignIn!Enrolments
<1>4. /\ UNCHANGED <<visit, totp, passkey, registering, codes, challenge, made, answered, begun, passed, twice>>
      /\ signedIn' = signedIn
  BY DEF SignIn!Password, SignIn!Factors, SignIn!History
<1>5. QED
  BY <1>2, <1>3, <1>4, RequestMoves DEF SignInv, SignTypes, FactorInv

LEMMA OversKeep ==
    ASSUME SignInv, UNCHANGED visit, NEW r \in Requests,
           SignIn!PasswordSession(r) \/ SignIn!Begin(r) \/ SignIn!EndOthers(r) \/ SignIn!GivesUp(r)
    PROVE  SignInv'
<1>1. /\ signIn' = [signIn EXCEPT ![r] = SignIn!Idle]
      /\ UNCHANGED <<visit, totp, passkey, registering, codes, challenge, made, answered, begun, passed, twice>>
  BY DEF SignIn!PasswordSession, SignIn!Begin, SignIn!EndOthers, SignIn!GivesUp, SignIn!Over, SignIn!Set,
         SignIn!Factors, SignIn!History
<1>2. signedIn' \subseteq {"password", "factor"}
  BY DEF SignIn!PasswordSession, SignIn!Begin, SignIn!EndOthers, SignIn!GivesUp, SignInv, SignTypes
<1>3. "password" \in signedIn' => ~SignIn!HasFactor \/ \E s \in Requests : s # r /\ signIn[s].pc = "end_others"
  BY DEF SignIn!PasswordSession, SignIn!Begin, SignIn!EndOthers, SignIn!GivesUp, SignIn!At, SignInv, FactorInv
<1>4. QED
  BY <1>1, <1>2, <1>3, IdleMayBe, RequestMoves, IdleState

LEMMA StartKeeps ==
    ASSUME SignInv, UNCHANGED visit, NEW r \in Requests, SignIn!Start(r) PROVE SignInv'
<1> DEFINE n == [signIn[r] EXCEPT !.pc = "locked", !.kind = "start", !.gone = SignIn!Live]
<1>1. signIn[r] \in SignStates /\ SignIn!Live \in SUBSET Nat /\ signIn[r].id \in SignIn!Ids \union {0}
  BY DEF SignInv, SignTypes, SignIn!Live, SignIn!Ids
<1>2. /\ n \in SignStates /\ n.pc = "locked" /\ n.kind = "start" /\ n.gone = SignIn!Live
      /\ n.id = signIn[r].id /\ n.answer = signIn[r].answer
  <2> DEFINE g == SignIn!Live
  <2>1. g \in SUBSET Nat
    BY <1>1
  <2> HIDE DEF g
  <2>2. ASSUME NEW q \in SignStates
        PROVE /\ [q EXCEPT !.pc = "locked", !.kind = "start", !.gone = g] \in SignStates
              /\ [q EXCEPT !.pc = "locked", !.kind = "start", !.gone = g].pc = "locked"
              /\ [q EXCEPT !.pc = "locked", !.kind = "start", !.gone = g].kind = "start"
              /\ [q EXCEPT !.pc = "locked", !.kind = "start", !.gone = g].gone = g
              /\ [q EXCEPT !.pc = "locked", !.kind = "start", !.gone = g].id = q.id
              /\ [q EXCEPT !.pc = "locked", !.kind = "start", !.gone = g].answer = q.answer
    BY <2>1 DEF SignStates, SignPcs, SignIn!Kinds, SignIn!Locking
  <2>3. QED
    BY <1>1, <2>2 DEF g
<1>3. /\ signIn' = [signIn EXCEPT ![r] = n] /\ signIn[r].pc = "start"
      /\ UNCHANGED <<visit, totp, passkey, registering, codes, challenge, made, answered, begun, passed, twice>>
      /\ signedIn' = signedIn
  BY DEF SignIn!Start, SignIn!Set, SignIn!At, SignIn!Factors, SignIn!History
<1>4. \A s \in Requests \ {r} : ~HoldsLock(s)
  BY SignUnlocked DEF SignIn!Start
<1> HIDE DEF n
<1>5. Named(n.answer)
  BY <1>2 DEF SignInv, AnswerInv, Named
<1>6. MayBe(r, n)
  BY <1>1, <1>2, <1>4, <1>5 DEF MayBe, Owing, SignIn!Enrolments
<1>7. "password" \in signedIn => ~SignIn!HasFactor \/ \E s \in Requests : s # r /\ signIn[s].pc = "end_others"
  BY <1>3 DEF SignInv, FactorInv
<1>8. QED
  BY <1>3, <1>6, <1>7, RequestMoves DEF SignInv, SignTypes

\* What an answer can be is well-formed and names what there is.
LEMMA AnswersNamed ==
    ASSUME SignInv, NEW a \in SignIn!Answers
    PROVE  /\ a \in AnswerStates /\ Named(a)
           /\ a \in SignIn!Totps => a.way = "totp"
<1>1. made \in [secrets : Nat, mints : Nat, prompts : Nat] /\ Steps \subseteq Nat
  BY SignInAssumed DEF SignInv, SignTypes, SignIn!Assumption
<1>2. CASE a \in SignIn!Totps
  <2>1. a \in [way : {"totp"}, from : 1 .. made.secrets, code : Steps]
    BY <1>2 DEF SignIn!Totps
  <2>2. made.secrets \in Nat
    BY <1>1
  <2>3. a.way = "totp" /\ a.from \in 1 .. made.secrets /\ a.from \in Nat /\ a.code \in Nat
    <3>1. a.way = "totp" /\ a.from \in 1 .. made.secrets /\ a.code \in Steps
      BY <2>1
    <3>2. \A m \in Nat : \A n \in 1 .. m : n \in Nat
      OBVIOUS
    <3>3. a.code \in Nat
      BY <1>1, <3>1
    <3>4. QED
      BY <2>2, <3>1, <3>2, <3>3
  <2>4. a \in AnswerStates
    BY <2>1, <2>3 DEF AnswerStates
  <2>5. QED
    BY <2>3, <2>4 DEF Named
<1>3. CASE a \in [way : {"recovery"}, from : 1 .. made.mints, code : CodeIds]
  BY <1>1, <1>3 DEF AnswerStates, Named, SignIn!Totps
<1>4. CASE a \in [way : {"key"}, from : 1 .. made.prompts, code : {0}]
  BY <1>1, <1>4 DEF AnswerStates, Named, SignIn!Totps
<1>5. QED
  BY <1>2, <1>3, <1>4 DEF SignIn!Answers

LEMMA VerifyKeeps ==
    ASSUME SignInv, UNCHANGED visit, NEW r \in Requests, NEW i \in SignIn!Ids, NEW a \in SignIn!Answers,
           SignIn!Verify(r, i, a)
    PROVE  SignInv'
<1>1. challenge[i].prompt \in Nat /\ i \in Nat
  <2>1. challenge[i] \in ChallengeStates
    BY DEF SignInv, SignTypes
  <2>2. QED
    BY <2>1 DEF ChallengeStates, SignInv, SignTypes, SignIn!Ids
<1>2. PICK p \in Nat : p = challenge[i].prompt
  BY <1>1
<1> DEFINE q == [SignIn!Idle EXCEPT !.pc = "claim", !.id = i, !.prompt = p, !.answer = a]
<1>3. SignIn!Begins(r, "verify", q)
  BY <1>2 DEF SignIn!Verify
<1>4. q \in SignStates /\ q.pc = "claim" /\ q.id = i /\ q.answer = a
  <2>1. ASSUME NEW b \in SignStates
        PROVE /\ [b EXCEPT !.pc = "claim", !.id = i, !.prompt = p, !.answer = a] \in SignStates
              /\ [b EXCEPT !.pc = "claim", !.id = i, !.prompt = p, !.answer = a].pc = "claim"
              /\ [b EXCEPT !.pc = "claim", !.id = i, !.prompt = p, !.answer = a].id = i
              /\ [b EXCEPT !.pc = "claim", !.id = i, !.prompt = p, !.answer = a].answer = a
    BY <1>1, AnswersNamed DEF SignStates, SignPcs
  <2>2. QED
    BY <2>1, IdleState
<1> HIDE DEF q
<1>5. PICK n \in SignStates :
        /\ signIn' = [signIn EXCEPT ![r] = n] /\ n.kind = "verify" /\ n.pc = "claim" /\ n.id = i /\ n.answer = a
        /\ signIn[r].pc = "idle"
  BY <1>3, <1>4, SignBegins DEF SignIn!Kinds
<1>6. MayBe(r, n)
  BY <1>5, AnswersNamed DEF MayBe, Owing, SignIn!Enrolments
<1>7. /\ UNCHANGED <<visit, totp, passkey, registering, codes, challenge, made, answered, begun, passed, twice>>
      /\ signedIn' = signedIn
  BY DEF SignIn!Verify, SignIn!Factors, SignIn!History
<1>8. QED
  BY <1>5, <1>6, <1>7, RequestMoves DEF SignInv, SignTypes, FactorInv

LEMMA SetupKeeps ==
    ASSUME SignInv, UNCHANGED visit, NEW r \in Requests, SignIn!Setup(r) PROVE SignInv'
<1> DEFINE q == [SignIn!Idle EXCEPT !.pc = "setup"]
<1>1. q \in SignStates /\ q.pc = "setup" /\ q.id = 0 /\ q.answer = SignIn!NoAnswer
  BY IdleState DEF SignStates, SignPcs
<1>2. SignIn!Begins(r, "setup", q)
  BY DEF SignIn!Setup
<1> HIDE DEF q
<1>3. PICK n \in SignStates :
        /\ signIn' = [signIn EXCEPT ![r] = n] /\ n.kind = "setup" /\ n.pc = "setup" /\ n.id = 0
        /\ n.answer = SignIn!NoAnswer /\ signIn[r].pc = "idle"
  BY <1>1, <1>2, SignBegins DEF SignIn!Kinds
<1>4. MayBe(r, n)
  BY <1>3, IdleState DEF MayBe, Owing, Named, SignIn!Enrolments
<1>5. /\ UNCHANGED <<visit, totp, passkey, registering, codes, challenge, made, answered, begun, passed, twice>>
      /\ signedIn' = signedIn
  BY DEF SignIn!Setup, SignIn!Factors, SignIn!History
<1>6. QED
  BY <1>3, <1>4, <1>5, RequestMoves DEF SignInv, SignTypes, FactorInv

LEMMA LockKeeps ==
    ASSUME SignInv, UNCHANGED visit, NEW r \in Requests, NEW k \in SignIn!Locking,
           NEW a \in SignIn!Totps \union {SignIn!NoAnswer}, SignIn!Lock(r, k, a)
    PROVE  SignInv'
<1>1. /\ a \in AnswerStates /\ Named(a) /\ (k = "confirm" => a.way = "totp")
  BY AnswersNamed, IdleState DEF SignIn!Answers, SignIn!Lock, Named
<1>2. PICK h \in BOOLEAN : h = SignIn!HasFactor
  BY DEF SignIn!HasFactor
<1> DEFINE q == [SignIn!Idle EXCEPT !.pc = "locked", !.had = h, !.answer = a]
<1>3. q \in SignStates /\ q.pc = "locked" /\ q.had = h /\ q.answer = a /\ q.id = 0
  <2>1. ASSUME NEW b \in SignStates
        PROVE /\ [b EXCEPT !.pc = "locked", !.had = h, !.answer = a] \in SignStates
              /\ [b EXCEPT !.pc = "locked", !.had = h, !.answer = a].pc = "locked"
              /\ [b EXCEPT !.pc = "locked", !.had = h, !.answer = a].had = h
              /\ [b EXCEPT !.pc = "locked", !.had = h, !.answer = a].answer = a
              /\ [b EXCEPT !.pc = "locked", !.had = h, !.answer = a].id = b.id
    BY <1>1 DEF SignStates, SignPcs
  <2>2. QED
    BY <2>1, IdleState
<1>4. SignIn!Begins(r, k, q) /\ k # "start" /\ SignIn!Free(r)
  BY <1>2 DEF SignIn!Lock
<1> HIDE DEF q
<1>5. PICK n \in SignStates :
        /\ signIn' = [signIn EXCEPT ![r] = n] /\ n.kind = k /\ n.pc = "locked" /\ n.id = 0 /\ n.had = h
        /\ n.answer = a /\ signIn[r].pc = "idle"
        /\ k \in SignIn!Enrolments => \A s \in Requests : signIn[s].kind # "password"
  BY <1>3, <1>4, SignBegins DEF SignIn!Kinds
<1>6. MayBe(r, n)
  BY <1>1, <1>2, <1>4, <1>5, SignUnlocked DEF MayBe, Owing, SignIn!Enrolments, SignIn!Locking
<1>7. /\ UNCHANGED <<visit, totp, passkey, registering, codes, challenge, made, answered, begun, passed, twice>>
      /\ signedIn' = signedIn
  BY DEF SignIn!Lock, SignIn!Factors, SignIn!History
<1>8. QED
  BY <1>5, <1>6, <1>7, RequestMoves DEF SignInv, SignTypes, FactorInv

-----------------------------------------------------------------------------
(* Steps on the sign-ins that owe a factor. *)

\* Deleted(): what is deleted is gone, and all else stays.
LEMMA SignDeletes ==
    ASSUME SignInv, NEW S
    PROVE  /\ SignIn!Deleted(S) \in [SignIn!Ids -> ChallengeStates]
           /\ \A i \in SignIn!Ids :
                /\ SignIn!Deleted(S)[i].attempts = challenge[i].attempts
                /\ SignIn!Deleted(S)[i].prompt = challenge[i].prompt
                /\ SignIn!Deleted(S)[i].state = IF i \in S THEN "gone" ELSE challenge[i].state
<1>1. \A i \in SignIn!Ids : challenge[i] \in ChallengeStates
  BY DEF SignInv, SignTypes
<1>2. ASSUME NEW c \in ChallengeStates
      PROVE /\ [c EXCEPT !.state = "gone"] \in ChallengeStates
            /\ [c EXCEPT !.state = "gone"].attempts = c.attempts
            /\ [c EXCEPT !.state = "gone"].prompt = c.prompt /\ [c EXCEPT !.state = "gone"].state = "gone"
  BY DEF ChallengeStates
<1>3. QED
  BY <1>1, <1>2 DEF SignIn!Deleted

\* A step that moves one request and what it says of its sign-in, no prompt with it.
LEMMA SignInsMove ==
    ASSUME SignInv, NEW r \in Requests, NEW n, MayBe(r, n), n.pc \notin {"locked", "session"},
           signIn' = [signIn EXCEPT ![r] = n],
           UNCHANGED <<visit, totp, passkey, registering, codes, made, passed, twice, signedIn>>,
           challenge' \in [SignIn!Ids -> ChallengeStates], begun' \in [SignIn!Ids -> Nat], answered' \in [SignIn!Ids -> Nat],
           \A i \in SignIn!Ids : challenge'[i].prompt = challenge[i].prompt,
           SignIn!Live' \subseteq SignIn!Live \/ \A s \in Requests \ {r} : ~HoldsLock(s),
           ClaimInv', signIn[r].pc # "end_others"
    PROVE  SignInv'
<1> USE DEF MayBe
<1>a. /\ signIn \in [Requests -> SignStates] /\ signIn' \in [Requests -> SignStates]
      /\ \A s \in Requests : signIn'[s] = IF s = r THEN n ELSE signIn[s]
      /\ SignIn!Ids' = SignIn!Ids
  BY DEF SignInv, SignTypes, SignIn!Ids
<1>1. SignTypes'
  BY <1>a DEF SignInv, SignTypes
<1>3. HeldInv'
  BY <1>a DEF SignInv, HeldInv, HoldsLock, SignIn!HasFactor
<1>4. AnswerInv'
  BY <1>a DEF SignInv, AnswerInv, Named
<1>5. PromptInv'
  BY <1>a DEF SignInv, PromptInv
<1>6. PassedInv'
  <2>1. ASSUME NEW a \in passed, a.way # "none" /\ Named(a) /\ Behind(a)
        PROVE (a.way # "none" /\ Named(a) /\ Behind(a))'
    BY <1>a, <2>1 DEF Named, Behind
  <2>2. QED
    BY <2>1 DEF SignInv, PassedInv
<1>7. FactorInv'
  BY <1>a DEF SignInv, FactorInv, SignIn!HasFactor, SignIn!Enrolments
<1>8. QED
  BY <1>1, <1>3, <1>4, <1>5, <1>6, <1>7 DEF SignInv

LEMMA SignInsEnd ==
    ASSUME SignInv, NEW r \in Requests, NEW n, MayBe(r, n), n.pc \in {"idle", "begin"},
           signIn' = [signIn EXCEPT ![r] = n],
           UNCHANGED <<visit, totp, passkey, registering, codes, made, answered, passed, twice, signedIn>>,
           challenge' \in [SignIn!Ids -> ChallengeStates], begun' \in [SignIn!Ids -> Nat],
           \A i \in SignIn!Ids :
               /\ challenge'[i].attempts = challenge[i].attempts /\ challenge'[i].prompt = challenge[i].prompt
               /\ challenge'[i].state \in {challenge[i].state, "gone"}
               /\ begun'[i] <= 1 /\ (begun'[i] # 0 => challenge'[i].state = "gone"),
           signIn[r].pc # "end_others"
    PROVE  SignInv'
<1>1. SignIn!Ids' = SignIn!Ids /\ SignIn!Live' \subseteq SignIn!Live
  BY DEF SignIn!Ids, SignIn!Live
<1>2. ClaimInv'
  BY <1>1 DEF SignInv, ClaimInv
<1>3. answered' \in [SignIn!Ids -> Nat]
  BY DEF SignInv, SignTypes
<1>4. QED
  BY <1>1, <1>2, <1>3, SignInsMove

LEMMA ExpiresKeeps ==
    ASSUME SignInv, UNCHANGED visit, NEW i \in SignIn!Ids, SignIn!Expires(i) PROVE SignInv'
<1>a. /\ UNCHANGED <<visit, totp, passkey, registering, codes, made, answered, begun, passed, twice, signedIn, signIn>>
      /\ challenge' = SignIn!Deleted({i})
  BY DEF SignIn!Expires, SignIn!Factors, SignIn!History
<1>b. /\ challenge' \in [SignIn!Ids -> ChallengeStates]
      /\ \A j \in SignIn!Ids :
            /\ challenge'[j].attempts = challenge[j].attempts /\ challenge'[j].prompt = challenge[j].prompt
            /\ challenge'[j].state \in {challenge[j].state, "gone"}
      /\ SignIn!Ids' = SignIn!Ids
  BY <1>a, SignDeletes DEF SignIn!Ids
<1>c. SignIn!Live' \subseteq SignIn!Live
  BY <1>b DEF SignIn!Live
<1>1. SignTypes'
  BY <1>a, <1>b DEF SignInv, SignTypes
<1>2. ClaimInv'
  BY <1>a, <1>b, <1>c DEF SignInv, ClaimInv
<1>3. HeldInv'
  BY <1>a, <1>c DEF SignInv, HeldInv, HoldsLock, SignIn!HasFactor
<1>d. /\ SignIn!Ids' = SignIn!Ids /\ \A j \in SignIn!Ids : challenge'[j].prompt = challenge[j].prompt
      /\ signIn' = signIn /\ made' = made /\ totp' = totp /\ codes' = codes /\ passed' = passed /\ twice' = twice
  BY <1>a, <1>b
<1>4. AnswerInv'
  BY <1>d DEF SignInv, AnswerInv, Named
<1>5. PromptInv'
  BY <1>d DEF SignInv, PromptInv
<1>6. PassedInv'
  BY <1>d DEF SignInv, PassedInv, Named, Behind
<1>7. FactorInv'
  BY <1>a DEF SignInv, FactorInv, SignIn!HasFactor
<1>8. QED
  BY <1>1, <1>2, <1>3, <1>4, <1>5, <1>6, <1>7 DEF SignInv

LEMMA RefuseKeeps ==
    ASSUME SignInv, UNCHANGED visit, NEW r \in Requests, SignIn!Refuse(r) PROVE SignInv'
<1>1. /\ signIn' = [signIn EXCEPT ![r] = SignIn!Idle] /\ signIn[r].pc = "fail"
      /\ UNCHANGED <<visit, totp, passkey, registering, codes, made, answered, begun, passed, twice, signedIn>>
      /\ challenge' = SignIn!Deleted({signIn[r].id}) \/ challenge' = challenge
  BY DEF SignIn!Refuse, SignIn!Over, SignIn!Set, SignIn!At, SignIn!Factors, SignIn!History
<1>2. /\ challenge' \in [SignIn!Ids -> ChallengeStates]
      /\ \A j \in SignIn!Ids :
            /\ challenge'[j].attempts = challenge[j].attempts /\ challenge'[j].prompt = challenge[j].prompt
            /\ challenge'[j].state \in {challenge[j].state, "gone"}
  BY <1>1, SignDeletes DEF SignInv, SignTypes
<1>3. /\ begun' \in [SignIn!Ids -> Nat]
      /\ \A i \in SignIn!Ids : begun'[i] <= 1 /\ (begun'[i] # 0 => challenge'[i].state = "gone")
  BY <1>1, <1>2 DEF SignInv, SignTypes, ClaimInv
<1>4. QED
  BY <1>1, <1>2, <1>3, IdleMayBe, IdleState, SignInsEnd

LEMMA Counted ==
    ASSUME NEW I, NEW f \in [I -> Nat], NEW x
    PROVE  /\ [f EXCEPT ![x] = @ + 1] \in [I -> Nat]
           /\ \A j \in I : [f EXCEPT ![x] = @ + 1][j] = IF j = x THEN f[j] + 1 ELSE f[j]
<1>1. ASSUME NEW j \in I
      PROVE  /\ [f EXCEPT ![x] = @ + 1][j] = IF j = x THEN f[j] + 1 ELSE f[j]
             /\ [f EXCEPT ![x] = @ + 1][j] \in Nat
  <2>1. f[j] \in Nat
    OBVIOUS
  <2>2. CASE j = x
    BY <2>1, <2>2
  <2>3. CASE j # x
    BY <2>1, <2>3
  <2>4. QED
    BY <2>2, <2>3
<1>2. QED
  BY <1>1

LEMMA FinishKeeps ==
    ASSUME SignInv, UNCHANGED visit, NEW r \in Requests, SignIn!Finish(r) PROVE SignInv'
<1> DEFINE i == signIn[r].id
<1>1. /\ signIn[r].pc = "finish" /\ challenge' = SignIn!Deleted({i})
      /\ UNCHANGED <<visit, totp, passkey, registering, codes, made, answered, passed, twice, signedIn>>
  BY DEF SignIn!Finish, SignIn!At, SignIn!Factors, SignIn!History
<1>2. /\ challenge' \in [SignIn!Ids -> ChallengeStates]
      /\ \A j \in SignIn!Ids :
            /\ challenge'[j].attempts = challenge[j].attempts /\ challenge'[j].prompt = challenge[j].prompt
            /\ challenge'[j].state = IF j = i THEN "gone" ELSE challenge[j].state
  BY <1>1, SignDeletes
<1>3. CASE SignIn!Finished(i)
  <2> DEFINE n == [signIn[r] EXCEPT !.pc = "begin"]
  <2>1. signIn' = [signIn EXCEPT ![r] = n] /\ begun' = [begun EXCEPT ![i] = @ + 1]
    BY <1>3 DEF SignIn!Finish, SignIn!Set
  <2>2. /\ n \in SignStates /\ n.pc = "begin" /\ n.id = i /\ n.kind = signIn[r].kind /\ n.answer = signIn[r].answer
    BY DEF SignInv, SignTypes, SignStates, SignPcs
  <2> HIDE DEF n
  <2>3. MayBe(r, n)
    BY <2>2 DEF MayBe, Owing, SignInv, SignTypes, AnswerInv, FactorInv, Named
  <2>4. /\ begun' \in [SignIn!Ids -> Nat]
        /\ \A j \in SignIn!Ids : begun'[j] <= 1 /\ (begun'[j] # 0 => challenge'[j].state = "gone")
    <3>1. challenge[i].state # "gone"
      BY <1>3 DEF SignIn!Finished
    <3>2. begun \in [SignIn!Ids -> Nat]
          /\ \A j \in SignIn!Ids : begun[j] <= 1 /\ (begun[j] # 0 => challenge[j].state = "gone")
      BY DEF SignInv, SignTypes, ClaimInv
    <3> HIDE DEF i
    <3>3. /\ begun' \in [SignIn!Ids -> Nat]
          /\ \A j \in SignIn!Ids : begun'[j] = IF j = i THEN begun[j] + 1 ELSE begun[j]
      BY <2>1, <3>2, Counted
    <3>4. \A j \in SignIn!Ids : j = i => begun[j] = 0
      BY <3>1, <3>2
    <3>5. QED
      BY <1>2, <3>2, <3>3, <3>4
  <2>5. QED
    BY <1>1, <1>2, <2>1, <2>2, <2>3, <2>4, SignInsEnd
<1>4. CASE ~SignIn!Finished(i)
  <2>1. signIn' = [signIn EXCEPT ![r] = SignIn!Idle] /\ begun' = begun
    BY <1>4 DEF SignIn!Finish, SignIn!Over, SignIn!Set
  <2>2. /\ begun' \in [SignIn!Ids -> Nat]
        /\ \A j \in SignIn!Ids : begun'[j] <= 1 /\ (begun'[j] # 0 => challenge'[j].state = "gone")
    BY <1>2, <2>1 DEF SignInv, SignTypes, ClaimInv
  <2>3. QED
    BY <1>1, <1>2, <2>1, <2>2, IdleMayBe, IdleState, SignInsEnd
<1>5. QED
  BY <1>3, <1>4

LEMMA StartedKeeps ==
    ASSUME SignInv, UNCHANGED visit, NEW r \in Requests, SignIn!Started(r) PROVE SignInv'
<1> DEFINE d == SignIn!Deleted(signIn[r].gone)
<1>1. PICK i \in SignIn!Ids : challenge[i].state = "none" /\ challenge' = [d EXCEPT ![i].state = "live"]
  BY DEF SignIn!Started
<1>2. /\ signIn' = [signIn EXCEPT ![r] = SignIn!Idle] /\ signIn[r].pc = "locked" /\ signIn[r].kind = "start"
      /\ UNCHANGED <<visit, totp, passkey, registering, codes, made, answered, begun, passed, twice, signedIn>>
  BY DEF SignIn!Started, SignIn!Over, SignIn!Set, SignIn!At, SignIn!Factors, SignIn!History
<1>3. /\ \A s \in Requests \ {r} : ~HoldsLock(s)
      /\ \A j \in SignIn!Ids : challenge[j].state = "live" => j \in signIn[r].gone
  BY <1>2 DEF SignInv, HeldInv, HoldsLock, SignIn!Live
<1>4. /\ d \in [SignIn!Ids -> ChallengeStates]
      /\ \A j \in SignIn!Ids :
            /\ d[j].attempts = challenge[j].attempts /\ d[j].prompt = challenge[j].prompt
            /\ d[j].state = IF j \in signIn[r].gone THEN "gone" ELSE challenge[j].state
  BY SignDeletes
<1> HIDE DEF d
<1>5. /\ challenge' \in [SignIn!Ids -> ChallengeStates]
      /\ \A j \in SignIn!Ids :
            /\ challenge'[j].attempts = challenge[j].attempts /\ challenge'[j].prompt = challenge[j].prompt
            /\ j = i => challenge'[j].state = "live"
            /\ j # i => challenge'[j].state # "live" /\ (challenge[j].state = "gone" => challenge'[j].state = "gone")
  <2>1. ASSUME NEW c \in ChallengeStates
        PROVE /\ [c EXCEPT !.state = "live"] \in ChallengeStates
              /\ [c EXCEPT !.state = "live"].attempts = c.attempts
              /\ [c EXCEPT !.state = "live"].prompt = c.prompt /\ [c EXCEPT !.state = "live"].state = "live"
    BY DEF ChallengeStates
  <2>2. challenge' = [d EXCEPT ![i] = [d[i] EXCEPT !.state = "live"]]
    BY <1>1
  <2>3. d[i] \in ChallengeStates
    BY <1>4
  <2>4. QED
    BY <1>3, <1>4, <2>1, <2>2, <2>3
<1>6. /\ \A j \in SignIn!Ids :
            /\ answered[j] = challenge[j].attempts /\ answered[j] <= visit.limit
            /\ begun[j] <= 1 /\ (begun[j] # 0 => challenge[j].state = "gone")
      /\ answered \in [SignIn!Ids -> Nat] /\ begun \in [SignIn!Ids -> Nat]
  BY DEF SignInv, ClaimInv, SignTypes
<1>7. ClaimInv'
  BY <1>1, <1>2, <1>5, <1>6 DEF ClaimInv, SignIn!Live, SignIn!Ids
<1>8. QED
  BY <1>2, <1>3, <1>5, <1>6, <1>7, IdleMayBe, IdleState, SignInsMove

LEMMA ClaimKeeps ==
    ASSUME SignInv, UNCHANGED visit, NEW r \in Requests, SignIn!Claim(r) PROVE SignInv'
<1> DEFINE i == signIn[r].id
<1>1. /\ signIn[r].pc = "claim"
      /\ UNCHANGED <<visit, totp, passkey, registering, codes, made, begun, passed, twice, signedIn>>
  BY DEF SignIn!Claim, SignIn!At, SignIn!Factors
<1>2. /\ \A j \in SignIn!Ids :
            /\ answered[j] = challenge[j].attempts /\ answered[j] <= visit.limit
            /\ begun[j] <= 1 /\ (begun[j] # 0 => challenge[j].state = "gone")
            /\ challenge[j] \in ChallengeStates
      /\ answered \in [SignIn!Ids -> Nat] /\ begun \in [SignIn!Ids -> Nat]
      /\ challenge \in [SignIn!Ids -> ChallengeStates] /\ signIn[r] \in SignStates /\ i \in SignIn!Ids
      /\ visit.limit \in Nat
  BY <1>1 DEF SignInv, ClaimInv, SignTypes, Owing
<1>3. CASE SignIn!Left(i)
  <2>1. /\ challenge' = [challenge EXCEPT ![i].attempts = @ + 1]
        /\ signIn' = [signIn EXCEPT ![r] = [signIn[r] EXCEPT !.pc = "check", !.attempt = challenge[i].attempts + 1]]
        /\ answered' = [answered EXCEPT ![i] = @ + 1] /\ challenge[i].attempts < visit.limit
    BY <1>3 DEF SignIn!Claim, SignIn!Set, SignIn!Left
  <2>2. challenge[i] \in ChallengeStates /\ challenge[i].attempts \in Nat
    BY <1>2 DEF ChallengeStates
  <2>3. PICK k \in Nat : k = challenge[i].attempts + 1
    BY <2>2
  <2> DEFINE n == [signIn[r] EXCEPT !.pc = "check", !.attempt = k]
  <2>4. /\ n \in SignStates /\ n.pc = "check" /\ n.id = i /\ n.kind = signIn[r].kind /\ n.answer = signIn[r].answer
    <3>1. ASSUME NEW q \in SignStates
          PROVE /\ [q EXCEPT !.pc = "check", !.attempt = k] \in SignStates
                /\ [q EXCEPT !.pc = "check", !.attempt = k].pc = "check"
                /\ [q EXCEPT !.pc = "check", !.attempt = k].id = q.id
                /\ [q EXCEPT !.pc = "check", !.attempt = k].kind = q.kind
                /\ [q EXCEPT !.pc = "check", !.attempt = k].answer = q.answer
      BY DEF SignStates, SignPcs
    <3>2. QED
      BY <1>2, <3>1
  <2>5. signIn' = [signIn EXCEPT ![r] = n]
    BY <2>1, <2>3
  <2> HIDE DEF n
  <2>6. MayBe(r, n)
    BY <1>2, <2>4 DEF MayBe, SignInv, AnswerInv, FactorInv, Named
  <2>7. /\ challenge' \in [SignIn!Ids -> ChallengeStates]
        /\ \A j \in SignIn!Ids :
              /\ challenge'[j].attempts = IF j = i THEN challenge[j].attempts + 1 ELSE challenge[j].attempts
              /\ challenge'[j].prompt = challenge[j].prompt /\ challenge'[j].state = challenge[j].state
    <3>1. ASSUME NEW c \in ChallengeStates
          PROVE /\ [c EXCEPT !.attempts = @ + 1] \in ChallengeStates
                /\ [c EXCEPT !.attempts = @ + 1].attempts = c.attempts + 1
                /\ [c EXCEPT !.attempts = @ + 1].prompt = c.prompt /\ [c EXCEPT !.attempts = @ + 1].state = c.state
      BY DEF ChallengeStates
    <3>2. challenge' = [challenge EXCEPT ![i] = [challenge[i] EXCEPT !.attempts = @ + 1]]
      BY <2>1
    <3> HIDE DEF i
    <3>3. QED
      BY <1>2, <2>2, <3>1, <3>2
  <2>8. /\ answered' \in [SignIn!Ids -> Nat]
        /\ \A j \in SignIn!Ids : answered'[j] = IF j = i THEN answered[j] + 1 ELSE answered[j]
    BY <1>2, <2>1, Counted
  <2>9. SignIn!Ids' = SignIn!Ids /\ SignIn!Live' = SignIn!Live
    BY <2>7 DEF SignIn!Ids, SignIn!Live
  <2>10. \A j \in SignIn!Ids :
            /\ answered'[j] = challenge'[j].attempts /\ answered'[j] <= visit.limit
            /\ begun'[j] <= 1 /\ (begun'[j] # 0 => challenge'[j].state = "gone")
    <3> HIDE DEF i
    <3>1. ASSUME NEW j \in SignIn!Ids
          PROVE answered'[j] = challenge'[j].attempts /\ answered'[j] <= visit.limit
      <4>1. CASE j = i
        BY <1>2, <2>1, <2>2, <2>7, <2>8, <4>1
      <4>2. CASE j # i
        BY <1>2, <2>7, <2>8, <4>2
      <4>3. QED
        BY <4>1, <4>2
    <3>2. QED
      BY <1>1, <1>2, <2>7, <3>1
  <2>11. ClaimInv'
    BY <1>1, <2>9, <2>10 DEF SignInv, ClaimInv
  <2>12. QED
    BY <1>1, <1>2, <2>4, <2>5, <2>6, <2>7, <2>8, <2>9, <2>11, SignInsMove
<1>4. CASE ~SignIn!Left(i)
  <2>1. signIn' = [signIn EXCEPT ![r] = SignIn!Idle] /\ answered' = answered /\ challenge' = SignIn!Deleted({i})
    BY <1>4 DEF SignIn!Claim, SignIn!Over, SignIn!Set
  <2>2. /\ challenge' \in [SignIn!Ids -> ChallengeStates]
        /\ \A j \in SignIn!Ids :
              /\ challenge'[j].attempts = challenge[j].attempts /\ challenge'[j].prompt = challenge[j].prompt
              /\ challenge'[j].state = IF j = i THEN "gone" ELSE challenge[j].state
    BY <2>1, SignDeletes
  <2>3. begun' \in [SignIn!Ids -> Nat] /\ \A j \in SignIn!Ids : begun'[j] <= 1 /\ (begun'[j] # 0 => challenge'[j].state = "gone")
    BY <1>1, <1>2, <2>2
  <2>4. QED
    BY <1>1, <2>1, <2>2, <2>3, IdleMayBe, IdleState, SignInsEnd
<1>5. QED
  BY <1>3, <1>4

-----------------------------------------------------------------------------
(* Steps on prompts and answers. *)

LEMMA PromptKeeps ==
    ASSUME SignInv, UNCHANGED visit, NEW i \in SignIn!Ids, SignIn!Prompt(i) PROVE SignInv'
<1>1. /\ UNCHANGED <<visit, totp, passkey, registering, codes, answered, begun, passed, twice, signedIn, signIn>>
      /\ made' = [made EXCEPT !.prompts = @ + 1] /\ challenge' = [challenge EXCEPT ![i].prompt = made.prompts + 1]
  BY DEF SignIn!Prompt, SignIn!Factors, SignIn!History
<1>2. /\ made \in [secrets : Nat, mints : Nat, prompts : Nat] /\ challenge \in [SignIn!Ids -> ChallengeStates]
      /\ made.prompts \in Nat
  BY DEF SignInv, SignTypes
<1>3. PICK p \in Nat : p = made.prompts
  BY <1>2
<1>4. /\ made' \in [secrets : Nat, mints : Nat, prompts : Nat]
      /\ made'.secrets = made.secrets /\ made'.mints = made.mints /\ made'.prompts = p + 1
  BY <1>1, <1>2, <1>3
<1>5. /\ challenge' \in [SignIn!Ids -> ChallengeStates] /\ SignIn!Ids' = SignIn!Ids
      /\ \A j \in SignIn!Ids :
            /\ challenge'[j].attempts = challenge[j].attempts /\ challenge'[j].state = challenge[j].state
            /\ challenge'[j].prompt = IF j = i THEN p + 1 ELSE challenge[j].prompt
  <2>1. PICK m \in Nat : m = p + 1
    OBVIOUS
  <2>2. ASSUME NEW c \in ChallengeStates
        PROVE /\ [c EXCEPT !.prompt = m] \in ChallengeStates
              /\ [c EXCEPT !.prompt = m].attempts = c.attempts
              /\ [c EXCEPT !.prompt = m].state = c.state /\ [c EXCEPT !.prompt = m].prompt = m
    BY DEF ChallengeStates
  <2>3. challenge' = [challenge EXCEPT ![i] = [challenge[i] EXCEPT !.prompt = m]]
    BY <1>1, <1>3, <2>1
  <2>4. challenge[i] \in ChallengeStates
    BY <1>2
  <2>5. QED
    BY <1>1, <1>2, <2>1, <2>2, <2>3, <2>4 DEF SignIn!Ids
<1>6. SignIn!Live' = SignIn!Live
  BY <1>5 DEF SignIn!Live
<1>7. \A j \in SignIn!Ids : challenge[j].prompt \in 0 .. p
  <2>1. ASSUME NEW j \in SignIn!Ids PROVE challenge[j].prompt \in 0 .. p
    <3>1. challenge[j] \in ChallengeStates /\ challenge[j].prompt <= p
      BY <1>2, <1>3 DEF SignInv, PromptInv
    <3>2. QED
      BY <3>1 DEF ChallengeStates
  <2>2. QED
    BY <2>1
<1>8. SignTypes'
  BY <1>1, <1>4, <1>5 DEF SignInv, SignTypes
<1>9. ClaimInv'
  BY <1>1, <1>5, <1>6 DEF SignInv, ClaimInv
<1>10. HeldInv'
  BY <1>1, <1>6 DEF SignInv, HeldInv, HoldsLock, SignIn!HasFactor
<1>11. AnswerInv'
  <2>1. ASSUME NEW a, Named(a) PROVE Named(a)'
    BY <1>2, <1>3, <1>4, <2>1 DEF Named
  <2>2. QED
    BY <1>1, <1>3, <1>4, <1>5, <2>1 DEF SignInv, AnswerInv
<1>12. PromptInv'
  BY <1>4, <1>5, <1>7 DEF SignInv, PromptInv
<1>13. PassedInv'
  <2>1. ASSUME NEW a, Named(a), Behind(a) PROVE Named(a)' /\ Behind(a)'
    <3>1. Named(a)'
      BY <1>2, <1>3, <1>4, <2>1 DEF Named
    <3>2. Behind(a)'
      BY <1>1, <1>3, <1>5, <2>1 DEF Named, Behind
    <3>3. QED
      BY <3>1, <3>2
  <2>2. QED
    BY <1>1, <1>4, <2>1 DEF SignInv, PassedInv
<1>14. FactorInv'
  BY <1>1 DEF SignInv, FactorInv, SignIn!HasFactor
<1>15. QED
  BY <1>8, <1>9, <1>10, <1>11, <1>12, <1>13, <1>14 DEF SignInv

\* A request that goes on to another step with the same answer.
LEMMA SignMovesOn ==
    ASSUME NEW q \in SignStates, NEW p \in SignPcs
    PROVE  /\ [q EXCEPT !.pc = p] \in SignStates /\ [q EXCEPT !.pc = p].pc = p
           /\ [q EXCEPT !.pc = p].kind = q.kind /\ [q EXCEPT !.pc = p].id = q.id
           /\ [q EXCEPT !.pc = p].prompt = q.prompt /\ [q EXCEPT !.pc = p].answer = q.answer
BY DEF SignStates

LEMMA SignRecords == ASSUME SignInv, NEW r \in Requests PROVE signIn[r] \in SignStates
BY DEF SignInv, SignTypes

\* Whoever fails, and who goes on with nothing read: nothing else moves.
LEMMA FailsKeep ==
    ASSUME SignInv, NEW r \in Requests, signIn[r].pc \in {"check", "spend", "assert"}, SignIn!Fails(r),
           UNCHANGED <<visit, totp, passkey, registering, codes, challenge, made, answered, begun, signedIn>>
    PROVE  SignInv'
<1> DEFINE n == [signIn[r] EXCEPT !.pc = "fail"]
<1>1. /\ signIn' = [signIn EXCEPT ![r] = n]
      /\ UNCHANGED <<visit, totp, passkey, registering, codes, challenge, made, answered, begun, passed, twice>>
      /\ signedIn' = signedIn
  BY DEF SignIn!Fails, SignIn!Set
<1>2. /\ n \in SignStates /\ n.pc = "fail" /\ n.kind = signIn[r].kind /\ n.id = signIn[r].id /\ n.answer = signIn[r].answer
  BY SignRecords, SignMovesOn DEF SignPcs
<1> HIDE DEF n
<1>3. MayBe(r, n)
  BY <1>2 DEF MayBe, Owing, SignInv, SignTypes, AnswerInv, FactorInv, Named
<1>4. QED
  BY <1>1, <1>2, <1>3, RequestMoves DEF SignInv, SignTypes, FactorInv

LEMMA MatchTotpKeeps ==
    ASSUME SignInv, UNCHANGED visit, NEW r \in Requests, SignIn!MatchTotp(r) PROVE SignInv'
<1>1. /\ UNCHANGED <<visit, totp, passkey, registering, codes, challenge, made, answered, begun, signedIn>>
      /\ signIn[r].pc = "check" /\ signIn[r].answer.way = "totp"
  BY DEF SignIn!MatchTotp, SignIn!At, SignIn!Factors
<1>2. CASE totp.confirmed /\ totp.secret = signIn[r].answer.from
  <2> DEFINE n == [signIn[r] EXCEPT !.pc = "spend"]
  <2>1. signIn' = [signIn EXCEPT ![r] = n] /\ passed' = passed /\ twice' = twice
    BY <1>2 DEF SignIn!MatchTotp, SignIn!Set
  <2>2. /\ n \in SignStates /\ n.pc = "spend" /\ n.kind = signIn[r].kind /\ n.id = signIn[r].id /\ n.answer = signIn[r].answer
    BY SignRecords, SignMovesOn DEF SignPcs
  <2> HIDE DEF n
  <2>3. /\ signIn \in [Requests -> SignStates] /\ signIn' \in [Requests -> SignStates]
        /\ \A s \in Requests : signIn'[s] = IF s = r THEN n ELSE signIn[s]
    BY <2>1, <2>2 DEF SignInv, SignTypes
  <2>4. SignTypes'
    BY <1>1, <2>1, <2>2, <2>3 DEF SignInv, SignTypes, Owing, SignIn!Ids
  <2>5. ClaimInv' /\ PromptInv'
    BY <1>1 DEF SignInv, ClaimInv, PromptInv, SignIn!Ids, SignIn!Live
  <2>6. HeldInv'
    BY <1>1, <2>2, <2>3 DEF SignInv, HeldInv, HoldsLock, SignIn!Live, SignIn!Ids, SignIn!HasFactor
  <2>7. AnswerInv'
    BY <1>1, <1>2, <2>2, <2>3 DEF SignInv, AnswerInv, Named, SignIn!Ids
  <2>8. PassedInv'
    <3>1. ASSUME NEW a, Named(a), Behind(a) PROVE Named(a)' /\ Behind(a)'
      BY <1>1, <2>2, <2>3, <3>1 DEF Named, Behind, SignIn!Ids
    <3>2. QED
      BY <1>1, <2>1, <3>1 DEF SignInv, PassedInv
  <2>9. FactorInv'
    BY <1>1, <2>2, <2>3 DEF SignInv, FactorInv, SignIn!HasFactor, SignIn!Enrolments
  <2>10. QED
    BY <2>4, <2>5, <2>6, <2>7, <2>8, <2>9 DEF SignInv
<1>3. CASE ~(totp.confirmed /\ totp.secret = signIn[r].answer.from)
  BY <1>1, <1>3, FailsKeep DEF SignIn!MatchTotp
<1>4. QED
  BY <1>2, <1>3

LEMMA TakePromptKeeps ==
    ASSUME SignInv, UNCHANGED visit, NEW r \in Requests, SignIn!TakePrompt(r) PROVE SignInv'
<1> DEFINE q == signIn[r]
<1> DEFINE Taken == q.prompt # 0 /\ challenge[q.id].state = "live" /\ challenge[q.id].prompt = q.prompt
<1>1. /\ UNCHANGED <<visit, totp, passkey, registering, codes, made, answered, begun, signedIn>>
      /\ signIn[r].pc = "check" /\ signIn[r].answer.way = "key"
  BY DEF SignIn!TakePrompt, SignIn!At, SignIn!Factors
<1>2. CASE Taken
  <2> DEFINE n == [signIn[r] EXCEPT !.pc = "assert"]
  <2>1. /\ signIn' = [signIn EXCEPT ![r] = n] /\ passed' = passed /\ twice' = twice
        /\ challenge' = [challenge EXCEPT ![q.id].prompt = 0]
    BY <1>2 DEF SignIn!TakePrompt, SignIn!Set
  <2>2. /\ n \in SignStates /\ n.pc = "assert" /\ n.kind = q.kind /\ n.id = q.id /\ n.prompt = q.prompt /\ n.answer = q.answer
    BY SignRecords, SignMovesOn DEF SignPcs
  <2> HIDE DEF n
  <2>3. /\ signIn \in [Requests -> SignStates] /\ signIn' \in [Requests -> SignStates]
        /\ \A s \in Requests : signIn'[s] = IF s = r THEN n ELSE signIn[s]
    BY <2>1, <2>2 DEF SignInv, SignTypes
  <2>4. PICK i \in SignIn!Ids : i = q.id
    BY <1>1 DEF SignInv, SignTypes, Owing
  <2>5. /\ challenge' \in [SignIn!Ids -> ChallengeStates] /\ SignIn!Ids' = SignIn!Ids
        /\ \A j \in SignIn!Ids :
              /\ challenge'[j].attempts = challenge[j].attempts /\ challenge'[j].state = challenge[j].state
              /\ challenge'[j].prompt = IF j = i THEN 0 ELSE challenge[j].prompt
    <3>1. ASSUME NEW c \in ChallengeStates
          PROVE /\ [c EXCEPT !.prompt = 0] \in ChallengeStates
                /\ [c EXCEPT !.prompt = 0].attempts = c.attempts
                /\ [c EXCEPT !.prompt = 0].state = c.state /\ [c EXCEPT !.prompt = 0].prompt = 0
      BY DEF ChallengeStates
    <3>2. challenge' = [challenge EXCEPT ![i] = [challenge[i] EXCEPT !.prompt = 0]]
      BY <2>1, <2>4
    <3>3. challenge \in [SignIn!Ids -> ChallengeStates] /\ challenge[i] \in ChallengeStates
      BY DEF SignInv, SignTypes
    <3>4. QED
      BY <1>1, <3>1, <3>2, <3>3 DEF SignIn!Ids
  <2>6. SignIn!Live' = SignIn!Live
    BY <2>5 DEF SignIn!Live
  <2>7. n.prompt # 0 /\ challenge[i].prompt = n.prompt
    BY <1>2, <2>2, <2>4
  <2>8. SignTypes'
    BY <1>1, <2>1, <2>2, <2>3, <2>4, <2>5 DEF SignInv, SignTypes
  <2>9. ClaimInv'
    BY <1>1, <2>5, <2>6 DEF SignInv, ClaimInv
  <2>10. PromptInv'
    <3>1. \A j \in SignIn!Ids : challenge'[j].prompt # 0 => challenge'[j].prompt = challenge[j].prompt
      BY <2>5
    <3>2. made.prompts \in Nat
      BY DEF SignInv, SignTypes
    <3>3. QED
      BY <1>1, <2>5, <3>1, <3>2 DEF SignInv, PromptInv
  <2>11. HeldInv'
    BY <1>1, <2>2, <2>3, <2>6 DEF SignInv, HeldInv, HoldsLock, SignIn!HasFactor
  <2>12. AnswerInv'
    <3>1. ASSUME NEW a, Named(a) PROVE Named(a)'
      BY <1>1, <3>1 DEF Named
    <3>2. /\ \A j \in SignIn!Ids : challenge'[j].prompt # n.prompt
          /\ n.prompt \in 1 .. made.prompts
          /\ \A s \in Requests : signIn[s].pc = "assert" => signIn[s].prompt # n.prompt
      <4>1. n.prompt \in Nat /\ made.prompts \in Nat
        BY <2>2 DEF SignStates, SignInv, SignTypes
      <4>2. QED
        BY <2>5, <2>7, <4>1 DEF SignInv, AnswerInv, PromptInv
    <3>3. \A s \in Requests : signIn[s].pc = "assert" => \A j \in SignIn!Ids : challenge'[j].prompt # signIn[s].prompt
      <4>1. \A s \in Requests : signIn[s].pc = "assert" =>
                signIn[s].prompt # 0 /\ \A j \in SignIn!Ids : challenge[j].prompt # signIn[s].prompt
        BY DEF SignInv, AnswerInv
      <4>2. QED
        BY <2>5, <4>1
    <3>4. QED
      BY <1>1, <2>2, <2>3, <2>5, <3>1, <3>2, <3>3 DEF SignInv, AnswerInv
  <2>13. PassedInv'
    <3>1. ASSUME NEW a, Named(a), Behind(a) PROVE Named(a)' /\ Behind(a)'
      <4>1. Named(a)'
        BY <1>1, <3>1 DEF Named
      <4>2. a.way = "key" => a.from # 0 /\ a.from # n.prompt
        BY <2>7, <3>1 DEF Named, Behind
      <4>3. Behind(a)'
        BY <1>1, <2>2, <2>3, <2>5, <3>1, <4>2 DEF Behind
      <4>4. QED
        BY <4>1, <4>3
    <3>2. QED
      BY <1>1, <2>1, <3>1 DEF SignInv, PassedInv
  <2>14. FactorInv'
    BY <1>1, <2>2, <2>3 DEF SignInv, FactorInv, SignIn!HasFactor, SignIn!Enrolments
  <2>15. QED
    BY <2>8, <2>9, <2>10, <2>11, <2>12, <2>13, <2>14 DEF SignInv
<1>3. CASE ~Taken
  BY <1>1, <1>3, FailsKeep DEF SignIn!TakePrompt
<1>4. QED
  BY <1>2, <1>3

\* Whoever passes: what is spent stays spent, and what passes has not passed before.
LEMMA PassesKeep ==
    ASSUME SignInv, NEW r \in Requests, signIn[r].pc \in {"check", "spend", "assert"}, SignIn!Passes(r),
           UNCHANGED <<visit, passkey, registering, challenge, made, answered, begun, signedIn>>,
           totp' \in [secret : Nat, confirmed : BOOLEAN, last : Nat],
           totp'.secret = totp.secret, totp'.confirmed = totp.confirmed, totp.last <= totp'.last,
           codes' \in [mint : Nat, unused : SUBSET CodeIds], codes'.mint = codes.mint, codes'.unused \subseteq codes.unused,
           signIn[r].answer.way # "none",
           Steady => signIn[r].answer \notin passed,
           Steady => (signIn[r].answer.way = "totp" => signIn[r].answer.code <= totp'.last),
           signIn[r].answer.way = "recovery" => signIn[r].answer.code \notin codes'.unused,
           signIn[r].answer.way = "key" => signIn[r].pc = "assert" /\ signIn[r].prompt = signIn[r].answer.from
    PROVE  SignInv'
<1> DEFINE n == [signIn[r] EXCEPT !.pc = "finish"]
<1>b. PICK b : b = signIn[r].answer
  OBVIOUS
<1>1. signIn' = [signIn EXCEPT ![r] = n] /\ passed' = passed \union {b} /\ twice' = (twice \/ b \in passed)
  BY <1>b DEF SignIn!Passes, SignIn!Set
<1>2. /\ n \in SignStates /\ n.pc = "finish" /\ n.kind = signIn[r].kind /\ n.id = signIn[r].id /\ n.answer = b
  <2>1. PICK q \in SignStates : q = signIn[r]
    BY SignRecords
  <2>2. "finish" \in SignPcs
    BY DEF SignPcs
  <2>3. QED
    BY <1>b, <2>1, <2>2, SignMovesOn
<1> HIDE DEF n
<1>3. /\ signIn \in [Requests -> SignStates] /\ signIn' \in [Requests -> SignStates]
      /\ \A s \in Requests : signIn'[s] = IF s = r THEN n ELSE signIn[s]
      /\ SignIn!Ids' = SignIn!Ids /\ SignIn!Live' = SignIn!Live /\ SignIn!HasFactor' = SignIn!HasFactor
  BY <1>1, <1>2 DEF SignInv, SignTypes, SignIn!Ids, SignIn!Live, SignIn!HasFactor
<1>4. b \in AnswerStates /\ Named(b)
  BY <1>b, SignRecords DEF SignStates, SignInv, AnswerInv
<1>5. SignTypes'
  <2>1. passed' \subseteq AnswerStates /\ twice' \in BOOLEAN
    BY <1>1, <1>4 DEF SignInv, SignTypes
  <2>2. \A s \in Requests :
            signIn'[s].id \in SignIn!Ids \union {0} /\ (signIn'[s].pc \in Owing => signIn'[s].id \in SignIn!Ids)
    BY <1>2, <1>3 DEF SignInv, SignTypes, Owing
  <2>3. QED
    BY <1>3, <2>1, <2>2 DEF SignInv, SignTypes
<1>6. ClaimInv' /\ PromptInv'
  BY <1>3 DEF SignInv, ClaimInv, PromptInv
<1>7. HeldInv'
  BY <1>2, <1>3 DEF SignInv, HeldInv, HoldsLock
<1>8. AnswerInv'
  <2>1. ASSUME NEW a, Named(a) PROVE Named(a)'
    BY <2>1 DEF Named
  <2>2. QED
    BY <1>2, <1>3, <1>4, <2>1 DEF SignInv, AnswerInv
<1>9. PassedInv'
  <2>1. ASSUME NEW a \in AnswerStates, Named(a), Behind(a) PROVE Named(a)' /\ Behind(a)'
    <3>1. Named(a)'
      BY <2>1 DEF Named
    <3>2. a.way = "totp" => a.code \in Nat
      BY <2>1 DEF Named
    <3>3. totp.last \in Nat /\ totp'.last \in Nat
      BY DEF SignInv, SignTypes
    <3>4. Behind(a)'
      BY <1>2, <1>3, <2>1, <3>2, <3>3 DEF Behind
    <3>5. QED
      BY <3>1, <3>4
  <2>2. Steady => Named(b)' /\ Behind(b)' /\ b.way # "none"
    <3>1. Named(b)' /\ b.way # "none"
      BY <1>b, <1>4 DEF Named
    <3>2. b.way = "key" => /\ \A i \in SignIn!Ids : challenge[i].prompt # b.from
                           /\ \A s \in Requests : s # r /\ signIn[s].pc = "assert" => signIn[s].prompt # b.from
      BY <1>b DEF SignInv, AnswerInv
    <3>3. Steady => Behind(b)'
      BY <1>b, <1>2, <1>3, <3>2 DEF Behind
    <3>4. QED
      BY <3>1, <3>3
  <2>3. \A a \in passed : a \in AnswerStates
    BY DEF SignInv, SignTypes
  <2>4. Steady => twice' = FALSE
    BY <1>1, <1>b DEF SignInv, SignTypes, PassedInv
  <2>5. totp'.secret <= made'.secrets /\ codes'.mint <= made'.mints
    BY DEF SignInv, PassedInv
  <2>6. QED
    BY <1>1, <2>1, <2>2, <2>3, <2>4, <2>5 DEF SignInv, PassedInv
<1>10. FactorInv'
  BY <1>2, <1>3 DEF SignInv, FactorInv, SignIn!Enrolments
<1>11. QED
  BY <1>5, <1>6, <1>7, <1>8, <1>9, <1>10 DEF SignInv

LEMMA SpendTotpKeeps ==
    ASSUME SignInv, UNCHANGED visit, NEW r \in Requests, SignIn!SpendTotp(r) PROVE SignInv'
<1>1. /\ signIn[r].pc = "spend" /\ signIn[r].answer.way = "totp"
      /\ UNCHANGED <<visit, passkey, registering, codes, challenge, made, answered, begun, signedIn>>
  BY DEF SignIn!SpendTotp, SignIn!At, SignInv, AnswerInv
<1>2. PICK t \in Nat : t = signIn[r].answer.code
  BY <1>1 DEF SignInv, AnswerInv, Named
<1>3. CASE SignIn!Spends(t)
  <2>1. /\ totp' = [totp EXCEPT !.last = t] /\ SignIn!Passes(r) /\ totp.secret # 0 /\ totp.last < t
    BY <1>2, <1>3 DEF SignIn!SpendTotp, SignIn!Spends
  <2>2. /\ totp' \in [secret : Nat, confirmed : BOOLEAN, last : Nat]
        /\ totp'.secret = totp.secret /\ totp'.confirmed = totp.confirmed /\ totp'.last = t
    BY <2>1 DEF SignInv, SignTypes
  <2>3. totp.last \in Nat /\ codes \in [mint : Nat, unused : SUBSET CodeIds]
    BY DEF SignInv, SignTypes
  <2>4. Steady => signIn[r].answer \notin passed
    <3>1. Steady => totp.secret = signIn[r].answer.from
      BY <1>1, <2>1 DEF SignInv, AnswerInv
    <3>2. QED
      BY <1>1, <1>2, <2>1, <2>3, <3>1 DEF SignInv, PassedInv, Behind
  <2>5. QED
    BY <1>1, <1>2, <2>1, <2>2, <2>3, <2>4, PassesKeep
<1>4. CASE ~SignIn!Spends(t)
  BY <1>1, <1>2, <1>4, FailsKeep DEF SignIn!SpendTotp
<1>5. QED
  BY <1>3, <1>4

LEMMA SpendRecoveryKeeps ==
    ASSUME SignInv, UNCHANGED visit, NEW r \in Requests, SignIn!SpendRecovery(r) PROVE SignInv'
<1> DEFINE a == signIn[r].answer
<1>1. /\ signIn[r].pc = "check" /\ a.way = "recovery"
      /\ UNCHANGED <<visit, totp, passkey, registering, challenge, made, answered, begun, signedIn>>
  BY DEF SignIn!SpendRecovery, SignIn!At
<1>2. CASE codes.mint = a.from /\ a.code \in codes.unused
  <2>1. codes' = [codes EXCEPT !.unused = @ \ {a.code}] /\ SignIn!Passes(r)
    BY <1>2 DEF SignIn!SpendRecovery
  <2>2. codes \in [mint : Nat, unused : SUBSET CodeIds] /\ totp \in [secret : Nat, confirmed : BOOLEAN, last : Nat]
    BY DEF SignInv, SignTypes
  <2>3. /\ codes' \in [mint : Nat, unused : SUBSET CodeIds] /\ codes'.mint = codes.mint
        /\ codes'.unused \subseteq codes.unused /\ a.code \notin codes'.unused
    BY <2>1, <2>2
  <2>4. Steady => a \notin passed
    BY <1>1, <1>2 DEF SignInv, PassedInv, Behind
  <2>5. totp.last \in Nat /\ totp' = totp
    BY <1>1, <2>2
  <2>6. QED
    BY <1>1, <2>1, <2>2, <2>3, <2>4, <2>5, PassesKeep
<1>3. CASE ~(codes.mint = a.from /\ a.code \in codes.unused)
  BY <1>1, <1>3, FailsKeep DEF SignIn!SpendRecovery
<1>4. QED
  BY <1>2, <1>3

LEMMA AssertionKeeps ==
    ASSUME SignInv, UNCHANGED visit, NEW r \in Requests, SignIn!Assertion(r) PROVE SignInv'
<1>1. /\ signIn[r].pc = "assert" /\ signIn[r].answer.way = "key"
      /\ UNCHANGED <<visit, totp, passkey, registering, codes, challenge, made, answered, begun, signedIn>>
  BY DEF SignIn!Assertion, SignIn!At, SignIn!Factors, SignInv, AnswerInv
<1>2. CASE passkey /\ signIn[r].answer.from = signIn[r].prompt
  <2>1. SignIn!Passes(r)
    BY <1>2 DEF SignIn!Assertion
  <2>2. /\ codes \in [mint : Nat, unused : SUBSET CodeIds] /\ totp \in [secret : Nat, confirmed : BOOLEAN, last : Nat]
        /\ totp.last \in Nat
    BY DEF SignInv, SignTypes
  <2>3. Steady => signIn[r].answer \notin passed
    BY <1>1, <1>2 DEF SignInv, PassedInv, Behind
  <2>4. QED
    BY <1>1, <1>2, <2>1, <2>2, <2>3, PassesKeep
<1>3. CASE ~(passkey /\ signIn[r].answer.from = signIn[r].prompt)
  BY <1>1, <1>3, FailsKeep DEF SignIn!Assertion
<1>4. QED
  BY <1>2, <1>3

-----------------------------------------------------------------------------
(* Steps on the factors. *)

\* A transaction that comes to its end, or a new secret: what a factor's step has to keep.
\* Nobody reads the factors meanwhile, and a sign-in that has begun without one is over.
LEMMA FactorsMove ==
    ASSUME SignInv, NEW r \in Requests, NEW n \in SignStates, signIn' = [signIn EXCEPT ![r] = n],
           n.pc \in {"idle", "end_others"}, n.id = 0, n.answer.way = "none",
           n.kind = "none" \/ n.kind = signIn[r].kind, signIn[r].pc # "end_others",
           UNCHANGED <<visit, challenge, answered, begun, signedIn>>,
           totp' \in [secret : Nat, confirmed : BOOLEAN, last : Nat], passkey' \in BOOLEAN, registering' \in BOOLEAN,
           codes' \in [mint : Nat, unused : SUBSET CodeIds],
           made' \in [secrets : Nat, mints : Nat, prompts : Nat],
           made.secrets <= made'.secrets, made.mints <= made'.mints, made'.prompts = made.prompts,
           SignIn!HasFactor' = SignIn!HasFactor \/ signIn[r].pc = "locked",
           \A s \in Requests : Steady /\ totp'.secret \notin {0, totp.secret} => signIn[s].pc # "spend",
           passed' \subseteq AnswerStates, twice' \in BOOLEAN, PassedInv',
           (codes'.mint # 0) <=> SignIn!HasFactor', totp'.confirmed => totp'.secret # 0,
           SignIn!HasFactor' => SignIn!HasFactor \/ signIn[r].kind \in SignIn!Enrolments,
           SignIn!HasFactor' => SignIn!HasFactor \/ n.pc = "end_others"
    PROVE  SignInv'
<1>a. /\ signIn \in [Requests -> SignStates] /\ signIn' \in [Requests -> SignStates]
      /\ \A s \in Requests : signIn'[s] = IF s = r THEN n ELSE signIn[s]
      /\ SignIn!Ids' = SignIn!Ids /\ SignIn!Live' = SignIn!Live
  BY DEF SignInv, SignTypes, SignIn!Ids, SignIn!Live
<1>1. SignTypes'
  BY <1>a DEF SignInv, SignTypes, Owing
<1>2. ClaimInv' /\ PromptInv'
  BY <1>a DEF SignInv, ClaimInv, PromptInv
<1>3. HeldInv'
  BY <1>a DEF SignInv, HeldInv, HoldsLock
<1>4. AnswerInv'
  <2>1. ASSUME NEW a, Named(a) PROVE Named(a)'
    <3>1. /\ made.secrets \in Nat /\ made'.secrets \in Nat /\ made.mints \in Nat /\ made'.mints \in Nat
      BY DEF SignInv, SignTypes
    <3>2. QED
      BY <2>1, <3>1 DEF Named
  <2>2. Named(n.answer)'
    BY DEF Named
  <2>3. \A s \in Requests : signIn'[s].pc = "spend" =>
            /\ signIn'[s].answer.way = "totp"
            /\ Steady /\ totp'.secret # 0 => totp'.secret = signIn'[s].answer.from
    BY <1>a DEF SignInv, AnswerInv
  <2>4. QED
    BY <1>a, <2>1, <2>2, <2>3 DEF SignInv, AnswerInv
<1>5. FactorInv'
  BY <1>a DEF SignInv, FactorInv, SignIn!Enrolments
<1>6. QED
  BY <1>1, <1>2, <1>3, <1>4, <1>5 DEF SignInv

\* Whatever passed stays behind: no secret, codes or prompt of it come back.
LEMMA PassedStays ==
    ASSUME SignInv, NEW r \in Requests, NEW n \in SignStates, signIn' = [signIn EXCEPT ![r] = n],
           n.pc \in {"idle", "end_others"}, UNCHANGED <<visit, challenge>>,
           made' \in [secrets : Nat, mints : Nat, prompts : Nat],
           made.secrets <= made'.secrets, made.mints <= made'.mints, made'.prompts = made.prompts,
           totp' \in [secret : Nat, confirmed : BOOLEAN, last : Nat], codes' \in [mint : Nat, unused : SUBSET CodeIds],
           \/ totp'.secret = 0 \/ totp'.secret > made.secrets
           \/ totp'.secret = totp.secret /\ totp.last <= totp'.last,
           codes' = codes \/ codes'.mint = 0 \/ codes'.mint > made.mints,
           totp'.secret <= made'.secrets, codes'.mint <= made'.mints,
           NEW B \in SUBSET AnswerStates, passed' = passed \union B,
           \A b \in B : b.way = "totp" /\ Named(b) /\ b.from = totp'.secret /\ b.code <= totp'.last,
           Steady => ~twice'
    PROVE  PassedInv'
<1>a. /\ signIn \in [Requests -> SignStates] /\ signIn' \in [Requests -> SignStates]
      /\ \A s \in Requests : signIn'[s].pc = "assert" => signIn[s].pc = "assert" /\ signIn'[s].prompt = signIn[s].prompt
      /\ SignIn!Ids' = SignIn!Ids
      /\ made.secrets \in Nat /\ made'.secrets \in Nat /\ made.mints \in Nat /\ made'.mints \in Nat
      /\ totp.last \in Nat /\ totp'.last \in Nat /\ totp'.secret \in Nat /\ codes'.mint \in Nat
  BY DEF SignInv, SignTypes, SignIn!Ids
<1>1. ASSUME NEW a, Named(a) PROVE Named(a)'
  BY <1>a, <1>1 DEF Named
<1>2. ASSUME NEW a, Named(a), Behind(a) PROVE Behind(a)'
  <2>1. a.way = "totp" /\ a.from = totp'.secret => a.code <= totp'.last
    BY <1>a, <1>2 DEF Named, Behind
  <2>2. a.way = "recovery" /\ a.from = codes'.mint => a.code \notin codes'.unused
    BY <1>a, <1>2 DEF Named, Behind
  <2>3. QED
    BY <1>a, <1>2, <2>1, <2>2 DEF Behind
<1>3. \A b \in B : b.way # "none" /\ Named(b)' /\ Behind(b)'
  BY <1>1 DEF Behind
<1>4. QED
  BY <1>1, <1>2, <1>3 DEF SignInv, PassedInv

LEMMA MintedCodes ==
    ASSUME SignInv, SignIn!Mints
    PROVE  /\ codes' \in [mint : Nat, unused : SUBSET CodeIds] /\ made' \in [secrets : Nat, mints : Nat, prompts : Nat]
           /\ made'.secrets = made.secrets /\ made'.prompts = made.prompts /\ made.mints \in Nat
           /\ made'.mints = made.mints + 1 /\ codes'.mint = made.mints + 1
<1>1. made \in [secrets : Nat, mints : Nat, prompts : Nat] /\ made.mints \in Nat
  BY DEF SignInv, SignTypes
<1>2. PICK m \in Nat : m = made.mints + 1
  BY <1>1
<1>3. made' = [made EXCEPT !.mints = m] /\ codes' = [mint |-> m, unused |-> CodeIds]
  BY <1>2 DEF SignIn!Mints, SignIn!Minted
<1>4. QED
  BY <1>1, <1>2, <1>3

\* afterFactorAdded()
LEMMA AddedCodes ==
    ASSUME SignInv, NEW had \in BOOLEAN, SignIn!Added(had)
    PROVE  /\ codes' \in [mint : Nat, unused : SUBSET CodeIds] /\ made' \in [secrets : Nat, mints : Nat, prompts : Nat]
           /\ made'.secrets = made.secrets /\ made'.prompts = made.prompts /\ made.mints <= made'.mints
           /\ codes' = codes \/ codes'.mint > made.mints
           /\ codes'.mint <= made'.mints
           /\ had => codes' = codes
           /\ ~had => codes'.mint # 0
<1>1. CASE had
  <2>1. codes' = codes /\ made' = made
    BY <1>1 DEF SignIn!Added
  <2>2. QED
    BY <1>1, <2>1 DEF SignInv, SignTypes, PassedInv
<1>2. CASE ~had
  BY <1>2, MintedCodes DEF SignIn!Added
<1>3. QED
  BY <1>1, <1>2

LEMMA EnrolledMoves ==
    ASSUME SignInv, NEW r \in Requests, SignIn!Enrolled(r)
    PROVE  \E n \in SignStates :
              /\ signIn' = [signIn EXCEPT ![r] = n] /\ n.id = 0 /\ n.answer.way = "none"
              /\ n.pc \in {"idle", "end_others"} /\ (~signIn[r].had => n.pc = "end_others")
              /\ n.kind = "none" \/ n.kind = signIn[r].kind
<1>1. PICK k \in SignIn!Kinds \union {"none"} : k = signIn[r].kind
  BY SignRecords DEF SignStates
<1>2. CASE signIn[r].had
  <2>1. signIn' = [signIn EXCEPT ![r] = SignIn!Idle]
    BY <1>2 DEF SignIn!Enrolled, SignIn!Set
  <2>2. QED
    BY <1>2, <2>1, IdleState
<1>3. CASE ~signIn[r].had
  <2> DEFINE n == [SignIn!Idle EXCEPT !.pc = "end_others", !.kind = k]
  <2>1. signIn' = [signIn EXCEPT ![r] = n]
    BY <1>1, <1>3 DEF SignIn!Enrolled, SignIn!Set
  <2>2. n \in SignStates /\ n.pc = "end_others" /\ n.kind = k /\ n.id = 0 /\ n.answer = SignIn!NoAnswer
    <3>1. ASSUME NEW q \in SignStates
          PROVE /\ [q EXCEPT !.pc = "end_others", !.kind = k] \in SignStates
                /\ [q EXCEPT !.pc = "end_others", !.kind = k].pc = "end_others"
                /\ [q EXCEPT !.pc = "end_others", !.kind = k].kind = k
                /\ [q EXCEPT !.pc = "end_others", !.kind = k].id = q.id
                /\ [q EXCEPT !.pc = "end_others", !.kind = k].answer = q.answer
      BY DEF SignStates, SignPcs
    <3>2. QED
      BY <3>1, IdleState
  <2> HIDE DEF n
  <2>3. QED
    BY <1>1, <1>3, <2>1, <2>2, IdleState
<1>4. QED
  BY <1>2, <1>3

\* What the state is made of, before a step.
LEMMA SignParts ==
    ASSUME SignInv
    PROVE  /\ totp \in [secret : Nat, confirmed : BOOLEAN, last : Nat] /\ passkey \in BOOLEAN /\ registering \in BOOLEAN
           /\ codes \in [mint : Nat, unused : SUBSET CodeIds] /\ made \in [secrets : Nat, mints : Nat, prompts : Nat]
           /\ totp.secret \in Nat /\ totp.last \in Nat /\ totp.confirmed \in BOOLEAN /\ codes.mint \in Nat
           /\ made.secrets \in Nat /\ made.mints \in Nat /\ made.prompts \in Nat
           /\ totp.secret <= made.secrets /\ codes.mint <= made.mints /\ (totp.confirmed => totp.secret # 0)
           /\ passed \subseteq AnswerStates /\ twice \in BOOLEAN /\ (Steady => ~twice)
           /\ (codes.mint # 0 <=> SignIn!HasFactor)
BY DEF SignInv, SignTypes, PassedInv, FactorInv

LEMMA SetUpKeeps ==
    ASSUME SignInv, UNCHANGED visit, NEW r \in Requests, SignIn!SetUp(r) PROVE SignInv'
<1>1. /\ signIn' = [signIn EXCEPT ![r] = SignIn!Idle] /\ signIn[r].pc = "setup"
      /\ Steady => \A s \in Requests : signIn[s].pc # "spend"
      /\ UNCHANGED <<visit, passkey, registering, codes, challenge, answered, begun, passed, twice, signedIn>>
  BY DEF SignIn!SetUp, SignIn!Over, SignIn!Set, SignIn!At, SignIn!History
<1>2. PICK m \in Nat : m = made.secrets + 1
  BY SignParts
<1>3. /\ made' \in [secrets : Nat, mints : Nat, prompts : Nat]
      /\ made'.secrets = m /\ made'.mints = made.mints /\ made'.prompts = made.prompts
  <2>1. made' = [made EXCEPT !.secrets = m]
    BY <1>2 DEF SignIn!SetUp
  <2>2. QED
    BY <2>1, SignParts
<1>4. /\ totp' \in [secret : Nat, confirmed : BOOLEAN, last : Nat]
      /\ totp' = totp \/ (~totp.confirmed /\ ~totp'.confirmed /\ totp'.secret = m)
  <2>1. totp' = IF totp.confirmed THEN totp ELSE [secret |-> m, confirmed |-> FALSE, last |-> 0]
    BY <1>2 DEF SignIn!SetUp
  <2>2. CASE totp.confirmed
    BY <2>1, <2>2, SignParts
  <2>3. CASE ~totp.confirmed
    <3>1. totp' = [secret |-> m, confirmed |-> FALSE, last |-> 0]
      BY <2>1, <2>3
    <3>2. QED
      BY <2>3, <3>1
  <2>4. QED
    BY <2>2, <2>3
<1>5. SignIn!HasFactor' = SignIn!HasFactor
  BY <1>1, <1>4 DEF SignIn!HasFactor
<1>6. totp'.secret = m \/ (totp'.secret = totp.secret /\ totp.last <= totp'.last /\ totp'.confirmed = totp.confirmed)
  BY <1>4, SignParts
<1>7. made.secrets < m /\ m # 0 /\ made.mints <= made'.mints /\ codes'.mint <= made'.mints
  BY <1>1, <1>2, <1>3, SignParts
<1>8. PassedInv'
  <2>1. {} \in SUBSET AnswerStates /\ passed' = passed \union {}
    BY <1>1
  <2>2. /\ totp'.secret > made.secrets \/ (totp'.secret = totp.secret /\ totp.last <= totp'.last)
        /\ totp'.secret <= made'.secrets /\ made.secrets <= made'.secrets
    BY <1>2, <1>3, <1>6, <1>7, SignParts
  <2>3. QED
    BY <1>1, <1>3, <1>4, <1>7, <2>1, <2>2, IdleState, SignParts, PassedStays
<1>9. /\ totp'.confirmed => totp'.secret # 0
      /\ made.secrets <= made'.secrets
      /\ (codes'.mint # 0) <=> SignIn!HasFactor'
  BY <1>1, <1>2, <1>3, <1>4, <1>5, <1>7, SignParts
<1>10. QED
  BY <1>1, <1>3, <1>4, <1>5, <1>7, <1>8, <1>9, IdleState, SignParts, FactorsMove

\* A transaction of the profile knows whether there is a factor.
LEMMA HadKnown ==
    ASSUME SignInv, NEW r \in Requests, signIn[r].pc = "locked", signIn[r].kind # "start"
    PROVE  signIn[r].had \in BOOLEAN /\ (signIn[r].had <=> SignIn!HasFactor)
BY SignRecords DEF SignStates, SignInv, HeldInv, HoldsLock

LEMMA ConfirmKeeps ==
    ASSUME SignInv, UNCHANGED visit, NEW r \in Requests, SignIn!Confirm(r) PROVE SignInv'
<1>1. /\ signIn[r].pc = "locked" /\ signIn[r].kind = "confirm" /\ ~totp.confirmed
      /\ UNCHANGED <<visit, passkey, registering, challenge, answered, begun, signedIn>>
      /\ SignIn!Added(signIn[r].had) /\ SignIn!Enrolled(r)
  BY DEF SignIn!Confirm, SignIn!At
<1>2. PICK a \in AnswerStates : a = signIn[r].answer
  BY SignRecords DEF SignStates
<1>3. a.way = "totp" /\ Named(a) /\ a.code \in Nat
  BY <1>1, <1>2 DEF SignInv, AnswerInv, Named
<1>4. PICK t \in Nat : t = a.code
  BY <1>3
<1>5. /\ totp.secret = a.from /\ totp.secret # 0 /\ totp.last < t /\ totp' = [totp EXCEPT !.confirmed = TRUE, !.last = t]
      /\ passed' = passed \union {a} /\ twice' = (twice \/ a \in passed)
  BY <1>2, <1>4 DEF SignIn!Confirm, SignIn!Spends
<1>6. /\ totp' \in [secret : Nat, confirmed : BOOLEAN, last : Nat]
      /\ totp'.secret = totp.secret /\ totp'.last = t /\ totp'.confirmed
  BY <1>5, SignParts
<1>7. PICK h \in BOOLEAN : h = signIn[r].had /\ (h <=> SignIn!HasFactor)
  BY <1>1, HadKnown
<1>8. /\ codes' \in [mint : Nat, unused : SUBSET CodeIds] /\ made' \in [secrets : Nat, mints : Nat, prompts : Nat]
      /\ made'.secrets = made.secrets /\ made'.prompts = made.prompts /\ made.mints <= made'.mints
      /\ codes' = codes \/ codes'.mint > made.mints
      /\ codes'.mint <= made'.mints
      /\ h => codes' = codes
      /\ ~h => codes'.mint # 0
  BY <1>1, <1>7, AddedCodes
<1>9. PICK n \in SignStates :
              /\ signIn' = [signIn EXCEPT ![r] = n] /\ n.id = 0 /\ n.answer.way = "none"
              /\ n.pc \in {"idle", "end_others"} /\ (~h => n.pc = "end_others")
              /\ n.kind = "none" \/ n.kind = signIn[r].kind
  BY <1>1, <1>7, EnrolledMoves
<1>10. Steady => a \notin passed
  BY <1>3, <1>4, <1>5, SignParts DEF SignInv, PassedInv, Behind
<1>11. PassedInv'
  <2>1. {a} \in SUBSET AnswerStates /\ \A b \in {a} : b.way = "totp" /\ Named(b) /\ b.from = totp'.secret /\ b.code <= totp'.last
    BY <1>3, <1>4, <1>5, <1>6
  <2>2. Steady => ~twice'
    BY <1>5, <1>10, SignParts
  <2>3. totp.last <= totp'.last /\ totp'.secret <= made'.secrets /\ made.secrets <= made'.secrets
    BY <1>5, <1>6, <1>8, SignParts
  <2>4. QED
    BY <1>1, <1>5, <1>6, <1>8, <1>9, <2>1, <2>2, <2>3, PassedStays
<1>12. SignIn!HasFactor' /\ codes'.mint # 0
  BY <1>6, <1>7, <1>8, SignParts DEF SignIn!HasFactor
<1>13. passed' \subseteq AnswerStates /\ twice' \in BOOLEAN
  BY <1>5, SignParts
<1>14. /\ made.secrets <= made'.secrets /\ passkey' \in BOOLEAN /\ registering' \in BOOLEAN
       /\ SignIn!HasFactor \/ n.pc = "end_others"
  BY <1>1, <1>7, <1>8, <1>9, SignParts
<1>15. QED
  BY <1>1, <1>5, <1>6, <1>8, <1>9, <1>11, <1>12, <1>13, <1>14, FactorsMove DEF SignIn!Enrolments

LEMMA AddKeyKeeps ==
    ASSUME SignInv, UNCHANGED visit, NEW r \in Requests, SignIn!AddKey(r) PROVE SignInv'
<1>1. /\ signIn[r].pc = "locked" /\ signIn[r].kind = "add_key" /\ registering' = FALSE /\ passkey' = TRUE
      /\ UNCHANGED <<visit, totp, challenge, answered, begun, signedIn, passed, twice>>
      /\ SignIn!Added(signIn[r].had) /\ SignIn!Enrolled(r)
  BY DEF SignIn!AddKey, SignIn!At, SignIn!History
<1>2. PICK h \in BOOLEAN : h = signIn[r].had /\ (h <=> SignIn!HasFactor)
  BY <1>1, HadKnown
<1>3. /\ codes' \in [mint : Nat, unused : SUBSET CodeIds] /\ made' \in [secrets : Nat, mints : Nat, prompts : Nat]
      /\ made'.secrets = made.secrets /\ made'.prompts = made.prompts /\ made.mints <= made'.mints
      /\ codes' = codes \/ codes'.mint > made.mints
      /\ codes'.mint <= made'.mints
      /\ h => codes' = codes
      /\ ~h => codes'.mint # 0
  BY <1>1, <1>2, AddedCodes
<1>4. PICK n \in SignStates :
              /\ signIn' = [signIn EXCEPT ![r] = n] /\ n.id = 0 /\ n.answer.way = "none"
              /\ n.pc \in {"idle", "end_others"} /\ (~h => n.pc = "end_others")
              /\ n.kind = "none" \/ n.kind = signIn[r].kind
  BY <1>1, <1>2, EnrolledMoves
<1>5. /\ totp' \in [secret : Nat, confirmed : BOOLEAN, last : Nat] /\ totp.last <= totp'.last
      /\ totp'.secret <= made'.secrets /\ made.secrets <= made'.secrets /\ totp'.secret = totp.secret
      /\ passed' \subseteq AnswerStates /\ twice' \in BOOLEAN /\ (Steady => ~twice')
      /\ totp'.confirmed => totp'.secret # 0
  BY <1>1, <1>3, SignParts
<1>6. PassedInv'
  <2>1. {} \in SUBSET AnswerStates /\ passed' = passed \union {}
    BY <1>1
  <2>2. QED
    BY <1>1, <1>3, <1>4, <1>5, <2>1, PassedStays
<1>7. SignIn!HasFactor' /\ codes'.mint # 0
  BY <1>1, <1>2, <1>3, SignParts DEF SignIn!HasFactor
<1>8. /\ passkey' \in BOOLEAN /\ registering' \in BOOLEAN
      /\ SignIn!HasFactor \/ n.pc = "end_others"
  BY <1>1, <1>2, <1>4
<1>9. QED
  BY <1>1, <1>3, <1>4, <1>5, <1>6, <1>7, <1>8, FactorsMove DEF SignIn!Enrolments

LEMMA CodesMintKeeps ==
    ASSUME SignInv, UNCHANGED visit, NEW r \in Requests, SignIn!Mint(r) PROVE SignInv'
<1>1. /\ signIn[r].pc = "locked" /\ signIn[r].kind = "mint" /\ SignIn!Mints /\ signIn[r].had
      /\ signIn' = [signIn EXCEPT ![r] = SignIn!Idle]
      /\ UNCHANGED <<visit, totp, passkey, registering, challenge, answered, begun, signedIn, passed, twice>>
  BY DEF SignIn!Mint, SignIn!At, SignIn!Over, SignIn!Set, SignIn!History
<1>2. SignIn!HasFactor
  BY <1>1, HadKnown
<1>3. /\ codes' \in [mint : Nat, unused : SUBSET CodeIds] /\ made' \in [secrets : Nat, mints : Nat, prompts : Nat]
      /\ made'.secrets = made.secrets /\ made'.prompts = made.prompts /\ made.mints <= made'.mints
      /\ codes'.mint > made.mints /\ codes'.mint <= made'.mints /\ codes'.mint # 0
  BY <1>1, MintedCodes
<1>4. /\ totp' \in [secret : Nat, confirmed : BOOLEAN, last : Nat] /\ totp.last <= totp'.last
      /\ totp'.secret <= made'.secrets /\ made.secrets <= made'.secrets /\ totp'.secret = totp.secret
      /\ passed' \subseteq AnswerStates /\ twice' \in BOOLEAN /\ (Steady => ~twice')
      /\ totp'.confirmed => totp'.secret # 0
      /\ passkey' \in BOOLEAN /\ registering' \in BOOLEAN
  BY <1>1, <1>3, SignParts
<1>5. PassedInv'
  <2>1. {} \in SUBSET AnswerStates /\ passed' = passed \union {}
    BY <1>1
  <2>2. QED
    BY <1>1, <1>3, <1>4, <2>1, IdleState, PassedStays
<1>6. SignIn!HasFactor' = SignIn!HasFactor
  BY <1>1 DEF SignIn!HasFactor
<1>7. QED
  BY <1>1, <1>2, <1>3, <1>4, <1>5, <1>6, IdleState, FactorsMove

LEMMA RemoveKeeps ==
    ASSUME SignInv, UNCHANGED visit, NEW r \in Requests, SignIn!Remove(r) PROVE SignInv'
<1>1. /\ signIn[r].pc = "locked" /\ signIn' = [signIn EXCEPT ![r] = SignIn!Idle]
      /\ UNCHANGED <<visit, registering, challenge, made, answered, begun, signedIn, passed, twice>>
  BY DEF SignIn!Remove, SignIn!At, SignIn!Over, SignIn!Set, SignIn!History
<1>2. /\ SignIn!NoTotp \in [secret : Nat, confirmed : BOOLEAN, last : Nat] /\ SignIn!NoTotp.secret = 0 /\ ~SignIn!NoTotp.confirmed
      /\ SignIn!NoCodes \in [mint : Nat, unused : SUBSET CodeIds] /\ SignIn!NoCodes.mint = 0
  BY DEF SignIn!NoTotp, SignIn!NoCodes
<1>3. \/ totp' = SignIn!NoTotp /\ passkey' = passkey /\ codes' = IF passkey THEN codes ELSE SignIn!NoCodes
      \/ totp' = totp /\ passkey' = FALSE /\ codes' = IF totp.confirmed \/ ~passkey THEN codes ELSE SignIn!NoCodes
  BY DEF SignIn!Remove
<1> HIDE DEF SignIn!Remove
<1>4. /\ totp' \in [secret : Nat, confirmed : BOOLEAN, last : Nat] /\ passkey' \in BOOLEAN /\ registering' \in BOOLEAN
      /\ totp' = totp \/ (totp'.secret = 0 /\ ~totp'.confirmed)
  BY <1>1, <1>2, <1>3, SignParts
<1>5. /\ codes' \in [mint : Nat, unused : SUBSET CodeIds]
      /\ codes' = codes \/ codes'.mint = 0
  BY <1>2, <1>3, SignParts
<1>6. codes'.mint # 0 <=> SignIn!HasFactor'
  <2>1. CASE totp' = SignIn!NoTotp /\ passkey' = passkey /\ codes' = IF passkey THEN codes ELSE SignIn!NoCodes
    BY <1>2, <2>1, SignParts DEF SignIn!HasFactor
  <2>2. CASE totp' = totp /\ passkey' = FALSE /\ codes' = IF totp.confirmed \/ ~passkey THEN codes ELSE SignIn!NoCodes
    BY <1>2, <2>2, SignParts DEF SignIn!HasFactor
  <2>3. QED
    BY <1>3, <2>1, <2>2
<1>7. SignIn!HasFactor' => SignIn!HasFactor
  BY <1>2, <1>3 DEF SignIn!HasFactor
<1>8. /\ made' \in [secrets : Nat, mints : Nat, prompts : Nat] /\ made.secrets <= made'.secrets
      /\ made.mints <= made'.mints /\ made'.prompts = made.prompts
      /\ totp'.secret <= made'.secrets /\ codes'.mint <= made'.mints
      /\ totp'.secret = 0 \/ (totp'.secret = totp.secret /\ totp.last <= totp'.last)
      /\ totp'.confirmed => totp'.secret # 0
      /\ passed' \subseteq AnswerStates /\ twice' \in BOOLEAN /\ (Steady => ~twice')
  BY <1>1, <1>4, <1>5, SignParts
<1>9. PassedInv'
  <2>1. {} \in SUBSET AnswerStates /\ passed' = passed \union {}
    BY <1>1
  <2>2. QED
    BY <1>1, <1>4, <1>5, <1>8, <2>1, IdleState, PassedStays
<1>10. QED
  BY <1>1, <1>4, <1>5, <1>6, <1>7, <1>8, <1>9, IdleState, FactorsMove

LEMMA OptionsKeeps == ASSUME SignInv, UNCHANGED visit, SignIn!Options PROVE SignInv'
<1>1. registering' = TRUE /\ SignIn!Ids' = SignIn!Ids
      /\ UNCHANGED <<visit, totp, passkey, codes, challenge, made, answered, begun, passed, twice, signedIn, signIn>>
  BY DEF SignIn!Options, SignIn!History, SignIn!Ids
<1>2. SignIn!Live' = SignIn!Live /\ SignIn!HasFactor' = SignIn!HasFactor
  BY <1>1 DEF SignIn!Live, SignIn!HasFactor
<1>3. SignTypes' /\ ClaimInv' /\ HeldInv'
  BY <1>1, <1>2 DEF SignInv, SignTypes, ClaimInv, HeldInv, HoldsLock
<1>4. AnswerInv' /\ PromptInv'
  BY <1>1 DEF SignInv, AnswerInv, PromptInv, Named
<1>5. PassedInv' /\ FactorInv'
  BY <1>1, <1>2 DEF SignInv, PassedInv, Named, Behind, FactorInv
<1>6. QED
  BY <1>3, <1>4, <1>5 DEF SignInv

-----------------------------------------------------------------------------
(* SignIn: the theorems. *)

LEMMA SignStep == ASSUME SignInv, [SignIn!Next]_(SignIn!vars) PROVE SignInv'
<1>1. CASE UNCHANGED SignIn!vars
  <2>1. /\ UNCHANGED <<visit, totp, passkey, registering, codes, challenge, made, answered, begun, passed, twice, signedIn, signIn>>
        /\ SignIn!Ids' = SignIn!Ids
    BY <1>1 DEF SignIn!vars, SignIn!Ids
  <2>2. SignIn!Live' = SignIn!Live /\ SignIn!HasFactor' = SignIn!HasFactor
    BY <2>1 DEF SignIn!Live, SignIn!HasFactor
  <2>3. SignTypes' /\ ClaimInv' /\ HeldInv'
    BY <2>1, <2>2 DEF SignInv, SignTypes, ClaimInv, HeldInv, HoldsLock
  <2>4. AnswerInv' /\ PromptInv'
    BY <2>1 DEF SignInv, AnswerInv, PromptInv, Named
  <2>5. PassedInv' /\ FactorInv'
    BY <2>1, <2>2 DEF SignInv, PassedInv, Named, Behind, FactorInv
  <2>6. QED
    BY <2>3, <2>4, <2>5 DEF SignInv
<1>2. CASE SignIn!Next
  <2>1. UNCHANGED visit
    BY <1>2 DEF SignIn!Next
  <2>2. CASE \E r \in Requests : SignIn!Request(r)
    <3>1. PICK r \in Requests : SignIn!Request(r)
      BY <2>2
    <3>2. CASE \E i \in SignIn!Ids, a \in SignIn!Answers : SignIn!Verify(r, i, a)
      BY <2>1, <3>2, VerifyKeeps
    <3>3. CASE \E k \in SignIn!Locking, a \in SignIn!Totps \union {SignIn!NoAnswer} : SignIn!Lock(r, k, a)
      BY <2>1, <3>3, LockKeeps
    <3>4. CASE SignIn!PasswordSession(r) \/ SignIn!Begin(r) \/ SignIn!EndOthers(r) \/ SignIn!GivesUp(r)
      BY <2>1, <3>4, OversKeep
    <3>5. CASE SignIn!Password(r) \/ SignIn!Start(r) \/ SignIn!Started(r) \/ SignIn!Claim(r)
      BY <2>1, <3>5, PasswordKeeps, StartKeeps, StartedKeeps, ClaimKeeps
    <3>6. CASE SignIn!MatchTotp(r) \/ SignIn!SpendTotp(r) \/ SignIn!SpendRecovery(r) \/ SignIn!TakePrompt(r)
      BY <2>1, <3>6, MatchTotpKeeps, SpendTotpKeeps, SpendRecoveryKeeps, TakePromptKeeps
    <3>7. CASE SignIn!Assertion(r) \/ SignIn!Refuse(r) \/ SignIn!Finish(r) \/ SignIn!Setup(r) \/ SignIn!SetUp(r)
      BY <2>1, <3>7, AssertionKeeps, RefuseKeeps, FinishKeeps, SetupKeeps, SetUpKeeps
    <3>8. CASE SignIn!Confirm(r) \/ SignIn!AddKey(r) \/ SignIn!Remove(r) \/ SignIn!Mint(r)
      BY <2>1, <3>8, ConfirmKeeps, AddKeyKeeps, RemoveKeeps, CodesMintKeeps
    <3>9. QED
      BY <3>1, <3>2, <3>3, <3>4, <3>5, <3>6, <3>7, <3>8 DEF SignIn!Request
  <2>3. CASE \E i \in SignIn!Ids : SignIn!Expires(i) \/ SignIn!Prompt(i)
    BY <2>1, <2>3, ExpiresKeeps, PromptKeeps
  <2>4. CASE SignIn!Options
    BY <2>1, <2>4, OptionsKeeps
  <2>5. QED
    BY <1>2, <2>2, <2>3, <2>4 DEF SignIn!Next
<1>3. QED
  BY <1>1, <1>2

LEMMA SignInvariant == SignIn!Spec => []SignInv
<1>1. SignInv /\ [SignIn!Next]_(SignIn!vars) => SignInv'
  BY SignStep
<1>2. QED
  BY <1>1, SignStart, PTL DEF SignIn!Spec

\* "Five requests in flight at once spend all five", "one live sign-in at a time" and "a code
\* works exactly once" (mfa.ts): of any number of requests, with any answers.
THEOREM OnceSpent == ASSUME Steady PROVE SignIn!Spec => []SpentOnce
<1>1. SignInv => SpentOnce
  <2> SUFFICES ASSUME SignInv PROVE SpentOnce
    OBVIOUS
  <2>2. SignIn!AnswersBounded /\ SignIn!OneSession /\ SignIn!OneSignIn
    BY DEF SignInv, ClaimInv, SignIn!AnswersBounded, SignIn!OneSession, SignIn!OneSignIn
  <2>3. SignIn!PassesOnce
    BY DEF SignInv, PassedInv, SignIn!PassesOnce
  <2>4. QED
    BY <2>2, <2>3 DEF SpentOnce, SignIn!SpentOnce
<1>2. QED
  BY <1>1, SignInvariant, PTL

\* Whoever has a factor has recovery codes and nobody else, and the sessions that were begun
\* without one end when it is enrolled (mfa.ts, totp/confirm.post.ts).
THEOREM CodesFollowFactors == SignIn!Spec => []FactorsAgree
<1>1. SignInv => FactorsAgree
  <2> SUFFICES ASSUME SignInv PROVE FactorsAgree
    OBVIOUS
  <2>2. SignIn!CodesWithFactor /\ SignIn!SessionsHadFactor
    BY DEF SignInv, FactorInv, SignIn!CodesWithFactor, SignIn!SessionsHadFactor, SignIn!At
  <2>3. QED
    BY <2>2 DEF FactorsAgree, SignIn!FactorsAgree
<1>2. QED
  BY <1>1, SignInvariant, PTL

\* The shape of the state of the sign-ins.
THEOREM SignInTypes == SignIn!Spec => []SignIn!TypeOK
<1>1. SignInv => SignIn!TypeOK
  <2> SUFFICES ASSUME SignInv PROVE SignIn!TypeOK
    OBVIOUS
  <2>2. /\ totp.secret \in 0 .. made.secrets /\ (totp.confirmed => totp.secret # 0)
        /\ codes.mint \in 0 .. made.mints
    BY SignParts
  <2>3. signedIn \subseteq {"password", "factor"} /\ \A r \in Requests : signIn[r].id \in SignIn!Ids \union {0}
    BY DEF SignInv, SignTypes
  <2>4. QED
    BY <2>2, <2>3 DEF SignIn!TypeOK
<1>2. QED
  BY <1>1, SignInvariant, PTL

-----------------------------------------------------------------------------
(* Accounts: the inductive invariant. *)

VerifyPcs ==
    {"idle", "insert", "insert_change", "mail", "clear", "renew", "mail_again", "compare", "count", "burn",
     "spend", "act", "create", "rename", "session"}
Kept == Addresses \union {Accounts!None} \union {w.home : w \in Settings}
RowStates ==
    [state : {"none", "pending", "gone"}, to : Addresses \union {Accounts!None}, by : Browsers \union {Accounts!None},
     user : Nat, code : Nat, wrong : Nat]
VerifyStates ==
    [pc : VerifyPcs, browser : Browsers \union {Accounts!None}, cookie : Nat, row : Nat, code : Nat, link : BOOLEAN,
     owns : BOOLEAN, from : Kept, to : Kept, drop : SUBSET Accounts!Rows]
Changed == [row : Accounts!Rows, from : Kept, to : Kept]

\* Requests on a row, and those among them that bear on what their browser waits for.
Presenting == {"compare", "count", "burn", "spend", "act", "create", "rename", "session"}
Naming == Presenting \union {"mail", "renew", "mail_again"}

AccountTypes ==
    /\ setting \in Settings /\ address \in [Accounts!Owners -> Kept] /\ rows \in [Accounts!Rows -> RowStates]
    /\ cookie \in [Browsers -> Nat] /\ mailed \subseteq [row : Nat, code : Nat]
    /\ verify \in [Requests -> VerifyStates] /\ events \in Seq(Changed)
    /\ failures \in [Addresses -> Nat] /\ guessed = failures

\* Rows are made in order; one that is for a change has the account there.
RowInv ==
    /\ Accounts!Made \in 0 .. Cardinality(Browsers)
    /\ \A i \in Accounts!Rows :
        /\ rows[i].state = "none" <=> i > Accounts!Made
        /\ rows[i].wrong <= CodeLimit
        /\ rows[i].state # "none" => rows[i].to \in Addresses /\ rows[i].user \in {0, i}
        /\ rows[i].state # "none" /\ rows[i].user = 0 => address[0] # Accounts!None

\* What is named was made; a browser's cookie, and its sessions, are from rows it started.
NameInv ==
    /\ \A b \in Browsers : cookie[b] \in 0 .. Accounts!Made /\ (cookie[b] # 0 => rows[cookie[b]].by = b)
    /\ \A m \in mailed : m.row \in 1 .. Accounts!Made
    /\ \A s \in sessions : s.user \in 1 .. Accounts!Made /\ rows[s.user].by = s.browser

\* So it is of a request: whoever is to be signed in or to lose a cookie carried the row's.
AskedFact(q, R, n, home) ==
    /\ q.pc # "idle" => q.browser \in Browsers
    /\ q.cookie \in 0 .. n /\ (q.cookie # 0 => R[q.cookie].by = q.browser)
    /\ q.row \in 0 .. n /\ (q.pc \in Naming => q.row # 0)
    /\ q.pc \in {"insert", "insert_change"} => q.to \in Addresses
    /\ q.pc = "insert_change" => home # Accounts!None
    /\ q.pc # "insert_change" => q.drop = {}
    /\ q.pc = "mail" => R[q.row].by = q.browser
    /\ q.pc \in {"compare", "count"} => ~q.link
    /\ q.pc \in Presenting /\ (~q.link \/ q.owns) => q.cookie = q.row
    /\ q.pc = "session" => q.owns /\ R[q.row].state = "gone"
    /\ q.pc = "create" => R[q.row].user = q.row
    /\ q.pc = "rename" => R[q.row].user # q.row /\ q.from = home

AskedInv == \A r \in Requests : AskedFact(verify[r], rows, Accounts!Made, address[0])

\* A row is deleted by one transaction, and is there until that ends.
Deletes(q) == q.drop \union (IF q.pc \in {"act", "create", "rename"} THEN {q.row} ELSE {})
DeleteInv ==
    /\ \A r, s \in Requests : r # s => Deletes(verify[r]) \intersect Deletes(verify[s]) = {}
    /\ \A r \in Requests : \A i \in Deletes(verify[r]) : rows[i].state = "pending"

\* Who found no account holds the lock, and there is none still.
FirstInv ==
    setting.first =>
        /\ \A u, v \in Accounts!Accounts : u = v
        /\ \A r \in Requests : Accounts!At(r, "create") => Accounts!Accounts = {}
        /\ \A r, s \in Requests : Accounts!At(r, "create") /\ Accounts!At(s, "create") => r = s

\* The rows of the events are gone, and the account is renamed by one request at a time.
EventInv ==
    /\ Accounts!ChangesFollow
    /\ events = <<>> => address[0] = setting.home
    /\ \A k \in 1 .. Len(events) : rows[events[k].row].state = "gone"
    /\ \A r, s \in Requests : Accounts!At(r, "rename") /\ Accounts!At(s, "rename") => r = s

\* A browser that waits for its answers keeps the cookie that its request carried.
AloneInv ==
    setting.alone =>
        /\ \A r, s \in Requests :
            ~Accounts!At(r, "idle") /\ ~Accounts!At(s, "idle") /\ verify[r].browser = verify[s].browser => r = s
        /\ \A r \in Requests : verify[r].pc \in Presenting => cookie[verify[r].browser] = verify[r].cookie

AccountInv ==
    /\ AccountTypes /\ RowInv /\ NameInv /\ AskedInv
    /\ DeleteInv /\ FirstInv /\ EventInv /\ AloneInv /\ Accounts!GuessesAreCapped

-----------------------------------------------------------------------------
LEMMA AccountsCount == \A S : Accounts!Cardinality(S) = Cardinality(S)
BY DEF Accounts!Cardinality, Cardinality

\* Rows is 1 .. n for the number n of browsers.
LEMMA RowsAre ==
    /\ Cardinality(Browsers) \in Nat /\ Accounts!Rows = 1 .. Cardinality(Browsers)
    /\ CodeLimit \in Nat /\ Cap \in Nat /\ Accounts!None \notin Addresses
<1>1. IsFiniteSet(Browsers)
  BY AccountsAssumed DEF Accounts!Assumption, Accounts!IsFiniteSet, IsFiniteSet
<1>2. QED
  BY <1>1, AccountsAssumed, AccountsCount, FS_CardinalityType DEF Accounts!Assumption, Accounts!Rows

LEMMA MadeRows ==
    ASSUME NEW R, NEW n \in 0 .. Cardinality(Browsers),
           \A i \in Accounts!Rows : R[i].state = "none" <=> i > n
    PROVE  Accounts!Cardinality({i \in Accounts!Rows : R[i].state # "none"}) = n
<1>1. {i \in Accounts!Rows : R[i].state # "none"} = 1 .. n
  BY RowsAre
<1>2. Cardinality(1 .. n) = n
  BY FS_Interval, RowsAre
<1>3. QED
  BY <1>1, <1>2, AccountsCount

LEMMA IdleRequest ==
    /\ Accounts!Idle \in VerifyStates /\ Accounts!Idle.pc = "idle" /\ Accounts!Idle.cookie = 0
    /\ Accounts!Idle.row = 0 /\ Accounts!Idle.drop = {} /\ Accounts!Idle.browser = Accounts!None
    /\ Accounts!Idle.link = FALSE /\ Accounts!Idle.owns = FALSE
BY DEF Accounts!Idle, VerifyStates, VerifyPcs, Kept

LEMMA IdleFact ==
    ASSUME NEW R, NEW n \in Nat, NEW home
    PROVE  AskedFact(Accounts!Idle, R, n, home) /\ Deletes(Accounts!Idle) = {}
BY IdleRequest DEF AskedFact, Deletes, Naming, Presenting

LEMMA AccountStart == Accounts!Init => AccountInv
<1> SUFFICES ASSUME Accounts!Init PROVE AccountInv
  OBVIOUS
<1>1. /\ rows = [i \in Accounts!Rows |-> Accounts!NoRow] /\ cookie = [b \in Browsers |-> 0]
      /\ mailed = {} /\ sessions = {} /\ events = <<>> /\ setting \in Settings
      /\ address = [u \in Accounts!Owners |-> IF u = 0 THEN setting.home ELSE Accounts!None]
      /\ verify = [r \in Requests |-> Accounts!Idle]
      /\ failures = [a \in Addresses |-> 0] /\ guessed = [a \in Addresses |-> 0]
  BY DEF Accounts!Init
<1>2. Accounts!NoRow \in RowStates /\ Accounts!NoRow.state = "none" /\ Accounts!NoRow.wrong = 0
  BY DEF Accounts!NoRow, RowStates
<1>3. Accounts!Made = 0
  <2>1. \A i \in Accounts!Rows : rows[i].state = "none" <=> i > 0
    BY <1>1, <1>2, RowsAre
  <2>2. 0 \in 0 .. Cardinality(Browsers)
    BY RowsAre
  <2>3. QED
    BY <2>1, <2>2, MadeRows DEF Accounts!Made
<1>4. 0 \in Accounts!Owners /\ address[0] = setting.home
  BY <1>1 DEF Accounts!Owners
<1>5. AccountTypes
  BY <1>1, <1>2, IdleRequest DEF AccountTypes, Kept
<1>6. RowInv /\ NameInv
  BY <1>1, <1>2, <1>3, RowsAre DEF RowInv, NameInv
<1>7. AskedInv /\ DeleteInv
  <2>1. \A r \in Requests : verify[r] = Accounts!Idle
    BY <1>1
  <2>2. QED
    BY <2>1, <1>3, IdleFact DEF AskedInv, DeleteInv
<1>8. FirstInv
  BY <1>1, IdleRequest DEF FirstInv, Accounts!Accounts, Accounts!At
<1>9. EventInv
  BY <1>1, <1>4, IdleRequest DEF EventInv, Accounts!ChangesFollow, Accounts!At
<1>10. AloneInv
  BY <1>1, IdleRequest DEF AloneInv, Accounts!At, Presenting
<1>11. Accounts!GuessesAreCapped
  BY <1>1, RowsAre DEF Accounts!GuessesAreCapped
<1>12. QED
  BY <1>5, <1>6, <1>7, <1>8, <1>9, <1>10, <1>11 DEF AccountInv

\* One request moves on: what it may leave of the rows, the cookies and the other requests.
RowsMove(r, R, n) ==
    /\ R \in [Accounts!Rows -> RowStates] /\ n \in 0 .. Cardinality(Browsers) /\ Accounts!Made <= n
    /\ \A i \in Accounts!Rows :
        /\ R[i].wrong <= CodeLimit /\ (R[i].state = "none" <=> i > n)
        /\ i <= Accounts!Made =>
            /\ R[i].to = rows[i].to /\ R[i].by = rows[i].by /\ R[i].user = rows[i].user
            /\ \/ R[i].state = rows[i].state
               \/ /\ rows[i].state = "pending" /\ R[i].state = "gone"
                  /\ \A s \in Requests \ {r} : i \notin Deletes(verify[s])
        /\ i > Accounts!Made /\ i <= n =>
            /\ R[i].state = "pending" /\ R[i].to \in Addresses
            /\ R[i].user = i \/ (R[i].user = 0 /\ address[0] # Accounts!None)
CookiesMove(r, C, R, n) ==
    /\ C \in [Browsers -> Nat]
    /\ \A b \in Browsers :
        /\ C[b] \in {0, cookie[b]} \/ (C[b] \in 1 .. n /\ R[C[b]].by = b)
        /\ C[b] # cookie[b] /\ setting.alone =>
            \A s \in Requests \ {r} : Accounts!At(s, "idle") \/ verify[s].browser # b
RequestMove(r, q, R, n, home, C) ==
    /\ q \in VerifyStates /\ AskedFact(q, R, n, home)
    /\ \A s \in Requests \ {r} : Deletes(q) \intersect Deletes(verify[s]) = {}
    /\ \A i \in Deletes(q) : R[i].state = "pending"
    /\ setting.alone =>
        /\ q.pc # "idle" => \A s \in Requests \ {r} : Accounts!At(s, "idle") \/ verify[s].browser # q.browser
        /\ q.pc \in Presenting => C[q.browser] = q.cookie

LEMMA MadeMoves == ASSUME NEW r, NEW n, RowsMove(r, rows', n) PROVE Accounts!Made' = n
<1>1. PICK R : R = rows'
  OBVIOUS
<1>2. n \in 0 .. Cardinality(Browsers) /\ \A i \in Accounts!Rows : R[i].state = "none" <=> i > n
  BY <1>1 DEF RowsMove
<1>3. Accounts!Cardinality({i \in Accounts!Rows : R[i].state # "none"}) = n
  BY <1>2, MadeRows
<1>4. QED
  BY <1>1, <1>3 DEF Accounts!Made, Accounts!Rows, Accounts!Cardinality

\* What is said of a request stays so, where rows are only made and go.
LEMMA FactMoves ==
    ASSUME NEW q, NEW n, NEW r, NEW s \in Requests, s # r, RowsMove(r, rows', n), RowInv, NEW home,
           AskedFact(verify[s], rows, Accounts!Made, address[0]),
           \/ home = address[0]
           \/ home # Accounts!None /\ verify[s].pc # "rename"
    PROVE  AskedFact(verify[s], rows', n, home)
<1>1. PICK q1, R1, R2, m, h : /\ q1 = verify[s] /\ R1 = rows /\ R2 = rows' /\ m = Accounts!Made /\ h = address[0]
  OBVIOUS
<1>2. /\ n \in 0 .. Cardinality(Browsers) /\ m \in 0 .. Cardinality(Browsers) /\ m <= n
      /\ \A i \in 1 .. m :
            R2[i].by = R1[i].by /\ R2[i].user = R1[i].user /\ (R1[i].state = "gone" => R2[i].state = "gone")
  BY <1>1, RowsAre DEF RowsMove, RowInv
<1>3. AskedFact(q1, R1, m, h)
  BY <1>1
<1>4. h = home \/ (home # Accounts!None /\ q1.pc # "rename")
  BY <1>1
<1>5. q1.row \in 0 .. m /\ q1.cookie \in 0 .. m /\ (q1.pc \in Naming => q1.row \in 1 .. m)
  BY <1>2, <1>3, RowsAre DEF AskedFact
<1>6. AskedFact(q1, R2, n, home)
  BY <1>2, <1>3, <1>4, <1>5, RowsAre DEF AskedFact, Naming, Presenting
<1>7. QED
  BY <1>1, <1>6

LEMMA Moves ==
    ASSUME AccountInv, NEW r \in Requests, NEW q, NEW n, verify' = [verify EXCEPT ![r] = q],
           RowsMove(r, rows', n), CookiesMove(r, cookie', rows', n),
           RequestMove(r, q, rows', n, address'[0], cookie'),
           setting' = setting, address' \in [Accounts!Owners -> Kept],
           \/ address'[0] = address[0]
           \/ address'[0] # Accounts!None /\ \A s \in Requests \ {r} : verify[s].pc # "rename",
           mailed' \subseteq [row : Nat, code : Nat], \A m \in mailed' : m.row \in 1 .. n,
           \A s \in sessions' : s.user \in 1 .. n /\ rows'[s.user].by = s.browser,
           events' \in Seq(Changed), failures' \in [Addresses -> Nat], guessed' = failures'
    PROVE  AccountTypes' /\ RowInv' /\ NameInv' /\ AskedInv' /\ DeleteInv' /\ AloneInv'
<1>a. /\ AccountTypes /\ RowInv /\ NameInv /\ AskedInv /\ DeleteInv /\ AloneInv
  BY DEF AccountInv
<1>b. Accounts!Made' = n /\ Accounts!Rows' = Accounts!Rows /\ Accounts!Owners' = Accounts!Owners
  BY MadeMoves DEF Accounts!Rows, Accounts!Cardinality, Accounts!Owners
<1>c. \A s \in Requests : verify'[s] = IF s = r THEN q ELSE verify[s]
  BY <1>a DEF AccountTypes
<1>1. AccountTypes'
  <2>1. q \in VerifyStates
    BY DEF RequestMove
  <2>2. verify' \in [Requests -> VerifyStates]
    BY <1>a, <2>1 DEF AccountTypes
  <2>3. rows' \in [Accounts!Rows -> RowStates] /\ cookie' \in [Browsers -> Nat]
    BY DEF RowsMove, CookiesMove
  <2>4. QED
    BY <1>a, <1>b, <2>2, <2>3 DEF AccountTypes
<1>2. RowInv'
  <2>1. ASSUME NEW i \in Accounts!Rows
        PROVE  /\ rows'[i].state = "none" <=> i > n
               /\ rows'[i].wrong <= CodeLimit
               /\ rows'[i].state # "none" => rows'[i].to \in Addresses /\ rows'[i].user \in {0, i}
               /\ rows'[i].state # "none" /\ rows'[i].user = 0 => address'[0] # Accounts!None
    <3>1. CASE i <= Accounts!Made
      BY <1>a, <3>1 DEF RowsMove, RowInv
    <3>2. CASE i > Accounts!Made
      BY <1>a, <3>2, RowsAre DEF RowsMove, RowInv
    <3>3. QED
      BY <1>a, <3>1, <3>2, RowsAre DEF RowInv
  <2>2. QED
    BY <1>b, <2>1 DEF RowInv, RowsMove
<1>3. NameInv'
  <2>1. ASSUME NEW b \in Browsers
        PROVE  cookie'[b] \in 0 .. n /\ (cookie'[b] # 0 => rows'[cookie'[b]].by = b)
    <3>1. PICK c : c = cookie'[b]
      OBVIOUS
    <3>2. c \in {0, cookie[b]} \/ (c \in 1 .. n /\ rows'[c].by = b)
      BY <3>1 DEF CookiesMove
    <3>3. cookie[b] \in 0 .. Accounts!Made /\ (cookie[b] # 0 => rows[cookie[b]].by = b)
      BY <1>a DEF NameInv
    <3>4. n \in Nat /\ Accounts!Made \in 0 .. n
          /\ \A i \in 1 .. Accounts!Made : rows'[i].by = rows[i].by
      BY <1>a, RowsAre DEF RowsMove, RowInv
    <3>5. QED
      BY <3>1, <3>2, <3>3, <3>4
  <2>2. QED
    BY <1>b, <2>1 DEF NameInv
<1>4. AskedInv'
  <2>1. ASSUME NEW s \in Requests, s # r PROVE AskedFact(verify[s], rows', n, address'[0])
    <3>1. PICK h : h = address'[0]
      OBVIOUS
    <3>2. AskedFact(verify[s], rows, Accounts!Made, address[0])
      BY <1>a DEF AskedInv
    <3>3. AskedFact(verify[s], rows', n, h)
      BY <1>a, <2>1, <3>1, <3>2, FactMoves
    <3>4. QED
      BY <3>1, <3>3
  <2>2. QED
    BY <1>b, <1>c, <2>1 DEF AskedInv, RequestMove
<1>5. DeleteInv'
  <2>1. ASSUME NEW s \in Requests, s # r, NEW i \in Deletes(verify[s])
        PROVE  rows'[i].state = "pending"
    <3>1. rows[i].state = "pending"
      BY <1>a, <2>1 DEF DeleteInv
    <3>2. i \in Accounts!Rows /\ i <= Accounts!Made
      <4>1. i \in Accounts!Rows
        BY <1>a, <2>1, RowsAre DEF AccountTypes, AskedInv, AskedFact, Deletes, VerifyStates, Naming, Presenting, RowInv
      <4>2. QED
        BY <1>a, <3>1, <4>1, RowsAre DEF RowInv
    <3>3. QED
      BY <2>1, <3>1, <3>2 DEF RowsMove
  <2>2. ASSUME NEW s \in Requests, NEW t \in Requests, s # t
        PROVE  Deletes(verify'[s]) \intersect Deletes(verify'[t]) = {}
    <3>1. CASE s # r /\ t # r
      BY <1>a, <1>c, <2>2, <3>1 DEF DeleteInv
    <3>2. CASE s = r
      BY <1>c, <2>2, <3>2 DEF RequestMove
    <3>3. CASE t = r
      <4>1. Deletes(q) \intersect Deletes(verify[s]) = {}
        BY <2>2, <3>3 DEF RequestMove
      <4>2. QED
        BY <1>c, <2>2, <3>3, <4>1
    <3>4. QED
      BY <3>1, <3>2, <3>3
  <2>3. ASSUME NEW s \in Requests PROVE \A i \in Deletes(verify'[s]) : rows'[i].state = "pending"
    BY <1>c, <2>1, <2>3 DEF RequestMove
  <2>4. QED
    BY <2>2, <2>3 DEF DeleteInv
<1>6. AloneInv'
  <2>1. SUFFICES ASSUME setting.alone
        PROVE  /\ \A s, t \in Requests :
                    verify'[s].pc # "idle" /\ verify'[t].pc # "idle" /\ verify'[s].browser = verify'[t].browser => s = t
               /\ \A s \in Requests : verify'[s].pc \in Presenting => cookie'[verify'[s].browser] = verify'[s].cookie
    BY DEF AloneInv, Accounts!At
  <2>2. \A s, t \in Requests :
            verify'[s].pc # "idle" /\ verify'[t].pc # "idle" /\ verify'[s].browser = verify'[t].browser => s = t
    BY <1>a, <1>c, <2>1 DEF AloneInv, RequestMove, Accounts!At
  <2>3. ASSUME NEW s \in Requests, s # r, verify[s].pc \in Presenting
        PROVE  cookie'[verify[s].browser] = verify[s].cookie
    <3>1. verify[s].pc # "idle" /\ verify[s].browser \in Browsers
      BY <1>a, <2>3 DEF AskedInv, AskedFact, Presenting
    <3>2. cookie'[verify[s].browser] = cookie[verify[s].browser]
      BY <2>1, <2>3, <3>1 DEF CookiesMove, Accounts!At
    <3>3. QED
      BY <1>a, <2>1, <2>3, <3>2 DEF AloneInv
  <2>4. QED
    BY <1>c, <2>1, <2>2, <2>3 DEF RequestMove
<1>7. QED
  BY <1>1, <1>2, <1>3, <1>4, <1>5, <1>6

\* Where the accounts stay, who finds none is alone.
LEMMA FirstMoves ==
    ASSUME AccountInv, NEW r \in Requests, NEW q, verify' = [verify EXCEPT ![r] = q],
           setting' = setting, Accounts!Accounts' \subseteq Accounts!Accounts,
           setting.first /\ q.pc = "create" =>
                Accounts!Accounts = {} /\ \A s \in Requests \ {r} : ~Accounts!At(s, "create")
    PROVE  FirstInv'
<1>1. \A s \in Requests : verify'[s] = IF s = r THEN q ELSE verify[s]
  BY DEF AccountInv, AccountTypes
<1>2. \A s \in Requests : Accounts!At(s, "create")' = (verify'[s].pc = "create")
  BY DEF Accounts!At
<1>3. FirstInv
  BY DEF AccountInv
<1>4. QED
  BY <1>1, <1>2, <1>3 DEF FirstInv, Accounts!At

\* Where no event is added, the rows of those there are stay gone.
LEMMA EventsStay ==
    ASSUME AccountInv, NEW r \in Requests, NEW q, verify' = [verify EXCEPT ![r] = q],
           UNCHANGED <<setting, events>>, address'[0] = address[0],
           \A i \in Accounts!Rows : rows[i].state = "gone" => rows'[i].state = "gone",
           q.pc = "rename" => \A s \in Requests \ {r} : ~Accounts!At(s, "rename")
    PROVE  EventInv'
<1>1. \A s \in Requests : verify'[s] = IF s = r THEN q ELSE verify[s]
  BY DEF AccountInv, AccountTypes
<1>2. EventInv /\ events \in Seq(Changed)
  BY DEF AccountInv, AccountTypes
<1>3. Accounts!ChangesFollow'
  BY <1>2 DEF EventInv, Accounts!ChangesFollow
<1>4. \A k \in 1 .. Len(events) : rows'[events[k].row].state = "gone"
  <2>1. \A k \in 1 .. Len(events) : events[k] \in Changed
    BY <1>2
  <2>2. QED
    BY <1>2, <2>1 DEF EventInv, Changed
<1>5. QED
  BY <1>1, <1>2, <1>3, <1>4 DEF EventInv, Accounts!At

-----------------------------------------------------------------------------
(* Accounts: the steps.  Most move a request and leave the accounts and the events. *)

LEMMA Keeps ==
    ASSUME AccountInv, NEW r \in Requests, NEW q, NEW n, verify' = [verify EXCEPT ![r] = q],
           RowsMove(r, rows', n), CookiesMove(r, cookie', rows', n),
           RequestMove(r, q, rows', n, address[0], cookie'), UNCHANGED <<setting, address, events>>,
           mailed' \subseteq [row : Nat, code : Nat], \A m \in mailed' : m.row \in 1 .. n,
           \A s \in sessions' : s.user \in 1 .. n /\ rows'[s.user].by = s.browser,
           failures' \in [Addresses -> Nat], guessed' = failures', Accounts!GuessesAreCapped',
           setting.first /\ q.pc = "create" =>
                Accounts!Accounts = {} /\ \A s \in Requests \ {r} : ~Accounts!At(s, "create"),
           q.pc = "rename" => \A s \in Requests \ {r} : ~Accounts!At(s, "rename")
    PROVE  AccountInv'
<1>1. address \in [Accounts!Owners -> Kept] /\ events \in Seq(Changed)
  BY DEF AccountInv, AccountTypes
<1>2. AccountTypes' /\ RowInv' /\ NameInv' /\ AskedInv' /\ DeleteInv' /\ AloneInv'
  BY <1>1, Moves
<1>3. FirstInv'
  <2>1. Accounts!Accounts' \subseteq Accounts!Accounts
    BY DEF Accounts!Accounts, Accounts!Owners, Accounts!Rows, Accounts!Cardinality
  <2>2. QED
    BY <2>1, FirstMoves
<1>4. EventInv'
  <2>1. \A i \in Accounts!Rows : rows[i].state = "gone" => rows'[i].state = "gone"
    <3>1. ASSUME NEW i \in Accounts!Rows, rows[i].state = "gone" PROVE rows'[i].state = "gone"
      <4>1. i <= Accounts!Made
        BY <3>1, RowsAre DEF AccountInv, RowInv
      <4>2. QED
        BY <3>1, <4>1 DEF RowsMove
    <3>2. QED
      BY <3>1
  <2>2. QED
    BY <2>1, EventsStay
<1>5. QED
  BY <1>2, <1>3, <1>4 DEF AccountInv

LEMMA AllRowsStay == ASSUME AccountInv, NEW r PROVE RowsMove(r, rows, Accounts!Made)
BY RowsAre DEF AccountInv, AccountTypes, RowInv, RowsMove

LEMMA CookiesStay == ASSUME AccountInv, NEW r, NEW R, NEW n PROVE CookiesMove(r, cookie, R, n)
BY DEF AccountInv, AccountTypes, CookiesMove

LEMMA Ends ==
    ASSUME NEW r, NEW R, NEW n \in Nat, NEW h, NEW C
    PROVE  RequestMove(r, Accounts!Idle, R, n, h, C)
BY IdleRequest, IdleFact DEF RequestMove, Presenting

\* What the invariant says of one request, and of the names that stay while no row is made.
LEMMA RequestIs ==
    ASSUME AccountInv, NEW r \in Requests
    PROVE  /\ verify[r] \in VerifyStates /\ AskedFact(verify[r], rows, Accounts!Made, address[0])
           /\ Accounts!Made \in Nat /\ 0 .. Accounts!Made \subseteq {0} \union Accounts!Rows
           /\ 1 .. Accounts!Made \subseteq Accounts!Rows
           /\ \A s \in Requests \ {r} : Deletes(verify[r]) \intersect Deletes(verify[s]) = {}
           /\ \A i \in Deletes(verify[r]) : rows[i].state = "pending"
           /\ setting.alone /\ verify[r].pc # "idle" =>
                \A s \in Requests \ {r} : Accounts!At(s, "idle") \/ verify[s].browser # verify[r].browser
           /\ setting.alone /\ verify[r].pc \in Presenting => cookie[verify[r].browser] = verify[r].cookie
           /\ \A s \in Requests : Accounts!Deleting(s) = Deletes(verify[s])
<1>1. /\ verify[r] \in VerifyStates /\ AskedFact(verify[r], rows, Accounts!Made, address[0])
      /\ Accounts!Made \in 0 .. Cardinality(Browsers)
  BY DEF AccountInv, AccountTypes, AskedInv, RowInv
<1>2. \A s \in Requests : Accounts!Deleting(s) = Deletes(verify[s])
  BY DEF Deletes, Accounts!Deleting
<1>3. /\ \A s \in Requests \ {r} : Deletes(verify[r]) \intersect Deletes(verify[s]) = {}
      /\ \A i \in Deletes(verify[r]) : rows[i].state = "pending"
  BY DEF AccountInv, DeleteInv
<1>4. setting.alone /\ verify[r].pc # "idle" =>
         \A s \in Requests \ {r} : Accounts!At(s, "idle") \/ verify[s].browser # verify[r].browser
  BY DEF AccountInv, AloneInv, Accounts!At
<1>5. setting.alone /\ verify[r].pc \in Presenting => cookie[verify[r].browser] = verify[r].cookie
  BY DEF AccountInv, AloneInv
<1>6. QED
  BY <1>1, <1>2, <1>3, <1>4, <1>5, RowsAre

LEMMA NamesStand ==
    ASSUME AccountInv
    PROVE  /\ mailed \subseteq [row : Nat, code : Nat] /\ \A m \in mailed : m.row \in 1 .. Accounts!Made
           /\ \A s \in sessions : s.user \in 1 .. Accounts!Made /\ rows[s.user].by = s.browser
           /\ failures \in [Addresses -> Nat] /\ guessed = failures /\ Accounts!GuessesAreCapped
           /\ cookie \in [Browsers -> Nat]
           /\ \A b \in Browsers : cookie[b] \in 0 .. Accounts!Made /\ (cookie[b] # 0 => rows[cookie[b]].by = b)
           /\ setting \in Settings /\ address \in [Accounts!Owners -> Kept] /\ 0 \in Accounts!Owners
           /\ rows \in [Accounts!Rows -> RowStates]
BY DEF AccountInv, AccountTypes, NameInv, Accounts!Owners

\* A request moves on, or a new one begins, and nothing else does.
LEMMA OneGoes ==
    ASSUME AccountInv, NEW r \in Requests, NEW q, verify' = [verify EXCEPT ![r] = q],
           UNCHANGED <<setting, address, rows, cookie, mailed, sessions, failures, guessed, events>>,
           RequestMove(r, q, rows, Accounts!Made, address[0], cookie),
           setting.first /\ q.pc = "create" =>
                Accounts!Accounts = {} /\ \A s \in Requests \ {r} : ~Accounts!At(s, "create"),
           q.pc = "rename" => \A s \in Requests \ {r} : ~Accounts!At(s, "rename")
    PROVE  AccountInv'
<1>1. RowsMove(r, rows', Accounts!Made) /\ CookiesMove(r, cookie', rows', Accounts!Made)
  BY AllRowsStay, CookiesStay
<1>2. Accounts!GuessesAreCapped'
  BY NamesStand DEF Accounts!GuessesAreCapped
<1>3. PICK n : n = Accounts!Made
  OBVIOUS
<1>4. QED
  BY <1>1, <1>2, <1>3, NamesStand, Keeps

LEMMA VerifyStartKeeps ==
    ASSUME AccountInv, NEW r \in Requests, NEW b \in Browsers, NEW a \in Addresses, NEW change \in BOOLEAN,
           Accounts!Start(r, b, a, change)
    PROVE  AccountInv'
<1> DEFINE D == IF change THEN Accounts!Changes ELSE {}
           q == [Accounts!Idle EXCEPT !.pc = IF change THEN "insert_change" ELSE "insert", !.browser = b,
                                      !.cookie = cookie[b], !.to = a, !.drop = D]
<1>1. /\ verify' = [verify EXCEPT ![r] = q] /\ Accounts!Unlocked(r, D)
      /\ UNCHANGED <<setting, address, rows, cookie, mailed, sessions, failures, guessed, events>>
      /\ change => address[0] # Accounts!None
      /\ setting.alone => \A s \in Requests : verify[s].browser # b
  BY DEF Accounts!Start, Accounts!Set, Accounts!Asks
<1>2. D \subseteq Accounts!Rows /\ \A i \in D : rows[i].state = "pending"
  BY DEF Accounts!Changes
<1>3. cookie[b] \in Nat /\ cookie[b] \in 0 .. Accounts!Made /\ (cookie[b] # 0 => rows[cookie[b]].by = b)
  BY NamesStand
<1>4. /\ q \in VerifyStates /\ q.pc = (IF change THEN "insert_change" ELSE "insert") /\ q.browser = b
      /\ q.cookie = cookie[b] /\ q.to = a /\ q.drop = D /\ q.row = 0
  BY <1>2, <1>3, IdleRequest DEF VerifyStates, VerifyPcs, Kept
<1> HIDE DEF q, D
<1>5. Deletes(q) = D
  BY <1>4 DEF Deletes
<1>6. \A s \in Requests \ {r} : D \intersect Deletes(verify[s]) = {}
  BY <1>1 DEF Accounts!Unlocked, Accounts!Deleting, Deletes
<1>7. AskedFact(q, rows, Accounts!Made, address[0])
  <2>1. ~change => D = {}
    BY DEF D
  <2>2. QED
    BY <1>1, <1>3, <1>4, <2>1, RequestIs DEF AskedFact, Naming, Presenting
<1>8. RequestMove(r, q, rows, Accounts!Made, address[0], cookie)
  BY <1>1, <1>2, <1>4, <1>5, <1>6, <1>7 DEF RequestMove, Presenting
<1>9. QED
  BY <1>1, <1>4, <1>8, OneGoes

LEMMA ResendKeeps ==
    ASSUME AccountInv, NEW r \in Requests, NEW b \in Browsers, Accounts!Resend(r, b)
    PROVE  AccountInv'
<1> DEFINE q == [Accounts!Idle EXCEPT !.pc = "renew", !.browser = b, !.cookie = cookie[b], !.row = cookie[b]]
<1>1. /\ verify' = [verify EXCEPT ![r] = q] /\ Accounts!Usable(cookie[b])
      /\ UNCHANGED <<setting, address, rows, cookie, mailed, sessions, failures, guessed, events>>
      /\ setting.alone => \A s \in Requests : verify[s].browser # b
  BY DEF Accounts!Resend, Accounts!Set, Accounts!Asks
<1>2. cookie[b] \in Nat /\ cookie[b] \in 0 .. Accounts!Made /\ rows[cookie[b]].by = b /\ cookie[b] # 0
  BY <1>1, NamesStand DEF Accounts!Usable
<1>3. /\ q \in VerifyStates /\ q.pc = "renew" /\ q.browser = b /\ q.cookie = cookie[b] /\ q.row = cookie[b]
      /\ q.drop = {}
  BY <1>2, IdleRequest DEF VerifyStates, VerifyPcs
<1> HIDE DEF q
<1>4. AskedFact(q, rows, Accounts!Made, address[0]) /\ Deletes(q) = {}
  BY <1>2, <1>3 DEF AskedFact, Naming, Presenting, Deletes
<1>5. RequestMove(r, q, rows, Accounts!Made, address[0], cookie)
  BY <1>1, <1>3, <1>4 DEF RequestMove, Presenting
<1>6. QED
  BY <1>1, <1>3, <1>5, OneGoes

LEMMA LinkKeeps ==
    ASSUME AccountInv, NEW r \in Requests, NEW b \in Browsers, NEW m \in mailed, Accounts!Link(r, b, m)
    PROVE  AccountInv'
<1> DEFINE q == [Accounts!Idle EXCEPT !.pc = "spend", !.browser = b, !.cookie = cookie[b], !.row = m.row,
                                      !.code = m.code, !.link = TRUE]
<1>1. /\ verify' = [verify EXCEPT ![r] = q]
      /\ UNCHANGED <<setting, address, rows, cookie, mailed, sessions, failures, guessed, events>>
      /\ setting.alone => \A s \in Requests : verify[s].browser # b
  BY DEF Accounts!Link, Accounts!Set, Accounts!Asks
<1>2. /\ cookie[b] \in Nat /\ cookie[b] \in 0 .. Accounts!Made /\ (cookie[b] # 0 => rows[cookie[b]].by = b)
      /\ m.row \in 1 .. Accounts!Made /\ m.row \in Nat /\ m.code \in Nat
  BY NamesStand
<1>3. /\ q \in VerifyStates /\ q.pc = "spend" /\ q.browser = b /\ q.cookie = cookie[b] /\ q.row = m.row
      /\ q.drop = {} /\ q.link = TRUE /\ q.owns = FALSE
  BY <1>2, IdleRequest DEF VerifyStates, VerifyPcs
<1> HIDE DEF q
<1>4. AskedFact(q, rows, Accounts!Made, address[0]) /\ Deletes(q) = {}
  BY <1>2, <1>3 DEF AskedFact, Naming, Presenting, Deletes
<1>5. RequestMove(r, q, rows, Accounts!Made, address[0], cookie)
  BY <1>1, <1>3, <1>4 DEF RequestMove, Presenting
<1>6. QED
  BY <1>1, <1>3, <1>5, OneGoes

\* One cookie is cleared, by the only request of its browser where browsers wait.
LEMMA CookieGoes ==
    ASSUME AccountInv, NEW r \in Requests, NEW b \in Browsers, NEW C, C = [cookie EXCEPT ![b] = 0],
           setting.alone => \A s \in Requests \ {r} : Accounts!At(s, "idle") \/ verify[s].browser # b,
           NEW R, NEW n
    PROVE  CookiesMove(r, C, R, n)
<1>1. cookie \in [Browsers -> Nat]
  BY NamesStand
<1>2. C \in [Browsers -> Nat] /\ \A a \in Browsers : C[a] = IF a = b THEN 0 ELSE cookie[a]
  BY <1>1
<1>3. QED
  BY <1>2 DEF CookiesMove

LEMMA CodeKeeps ==
    ASSUME AccountInv, NEW r \in Requests, NEW b \in Browsers, NEW typed \in 0 .. 2, Accounts!Code(r, b, typed)
    PROVE  AccountInv'
<1> DEFINE code == IF typed = rows[cookie[b]].code THEN typed ELSE 0
           q == [Accounts!Idle EXCEPT !.pc = "compare", !.browser = b, !.cookie = cookie[b], !.row = cookie[b],
                                      !.code = code]
<1>1. /\ UNCHANGED <<setting, address, rows, mailed, sessions, failures, guessed, events>>
      /\ setting.alone => \A s \in Requests : verify[s].browser # b
      /\ \/ Accounts!Usable(cookie[b]) /\ verify' = [verify EXCEPT ![r] = q] /\ UNCHANGED cookie
         \/ cookie' = [cookie EXCEPT ![b] = 0] /\ UNCHANGED verify
  BY DEF Accounts!Code, Accounts!Set, Accounts!Asks
<1>2. CASE Accounts!Usable(cookie[b]) /\ verify' = [verify EXCEPT ![r] = q] /\ UNCHANGED cookie
  <2>1. /\ cookie[b] \in Nat /\ cookie[b] \in 0 .. Accounts!Made /\ rows[cookie[b]].by = b /\ cookie[b] # 0
        /\ code \in Nat
    BY <1>2, NamesStand DEF Accounts!Usable
  <2> HIDE DEF code
  <2>2. /\ q \in VerifyStates /\ q.pc = "compare" /\ q.browser = b /\ q.cookie = cookie[b] /\ q.row = cookie[b]
        /\ q.drop = {} /\ q.link = FALSE
    BY <2>1, IdleRequest DEF VerifyStates, VerifyPcs
  <2> HIDE DEF q
  <2>3. AskedFact(q, rows, Accounts!Made, address[0]) /\ Deletes(q) = {}
    BY <2>1, <2>2 DEF AskedFact, Naming, Presenting, Deletes
  <2>4. RequestMove(r, q, rows, Accounts!Made, address[0], cookie)
    BY <1>1, <2>2, <2>3 DEF RequestMove, Presenting
  <2>5. QED
    BY <1>1, <1>2, <2>2, <2>4, OneGoes
<1>3. CASE cookie' = [cookie EXCEPT ![b] = 0] /\ UNCHANGED verify
  <2>1. verify' = [verify EXCEPT ![r] = verify[r]]
    BY <1>3 DEF AccountInv, AccountTypes
  <2>2. RowsMove(r, rows', Accounts!Made) /\ CookiesMove(r, cookie', rows', Accounts!Made)
    BY <1>1, <1>3, AllRowsStay, CookieGoes
  <2>3. setting.alone /\ verify[r].pc \in Presenting => cookie'[verify[r].browser] = verify[r].cookie
    <3>1. ASSUME setting.alone, verify[r].pc \in Presenting PROVE cookie'[verify[r].browser] = verify[r].cookie
      <4>1. verify[r].browser # b /\ verify[r].browser \in Browsers /\ cookie[verify[r].browser] = verify[r].cookie
        BY <1>1, <3>1, RequestIs DEF AskedFact, Presenting
      <4>2. QED
        BY <1>3, <4>1, NamesStand
    <3>2. QED
      BY <3>1
  <2>4. RequestMove(r, verify[r], rows, Accounts!Made, address[0], cookie')
    BY <2>3, RequestIs DEF RequestMove
  <2>5. setting.first /\ verify[r].pc = "create" =>
            Accounts!Accounts = {} /\ \A s \in Requests \ {r} : ~Accounts!At(s, "create")
    BY DEF AccountInv, FirstInv, Accounts!At
  <2>6. verify[r].pc = "rename" => \A s \in Requests \ {r} : ~Accounts!At(s, "rename")
    BY DEF AccountInv, EventInv, Accounts!At
  <2>7. Accounts!GuessesAreCapped'
    BY <1>1, NamesStand DEF Accounts!GuessesAreCapped
  <2>8. PICK n, q1 : n = Accounts!Made /\ q1 = verify[r]
    OBVIOUS
  <2>9. QED
    BY <1>1, <2>1, <2>2, <2>4, <2>5, <2>6, <2>7, <2>8, NamesStand, Keeps
<1>4. QED
  BY <1>1, <1>2, <1>3

\* A request that ends and leaves the rows.
LEMMA OneEnds ==
    ASSUME AccountInv, NEW r \in Requests, verify' = [verify EXCEPT ![r] = Accounts!Idle],
           UNCHANGED <<setting, address, rows, failures, guessed, events>>,
           CookiesMove(r, cookie', rows', Accounts!Made),
           mailed' \subseteq [row : Nat, code : Nat], \A m \in mailed' : m.row \in 1 .. Accounts!Made,
           \A s \in sessions' : s.user \in 1 .. Accounts!Made /\ rows'[s.user].by = s.browser
    PROVE  AccountInv'
<1>1. RowsMove(r, rows', Accounts!Made)
  BY AllRowsStay
<1>2. RequestMove(r, Accounts!Idle, rows', Accounts!Made, address[0], cookie')
  BY Ends, RequestIs
<1>3. Accounts!GuessesAreCapped'
  BY NamesStand DEF Accounts!GuessesAreCapped
<1>4. PICK n, q : n = Accounts!Made /\ q = Accounts!Idle
  OBVIOUS
<1>5. q.pc = "idle"
  BY <1>4, IdleRequest
<1>6. QED
  BY <1>1, <1>2, <1>3, <1>4, <1>5, NamesStand, Keeps

LEMMA FailsKeeps == ASSUME AccountInv, NEW r \in Requests, Accounts!Fails(r) PROVE AccountInv'
<1>1. /\ verify' = [verify EXCEPT ![r] = Accounts!Idle]
      /\ UNCHANGED <<setting, address, rows, cookie, mailed, sessions, failures, guessed, events>>
  BY DEF Accounts!Fails, Accounts!Set
<1>2. QED
  BY <1>1, NamesStand, CookiesStay, OneEnds

LEMMA ClearKeeps == ASSUME AccountInv, NEW r \in Requests, Accounts!Clear(r) PROVE AccountInv'
<1> DEFINE b == verify[r].browser
<1>1. /\ verify' = [verify EXCEPT ![r] = Accounts!Idle] /\ cookie' = [cookie EXCEPT ![b] = 0]
      /\ UNCHANGED <<setting, address, rows, mailed, sessions, failures, guessed, events>>
      /\ verify[r].pc = "clear"
  BY DEF Accounts!Clear, Accounts!Set, Accounts!At
<1>2. b \in Browsers /\ (setting.alone => \A s \in Requests \ {r} : Accounts!At(s, "idle") \/ verify[s].browser # b)
  BY <1>1, RequestIs DEF AskedFact
<1> HIDE DEF b
<1>3. CookiesMove(r, cookie', rows', Accounts!Made)
  BY <1>1, <1>2, CookieGoes
<1>4. QED
  BY <1>1, <1>3, NamesStand, OneEnds

LEMMA SessionKeeps == ASSUME AccountInv, NEW r \in Requests, Accounts!Session(r) PROVE AccountInv'
<1> DEFINE b == verify[r].browser
<1>1. /\ verify' = [verify EXCEPT ![r] = Accounts!Idle] /\ cookie' = [cookie EXCEPT ![b] = 0]
      /\ UNCHANGED <<setting, address, rows, mailed, failures, guessed, events>>
      /\ verify[r].pc = "session" /\ sessions' = sessions \union {[browser |-> b, user |-> verify[r].row]}
  BY DEF Accounts!Session, Accounts!Set, Accounts!At
<1>2. b \in Browsers /\ (setting.alone => \A s \in Requests \ {r} : Accounts!At(s, "idle") \/ verify[s].browser # b)
  BY <1>1, RequestIs DEF AskedFact
<1>3. verify[r].row \in 1 .. Accounts!Made /\ rows[verify[r].row].by = b
  BY <1>1, RequestIs DEF AskedFact, Naming, Presenting
<1> HIDE DEF b
<1>4. CookiesMove(r, cookie', rows', Accounts!Made)
  BY <1>1, <1>2, CookieGoes
<1>5. \A s \in sessions' : s.user \in 1 .. Accounts!Made /\ rows'[s.user].by = s.browser
  BY <1>1, <1>3, NamesStand
<1>6. QED
  BY <1>1, <1>4, <1>5, NamesStand, OneEnds

\* Codes are mailed for rows there are.
LEMMA SentIs ==
    ASSUME AccountInv, NEW r \in Requests, Accounts!Sent(r), verify[r].pc \in {"mail", "mail_again"}
    PROVE  mailed' \subseteq [row : Nat, code : Nat] /\ \A m \in mailed' : m.row \in 1 .. Accounts!Made
<1>1. verify[r].row \in 1 .. Accounts!Made /\ verify[r].row \in Nat /\ verify[r].code \in Nat
  BY RequestIs DEF AskedFact, Naming, VerifyStates
<1>2. mailed' \subseteq mailed \union {[row |-> verify[r].row, code |-> verify[r].code]}
  BY DEF Accounts!Sent
<1>3. QED
  BY <1>1, <1>2, NamesStand

LEMMA MailAgainKeeps == ASSUME AccountInv, NEW r \in Requests, Accounts!MailAgain(r) PROVE AccountInv'
<1>1. /\ verify' = [verify EXCEPT ![r] = Accounts!Idle] /\ verify[r].pc = "mail_again" /\ Accounts!Sent(r)
      /\ UNCHANGED <<setting, address, rows, cookie, sessions, failures, guessed, events>>
  BY DEF Accounts!MailAgain, Accounts!Set, Accounts!At
<1>2. QED
  BY <1>1, SentIs, NamesStand, CookiesStay, OneEnds

LEMMA MailKeeps == ASSUME AccountInv, NEW r \in Requests, Accounts!Mail(r) PROVE AccountInv'
<1> DEFINE b == verify[r].browser
<1>1. /\ verify' = [verify EXCEPT ![r] = Accounts!Idle] /\ cookie' = [cookie EXCEPT ![b] = verify[r].row]
      /\ UNCHANGED <<setting, address, rows, sessions, failures, guessed, events>>
      /\ verify[r].pc = "mail" /\ Accounts!Sent(r)
  BY DEF Accounts!Mail, Accounts!Set, Accounts!At
<1>2. b \in Browsers /\ (setting.alone => \A s \in Requests \ {r} : Accounts!At(s, "idle") \/ verify[s].browser # b)
  BY <1>1, RequestIs DEF AskedFact
<1>3. verify[r].row \in 1 .. Accounts!Made /\ verify[r].row \in Nat /\ rows[verify[r].row].by = b
  BY <1>1, RequestIs DEF AskedFact, Naming
<1> HIDE DEF b
<1>4. CookiesMove(r, cookie', rows', Accounts!Made)
  <2>1. cookie' \in [Browsers -> Nat] /\ \A a \in Browsers : cookie'[a] = IF a = b THEN verify[r].row ELSE cookie[a]
    BY <1>1, <1>3, NamesStand
  <2>2. QED
    BY <1>1, <1>2, <1>3, <2>1 DEF CookiesMove
<1>5. QED
  BY <1>1, <1>4, SentIs, NamesStand, OneEnds

\* A request of a row goes on with it.
LEMMA NextPc ==
    ASSUME NEW v \in VerifyStates, NEW pc \in VerifyPcs, NEW q, q = [v EXCEPT !.pc = pc]
    PROVE  /\ q \in VerifyStates /\ q.pc = pc /\ q.owns = v.owns
           /\ q.browser = v.browser /\ q.cookie = v.cookie /\ q.row = v.row /\ q.code = v.code /\ q.link = v.link
           /\ q.from = v.from /\ q.to = v.to /\ q.drop = v.drop
BY DEF VerifyStates

LEMMA AnswerGoesOn ==
    ASSUME AccountInv, NEW r \in Requests, verify[r].pc \in Presenting, NEW q \in VerifyStates,
           q.pc \in Presenting, q.browser = verify[r].browser, q.cookie = verify[r].cookie, q.row = verify[r].row,
           q.link = verify[r].link, q.drop = verify[r].drop,
           q.pc \in {"compare", "count"} => ~q.link,
           ~q.link \/ q.owns => q.cookie = q.row,
           q.pc = "session" => q.owns /\ rows[q.row].state = "gone",
           q.pc = "create" => rows[q.row].user = q.row,
           q.pc = "rename" => rows[q.row].user # q.row /\ q.from = address[0],
           q.pc \in {"act", "create", "rename"} => q.row \in Deletes(verify[r]) \/
                (rows[q.row].state = "pending" /\ (\A s \in Requests \ {r} : q.row \notin Deletes(verify[s])))
    PROVE  RequestMove(r, q, rows, Accounts!Made, address[0], cookie)
<1>1. AskedFact(q, rows, Accounts!Made, address[0])
  BY RequestIs DEF AskedFact, Presenting, Naming
<1>2. ASSUME NEW i \in Deletes(q)
      PROVE  rows[i].state = "pending" /\ \A s \in Requests \ {r} : i \notin Deletes(verify[s])
  BY <1>2, RequestIs DEF Deletes
<1>3. q.pc # "idle" /\ verify[r].pc # "idle"
  BY DEF Presenting
<1>4. QED
  BY <1>1, <1>2, <1>3, RequestIs DEF RequestMove

LEMMA SpendKeeps == ASSUME AccountInv, NEW r \in Requests, Accounts!Spend(r) PROVE AccountInv'
<1> DEFINE v == verify[r]
           q == [v EXCEPT !.pc = "act", !.owns = Accounts!Owns(v)]
<1>1. /\ UNCHANGED <<setting, address, rows, cookie, mailed, sessions, failures, guessed, events>> /\ v.pc = "spend"
      /\ \/ Accounts!Spends(r) /\ verify' = [verify EXCEPT ![r] = q]
         \/ verify' = [verify EXCEPT ![r] = Accounts!Idle]
  BY DEF Accounts!Spend, Accounts!Set, Accounts!At
<1>2. v \in VerifyStates
  BY RequestIs
<1>3. CASE Accounts!Spends(r) /\ verify' = [verify EXCEPT ![r] = q]
  <2>1. Accounts!Owns(v) \in BOOLEAN /\ (Accounts!Owns(v) <=> (v.link => v.cookie = v.row))
    BY DEF Accounts!Owns
  <2>2. PICK owns \in BOOLEAN : owns = Accounts!Owns(v)
    BY <2>1
  <2>3. /\ q \in VerifyStates /\ q.pc = "act" /\ q.owns = owns /\ q.browser = v.browser /\ q.cookie = v.cookie
        /\ q.row = v.row /\ q.link = v.link /\ q.drop = v.drop
    BY <1>2, <2>2 DEF VerifyStates, VerifyPcs
  <2> HIDE DEF q
  <2>4. rows[v.row].state = "pending" /\ \A s \in Requests \ {r} : v.row \notin Deletes(verify[s])
    BY <1>3, RequestIs DEF Accounts!Spends, Accounts!Usable, Accounts!Unlocked
  <2>5. RequestMove(r, q, rows, Accounts!Made, address[0], cookie)
    <3>1. v.pc \in Presenting /\ q.pc \in Presenting
      BY <1>1, <2>3 DEF Presenting
    <3>2. ~q.link \/ q.owns => q.cookie = q.row
      BY <1>1, <2>1, <2>2, <2>3, RequestIs DEF AskedFact, Presenting
    <3>3. QED
      BY <2>3, <2>4, <3>1, <3>2, AnswerGoesOn
  <2>6. QED
    BY <1>1, <1>3, <2>3, <2>5, OneGoes
<1>4. CASE verify' = [verify EXCEPT ![r] = Accounts!Idle]
  BY <1>1, <1>4, NamesStand, CookiesStay, OneEnds
<1>5. QED
  BY <1>1, <1>3, <1>4

\* A transaction goes on, with its row deleted as it was, or is refused.
LEMMA ActGoes ==
    ASSUME AccountInv, NEW r \in Requests, verify[r].pc \in {"act", "create", "rename"}, NEW q \in VerifyStates,
           q.pc \in {"burn", "create", "rename"}, q.browser = verify[r].browser, q.cookie = verify[r].cookie,
           q.row = verify[r].row, q.link = verify[r].link, q.owns = verify[r].owns, q.drop = verify[r].drop,
           q.pc = "create" => rows[q.row].user = q.row,
           q.pc = "rename" => rows[q.row].user # q.row /\ q.from = address[0]
    PROVE  RequestMove(r, q, rows, Accounts!Made, address[0], cookie)
<1>1. verify[r].pc \in Presenting /\ q.pc \in Presenting /\ verify[r].row \in Deletes(verify[r])
  BY DEF Presenting, Deletes
<1>2. ~q.link \/ q.owns => q.cookie = q.row
  BY <1>1, RequestIs DEF AskedFact
<1>3. QED
  BY <1>1, <1>2, AnswerGoesOn

LEMMA FirstClaimKeeps == ASSUME AccountInv, NEW r \in Requests, Accounts!Claim(r) PROVE AccountInv'
<1> DEFINE v == verify[r]
           pc == IF setting.first /\ Accounts!Accounts # {} THEN "burn" ELSE "create"
           q == [v EXCEPT !.pc = pc]
<1>1. /\ UNCHANGED <<setting, address, rows, cookie, mailed, sessions, failures, guessed, events>> /\ v.pc = "act"
      /\ verify' = [verify EXCEPT ![r] = q] /\ rows[v.row].user = v.row
      /\ setting.first => \A s \in Requests \ {r} : ~Accounts!At(s, "create")
  BY DEF Accounts!Claim, Accounts!Goto, Accounts!Set, Accounts!At, Accounts!FirstFree, Accounts!Signup
<1>2. v \in VerifyStates
  BY RequestIs
<1>3. pc \in VerifyPcs /\ pc \in {"burn", "create"} /\ (pc = "create" /\ setting.first => Accounts!Accounts = {})
  BY DEF VerifyPcs
<1> HIDE DEF pc
<1>4. /\ q \in VerifyStates /\ q.pc = pc /\ q.owns = v.owns /\ q.browser = v.browser /\ q.cookie = v.cookie
      /\ q.row = v.row /\ q.link = v.link /\ q.drop = v.drop
  <2>1. PICK p : p = q
    OBVIOUS
  <2>2. QED
    BY <1>2, <1>3, <2>1, NextPc
<1> HIDE DEF q
<1>5. RequestMove(r, q, rows, Accounts!Made, address[0], cookie)
  BY <1>1, <1>3, <1>4, ActGoes
<1>6. QED
  BY <1>1, <1>3, <1>4, <1>5, OneGoes

LEMMA ChangeKeeps == ASSUME AccountInv, NEW r \in Requests, Accounts!Change(r) PROVE AccountInv'
<1> DEFINE v == verify[r]
           q == [v EXCEPT !.pc = "rename", !.from = address[0]]
<1>1. /\ UNCHANGED <<setting, address, rows, cookie, mailed, sessions, failures, guessed, events>> /\ v.pc = "act"
      /\ verify' = [verify EXCEPT ![r] = q] /\ rows[v.row].user # v.row
      /\ \A s \in Requests \ {r} : ~Accounts!At(s, "rename")
  BY DEF Accounts!Change, Accounts!Set, Accounts!At, Accounts!Held, Accounts!Signup
<1>2. v \in VerifyStates /\ address[0] \in Kept
  BY RequestIs, NamesStand
<1>3. /\ q \in VerifyStates /\ q.pc = "rename" /\ q.owns = v.owns /\ q.browser = v.browser /\ q.cookie = v.cookie
      /\ q.row = v.row /\ q.link = v.link /\ q.drop = v.drop /\ q.from = address[0]
  BY <1>2 DEF VerifyStates, VerifyPcs
<1> HIDE DEF q
<1>4. RequestMove(r, q, rows, Accounts!Made, address[0], cookie)
  BY <1>1, <1>3, ActGoes
<1>5. QED
  BY <1>1, <1>3, <1>4, OneGoes

LEMMA CompareKeeps == ASSUME AccountInv, NEW r \in Requests, Accounts!Compare(r) PROVE AccountInv'
<1> DEFINE v == verify[r]
           to == rows[v.row].to
<1>1. /\ UNCHANGED <<setting, address, rows, cookie, mailed, sessions, events>> /\ v.pc = "compare"
      /\ \/ verify' = [verify EXCEPT ![r] = Accounts!Idle] /\ UNCHANGED <<failures, guessed>>
         \/ verify' = [verify EXCEPT ![r] = [v EXCEPT !.pc = "spend"]] /\ UNCHANGED <<failures, guessed>>
         \/ /\ ~(failures[to] >= Cap) /\ verify' = [verify EXCEPT ![r] = [v EXCEPT !.pc = "count"]]
            /\ failures' = [failures EXCEPT ![to] = @ + 1] /\ guessed' = [guessed EXCEPT ![to] = @ + 1]
  BY DEF Accounts!Compare, Accounts!Goto, Accounts!Set, Accounts!At
<1>2. /\ v \in VerifyStates /\ v.row \in 1 .. Accounts!Made /\ v.row \in Accounts!Rows /\ ~v.link /\ v.cookie = v.row
  BY <1>1, RequestIs DEF AskedFact, Naming, Presenting
<1>3. to \in Addresses
  BY <1>2, RowsAre DEF AccountInv, RowInv
<1>4. ASSUME NEW pc \in {"spend", "count"}, NEW q, q = [v EXCEPT !.pc = pc]
      PROVE  q.pc = pc /\ RequestMove(r, q, rows, Accounts!Made, address[0], cookie)
  <2>1. pc \in VerifyPcs
    BY <1>4 DEF VerifyPcs
  <2>2. /\ q \in VerifyStates /\ q.pc = pc /\ q.browser = v.browser /\ q.cookie = v.cookie
        /\ q.row = v.row /\ q.link = v.link /\ q.drop = v.drop
    BY <1>2, <1>4, <2>1, NextPc
  <2>3. v.pc \in Presenting /\ q.pc \in Presenting
    BY <1>1, <1>4, <2>2 DEF Presenting
  <2>4. QED
    BY <1>2, <1>4, <2>2, <2>3, AnswerGoesOn
<1>5. CASE verify' = [verify EXCEPT ![r] = Accounts!Idle] /\ UNCHANGED <<failures, guessed>>
  BY <1>1, <1>5, NamesStand, CookiesStay, OneEnds
<1>6. CASE verify' = [verify EXCEPT ![r] = [v EXCEPT !.pc = "spend"]] /\ UNCHANGED <<failures, guessed>>
  <2>1. PICK q : q = [v EXCEPT !.pc = "spend"]
    OBVIOUS
  <2>2. QED
    BY <1>1, <1>4, <1>6, <2>1, OneGoes
<1>7. CASE /\ ~(failures[to] >= Cap) /\ verify' = [verify EXCEPT ![r] = [v EXCEPT !.pc = "count"]]
           /\ failures' = [failures EXCEPT ![to] = @ + 1] /\ guessed' = [guessed EXCEPT ![to] = @ + 1]
  <2>1. PICK q : q = [v EXCEPT !.pc = "count"]
    OBVIOUS
  <2>2. q.pc = "count" /\ RequestMove(r, q, rows', Accounts!Made, address[0], cookie')
    BY <1>1, <1>4, <2>1
  <2>3. failures \in [Addresses -> Nat] /\ guessed = failures /\ \A a \in Addresses : guessed[a] <= Cap
    BY NamesStand DEF Accounts!GuessesAreCapped
  <2> HIDE DEF to
  <2>4. /\ failures' \in [Addresses -> Nat] /\ guessed' = failures'
        /\ \A a \in Addresses : guessed'[a] <= Cap
    BY <1>3, <1>7, <2>3, RowsAre
  <2>5. RowsMove(r, rows', Accounts!Made) /\ CookiesMove(r, cookie', rows', Accounts!Made)
    BY <1>1, AllRowsStay, CookiesStay
  <2>6. PICK n : n = Accounts!Made
    OBVIOUS
  <2>7. Accounts!GuessesAreCapped'
    BY <2>4 DEF Accounts!GuessesAreCapped
  <2>8. QED
    BY <1>1, <1>7, <2>1, <2>2, <2>4, <2>5, <2>6, <2>7, NamesStand, Keeps
<1>8. QED
  BY <1>1, <1>5, <1>6, <1>7

\* A request that changes rows, or makes one, and no account.
LEMMA RowsGo ==
    ASSUME AccountInv, NEW r \in Requests, NEW q, NEW n \in Nat, verify' = [verify EXCEPT ![r] = q],
           UNCHANGED <<setting, address, mailed, sessions, failures, guessed, events>>,
           RowsMove(r, rows', n), CookiesMove(r, cookie', rows', n),
           RequestMove(r, q, rows', n, address[0], cookie'), q.pc \notin {"create", "rename"}
    PROVE  AccountInv'
<1>1. Accounts!Made <= n /\ Accounts!Made \in Nat /\ \A i \in 1 .. Accounts!Made : rows'[i].by = rows[i].by
  BY RowsAre DEF RowsMove, AccountInv, RowInv
<1>2. \A s \in sessions : s.user \in 1 .. n /\ rows'[s.user].by = s.browser
  BY <1>1, NamesStand
<1>3. \A m \in mailed : m.row \in 1 .. n
  BY <1>1, NamesStand
<1>4. Accounts!GuessesAreCapped'
  BY NamesStand DEF Accounts!GuessesAreCapped
<1>5. QED
  BY <1>2, <1>3, <1>4, NamesStand, Keeps

\* Rows that no other request is deleting go.
LEMMA RowsLeave ==
    ASSUME AccountInv, NEW r, NEW G \in SUBSET (1 .. Accounts!Made), NEW R,
           R = [i \in Accounts!Rows |-> IF i \in G THEN [rows[i] EXCEPT !.state = "gone"] ELSE rows[i]],
           \A s \in Requests \ {r} : G \intersect Deletes(verify[s]) = {}
    PROVE  RowsMove(r, R, Accounts!Made)
<1>1. /\ rows \in [Accounts!Rows -> RowStates] /\ Accounts!Made \in 0 .. Cardinality(Browsers)
      /\ \A i \in Accounts!Rows : (rows[i].state = "none" <=> i > Accounts!Made) /\ rows[i].wrong <= CodeLimit
  BY DEF AccountInv, AccountTypes, RowInv
<1>2. ASSUME NEW i \in Accounts!Rows
      PROVE  /\ R[i] \in RowStates /\ R[i].to = rows[i].to /\ R[i].by = rows[i].by /\ R[i].user = rows[i].user
             /\ R[i].wrong = rows[i].wrong /\ R[i].code = rows[i].code
             /\ R[i].state = IF i \in G THEN "gone" ELSE rows[i].state
  <2>1. rows[i] \in RowStates
    BY <1>1
  <2>2. QED
    BY <2>1 DEF RowStates
<1>3. R \in [Accounts!Rows -> RowStates]
  BY <1>2
<1>4. ASSUME NEW i \in Accounts!Rows
      PROVE  /\ R[i].state = "none" <=> i > Accounts!Made
             /\ i <= Accounts!Made =>
                  R[i].state = rows[i].state \/
                    (rows[i].state = "pending" /\ R[i].state = "gone" /\ (\A s \in Requests \ {r} : i \notin Deletes(verify[s])))
  <2>1. i \in G => i \in 1 .. Accounts!Made /\ rows[i].state \in {"pending", "gone"}
    BY <1>1, RowsAre DEF RowStates
  <2>2. QED
    BY <1>1, <1>2, <2>1, RowsAre
<1>5. QED
  BY <1>1, <1>2, <1>3, <1>4, RowsAre DEF RowsMove

LEMMA RowLeaves ==
    ASSUME AccountInv, NEW r \in Requests, NEW i \in 1 .. Accounts!Made, Accounts!Without(i),
           \A s \in Requests \ {r} : i \notin Deletes(verify[s])
    PROVE  RowsMove(r, rows', Accounts!Made) /\ rows'[i].state = "gone"
<1>1. i \in Accounts!Rows /\ rows \in [Accounts!Rows -> RowStates]
  BY NamesStand, RequestIs
<1>2. rows' = [j \in Accounts!Rows |-> IF j \in {i} THEN [rows[j] EXCEPT !.state = "gone"] ELSE rows[j]]
  BY <1>1 DEF Accounts!Without
<1>3. PICK R : R = rows'
  OBVIOUS
<1>4. R[i].state = "gone"
  BY <1>1, <1>2, <1>3 DEF RowStates
<1>5. RowsMove(r, R, Accounts!Made)
  <2>1. PICK G : G = {i}
    OBVIOUS
  <2>2. G \in SUBSET (1 .. Accounts!Made) /\ \A s \in Requests \ {r} : G \intersect Deletes(verify[s]) = {}
    BY <2>1
  <2>3. QED
    BY <1>2, <1>3, <2>1, <2>2, RowsLeave
<1>6. QED
  BY <1>3, <1>4, <1>5

LEMMA MailFailsKeeps == ASSUME AccountInv, NEW r \in Requests, Accounts!MailFails(r) PROVE AccountInv'
<1> DEFINE i == verify[r].row
<1>1. /\ verify' = [verify EXCEPT ![r] = Accounts!Idle] /\ Accounts!Without(i) /\ Accounts!Unlocked(r, {i})
      /\ UNCHANGED <<setting, address, cookie, mailed, sessions, failures, guessed, events>> /\ verify[r].pc = "mail"
  BY DEF Accounts!MailFails, Accounts!Set, Accounts!At
<1>2. i \in 1 .. Accounts!Made /\ Accounts!Made \in Nat /\ \A s \in Requests \ {r} : i \notin Deletes(verify[s])
  BY <1>1, RequestIs DEF AskedFact, Naming, Accounts!Unlocked
<1> HIDE DEF i
<1>3. RowsMove(r, rows', Accounts!Made) /\ CookiesMove(r, cookie', rows', Accounts!Made)
  BY <1>1, <1>2, RowLeaves, CookiesStay
<1>4. RequestMove(r, Accounts!Idle, rows', Accounts!Made, address[0], cookie')
  BY <1>2, Ends
<1>5. PICK q : q = Accounts!Idle
  OBVIOUS
<1>6. QED
  BY <1>1, <1>2, <1>3, <1>4, <1>5, IdleRequest, RowsGo

LEMMA BurnKeeps == ASSUME AccountInv, NEW r \in Requests, Accounts!Burn(r) PROVE AccountInv'
<1> DEFINE i == verify[r].row
           b == verify[r].browser
<1>1. /\ verify' = [verify EXCEPT ![r] = Accounts!Idle] /\ Accounts!Without(i) /\ Accounts!Unlocked(r, {i})
      /\ UNCHANGED <<setting, address, mailed, sessions, failures, guessed, events>> /\ verify[r].pc = "burn"
      /\ cookie' = cookie \/ cookie' = [cookie EXCEPT ![b] = 0]
  BY DEF Accounts!Burn, Accounts!Set, Accounts!At
<1>2. i \in 1 .. Accounts!Made /\ Accounts!Made \in Nat /\ \A s \in Requests \ {r} : i \notin Deletes(verify[s])
  BY <1>1, RequestIs DEF AskedFact, Naming, Presenting, Accounts!Unlocked
<1>3. b \in Browsers /\ (setting.alone => \A s \in Requests \ {r} : Accounts!At(s, "idle") \/ verify[s].browser # b)
  BY <1>1, RequestIs DEF AskedFact
<1> HIDE DEF i, b
<1>4. RowsMove(r, rows', Accounts!Made) /\ CookiesMove(r, cookie', rows', Accounts!Made)
  BY <1>1, <1>2, <1>3, RowLeaves, CookiesStay, CookieGoes
<1>5. RequestMove(r, Accounts!Idle, rows', Accounts!Made, address[0], cookie')
  BY <1>2, Ends
<1>6. PICK q : q = Accounts!Idle
  OBVIOUS
<1>7. QED
  BY <1>1, <1>2, <1>4, <1>5, <1>6, IdleRequest, RowsGo

LEMMA CancelKeeps ==
    ASSUME AccountInv, NEW r \in Requests, NEW b \in Browsers, Accounts!Cancel(r, b)
    PROVE  AccountInv'
<1> DEFINE q == [Accounts!Idle EXCEPT !.pc = "clear", !.browser = b]
           G == Accounts!Changes
<1>1. /\ verify' = [verify EXCEPT ![r] = q] /\ Accounts!Unlocked(r, G)
      /\ UNCHANGED <<setting, address, cookie, mailed, sessions, failures, guessed, events>>
      /\ rows' = [i \in Accounts!Rows |-> IF i \in G THEN [rows[i] EXCEPT !.state = "gone"] ELSE rows[i]]
      /\ setting.alone => \A s \in Requests : verify[s].browser # b
  BY DEF Accounts!Cancel, Accounts!Set, Accounts!Asks
<1>2. /\ q \in VerifyStates /\ q.pc = "clear" /\ q.browser = b /\ q.cookie = 0 /\ q.row = 0 /\ q.drop = {}
      /\ Accounts!Made \in Nat
  BY IdleRequest, RequestIs DEF VerifyStates, VerifyPcs
<1>3. G \in SUBSET (1 .. Accounts!Made)
  BY RowsAre DEF AccountInv, RowInv, Accounts!Changes
<1>4. \A s \in Requests \ {r} : G \intersect Deletes(verify[s]) = {}
  BY <1>1 DEF Accounts!Unlocked, Accounts!Deleting, Deletes
<1> HIDE DEF q, G
<1>5. PICK R : R = rows'
  OBVIOUS
<1>6. RowsMove(r, R, Accounts!Made)
  BY <1>1, <1>3, <1>4, <1>5, RowsLeave
<1>7. CookiesMove(r, cookie', rows', Accounts!Made)
  BY <1>1, CookiesStay
<1>8. AskedFact(q, R, Accounts!Made, address[0]) /\ Deletes(q) = {}
  BY <1>2 DEF AskedFact, Naming, Presenting, Deletes
<1>9. RequestMove(r, q, R, Accounts!Made, address[0], cookie)
  BY <1>1, <1>2, <1>8 DEF RequestMove, Presenting
<1>10. QED
  BY <1>1, <1>2, <1>5, <1>6, <1>7, <1>9, RowsGo

\* A code is made again or a wrong one counted: the row stays what it was.
Recoded(i, code, wrong) == [rows EXCEPT ![i] = [rows[i] EXCEPT !.code = code, !.wrong = wrong]]

LEMMA RowStands ==
    ASSUME AccountInv, NEW r, NEW i \in 1 .. Accounts!Made, NEW code \in Nat, NEW wrong \in 0 .. CodeLimit,
           NEW R, R = Recoded(i, code, wrong)
    PROVE  /\ RowsMove(r, R, Accounts!Made)
           /\ \A j \in Accounts!Rows : R[j].state = rows[j].state /\ R[j].by = rows[j].by /\ R[j].user = rows[j].user
<1>1. /\ rows \in [Accounts!Rows -> RowStates] /\ Accounts!Made \in 0 .. Cardinality(Browsers)
      /\ \A j \in Accounts!Rows : (rows[j].state = "none" <=> j > Accounts!Made) /\ rows[j].wrong <= CodeLimit
      /\ i \in Accounts!Rows
  BY RowsAre DEF AccountInv, AccountTypes, RowInv
<1>2. ASSUME NEW j \in Accounts!Rows
      PROVE  /\ R[j] \in RowStates /\ R[j].to = rows[j].to /\ R[j].by = rows[j].by /\ R[j].user = rows[j].user
             /\ R[j].state = rows[j].state /\ R[j].wrong <= CodeLimit
  <2>1. rows[j] \in RowStates
    BY <1>1
  <2>2. CASE j = i
    <3>1. R[j] = [rows[i] EXCEPT !.code = code, !.wrong = wrong]
      BY <1>1, <2>2 DEF Recoded
    <3>2. wrong \in Nat /\ wrong <= CodeLimit
      BY RowsAre
    <3>3. QED
      BY <2>1, <2>2, <3>1, <3>2 DEF RowStates
  <2>3. CASE j # i
    BY <1>1, <2>1, <2>3 DEF Recoded
  <2>4. QED
    BY <2>2, <2>3
<1>3. R \in [Accounts!Rows -> RowStates]
  BY <1>1, <1>2 DEF Recoded
<1>4. QED
  BY <1>1, <1>2, <1>3, RowsAre DEF RowsMove

LEMMA RenewKeeps == ASSUME AccountInv, NEW r \in Requests, Accounts!Renew(r) PROVE AccountInv'
<1> DEFINE v == verify[r]
           i == v.row
           q == [v EXCEPT !.pc = "mail_again", !.code = rows[i].code + 1]
<1>1. /\ v.pc = "renew" /\ UNCHANGED <<setting, address, cookie, mailed, sessions, failures, guessed, events>>
      /\ \/ /\ rows' = [rows EXCEPT ![i].code = @ + 1] /\ verify' = [verify EXCEPT ![r] = q]
         \/ UNCHANGED rows /\ verify' = [verify EXCEPT ![r] = Accounts!Idle]
  BY DEF Accounts!Renew, Accounts!Set, Accounts!At
<1>2. /\ v \in VerifyStates /\ i \in 1 .. Accounts!Made /\ i \in Accounts!Rows /\ rows \in [Accounts!Rows -> RowStates]
      /\ Accounts!Made \in Nat
  BY <1>1, RequestIs, NamesStand DEF AskedFact, Naming
<1>3. rows[i] \in RowStates /\ rows[i].code \in Nat /\ rows[i].wrong \in 0 .. CodeLimit
  BY <1>2, RowsAre DEF RowStates, AccountInv, RowInv
<1>4. CASE rows' = [rows EXCEPT ![i].code = @ + 1] /\ verify' = [verify EXCEPT ![r] = q]
  <2>0. PICK R : R = rows'
    OBVIOUS
  <2>1. PICK code \in Nat, wrong \in 0 .. CodeLimit : code = rows[i].code + 1 /\ wrong = rows[i].wrong
    <3>1. rows[i].code + 1 \in Nat /\ rows[i].wrong \in 0 .. CodeLimit
      BY <1>3
    <3>2. QED
      BY <3>1, Zenon
  <2>2. R = Recoded(i, code, wrong)
    BY <1>2, <1>3, <1>4, <2>0, <2>1 DEF RowStates, Recoded
  <2>3. /\ q \in VerifyStates /\ q.pc = "mail_again" /\ q.browser = v.browser /\ q.cookie = v.cookie
        /\ q.row = i /\ q.drop = v.drop
    BY <1>2, <2>1 DEF VerifyStates, VerifyPcs
  <2> HIDE DEF q
  <2>4. /\ RowsMove(r, R, Accounts!Made)
        /\ \A j \in Accounts!Rows : R[j].state = rows[j].state /\ R[j].by = rows[j].by /\ R[j].user = rows[j].user
    <3>1. PICK k \in 1 .. Accounts!Made : k = i
      BY <1>2
    <3>2. R = Recoded(k, code, wrong)
      BY <2>2, <3>1
    <3> HIDE DEF i
    <3>3. QED
      BY <3>2, RowStands
  <2>5. AskedFact(q, R, Accounts!Made, address[0])
    BY <1>1, <1>2, <2>3, <2>4, RequestIs DEF AskedFact, Naming, Presenting
  <2>6. Deletes(q) = Deletes(v) /\ Deletes(v) \subseteq Accounts!Rows
    BY <1>1, <1>2, <2>3 DEF Deletes, VerifyStates
  <2>7. RequestMove(r, q, R, Accounts!Made, address[0], cookie)
    <3>1. \A j \in Deletes(q) : R[j].state = "pending"
      BY <2>4, <2>6, RequestIs
    <3>2. q.pc \notin Presenting /\ q.pc # "idle" /\ v.pc # "idle"
      BY <1>1, <2>3 DEF Presenting
    <3>3. QED
      BY <2>3, <2>5, <2>6, <3>1, <3>2, RequestIs DEF RequestMove
  <2>8. QED
    BY <1>1, <1>2, <1>4, <2>0, <2>1, <2>3, <2>4, <2>7, CookiesStay, RowsGo
<1>5. CASE UNCHANGED rows /\ verify' = [verify EXCEPT ![r] = Accounts!Idle]
  BY <1>1, <1>5, NamesStand, CookiesStay, OneEnds
<1>6. QED
  BY <1>1, <1>4, <1>5

LEMMA CountKeeps == ASSUME AccountInv, NEW r \in Requests, Accounts!Count(r) PROVE AccountInv'
<1> DEFINE v == verify[r]
           i == v.row
           p == [v EXCEPT !.pc = "burn"]
<1>1. /\ v.pc = "count" /\ UNCHANGED <<setting, address, cookie, mailed, sessions, failures, guessed, events>>
      /\ \/ Accounts!Usable(i) /\ rows' = [rows EXCEPT ![i].wrong = @ + 1]
         \/ rows' = rows
      /\ verify' = [verify EXCEPT ![r] = Accounts!Idle] \/ verify' = [verify EXCEPT ![r] = p]
  BY DEF Accounts!Count, Accounts!Goto, Accounts!Set, Accounts!At
<1>2. /\ v \in VerifyStates /\ i \in 1 .. Accounts!Made /\ i \in Accounts!Rows /\ rows \in [Accounts!Rows -> RowStates]
      /\ Accounts!Made \in Nat
  BY <1>1, RequestIs, NamesStand DEF AskedFact, Naming, Presenting
<1>3. rows[i] \in RowStates /\ rows[i].code \in Nat /\ rows[i].wrong \in Nat /\ rows[i].wrong \in 0 .. CodeLimit
  BY <1>2, RowsAre DEF RowStates, AccountInv, RowInv
<1>4. PICK R : R = rows'
  OBVIOUS
<1>5. /\ RowsMove(r, R, Accounts!Made)
      /\ \A j \in Accounts!Rows : R[j].state = rows[j].state /\ R[j].by = rows[j].by /\ R[j].user = rows[j].user
  <2>1. CASE Accounts!Usable(i) /\ rows' = [rows EXCEPT ![i].wrong = @ + 1]
    <3>1. rows[i].wrong + 1 \in 0 .. CodeLimit
      BY <1>3, <2>1, RowsAre DEF Accounts!Usable
    <3>2. PICK code \in Nat, wrong \in 0 .. CodeLimit : code = rows[i].code /\ wrong = rows[i].wrong + 1
      BY <1>3, <3>1
    <3>3. R = Recoded(i, code, wrong)
      BY <1>2, <1>3, <1>4, <2>1, <3>2 DEF RowStates, Recoded
    <3>4. PICK k \in 1 .. Accounts!Made : k = i
      BY <1>2
    <3>5. R = Recoded(k, code, wrong)
      BY <3>3, <3>4
    <3> HIDE DEF i
    <3>6. QED
      BY <3>5, RowStands
  <2>2. CASE rows' = rows
    BY <1>4, <2>2, AllRowsStay
  <2>3. QED
    BY <1>1, <2>1, <2>2
<1>6. CookiesMove(r, cookie', rows', Accounts!Made)
  BY <1>1, CookiesStay
<1>7. CASE verify' = [verify EXCEPT ![r] = Accounts!Idle]
  <2>1. RequestMove(r, Accounts!Idle, rows', Accounts!Made, address[0], cookie')
    BY <1>2, Ends
  <2>2. PICK q : q = Accounts!Idle
    OBVIOUS
  <2>3. QED
    BY <1>1, <1>2, <1>4, <1>5, <1>6, <1>7, <2>1, <2>2, IdleRequest, RowsGo
<1>8. CASE verify' = [verify EXCEPT ![r] = p]
  <2>1. PICK q : q = p
    OBVIOUS
  <2>2. /\ q \in VerifyStates /\ q.pc = "burn" /\ q.browser = v.browser /\ q.cookie = v.cookie
        /\ q.row = i /\ q.drop = v.drop /\ q.link = v.link
    BY <1>2, <2>1, NextPc DEF VerifyPcs
  <2>3. AskedFact(q, R, Accounts!Made, address[0])
    BY <1>1, <1>2, <1>5, <2>2, RequestIs DEF AskedFact, Naming, Presenting
  <2>4. Deletes(q) = Deletes(v) /\ Deletes(v) \subseteq Accounts!Rows
    BY <1>1, <1>2, <2>2 DEF Deletes, VerifyStates
  <2>5. v.pc \in Presenting /\ v.pc # "idle"
    BY <1>1 DEF Presenting
  <2>6. RequestMove(r, q, R, Accounts!Made, address[0], cookie)
    BY <1>5, <2>2, <2>3, <2>4, <2>5, RequestIs DEF RequestMove
  <2>7. QED
    BY <1>1, <1>2, <1>4, <1>5, <1>6, <1>8, <2>1, <2>2, <2>6, RowsGo
<1>9. QED
  BY <1>1, <1>7, <1>8

LEMMA InsertKeeps == ASSUME AccountInv, NEW r \in Requests, Accounts!Insert(r) PROVE AccountInv'
<1> DEFINE v == verify[r]
           m == Accounts!Made
           i == m + 1
           user == IF v.pc = "insert" THEN i ELSE 0
           new == [Accounts!NoRow EXCEPT !.state = "pending", !.to = v.to, !.by = v.browser, !.user = user]
           q == [v EXCEPT !.pc = "mail", !.row = i, !.code = 1, !.drop = {}]
<1>1. /\ v.pc \in {"insert", "insert_change"} /\ i \in Accounts!Rows
      /\ UNCHANGED <<setting, address, cookie, mailed, sessions, failures, guessed, events>>
      /\ rows' = [j \in Accounts!Rows |-> IF j = i THEN new
                    ELSE IF j \in v.drop THEN [rows[j] EXCEPT !.state = "gone"] ELSE rows[j]]
      /\ verify' = [verify EXCEPT ![r] = q]
  BY DEF Accounts!Insert, Accounts!Set
<1>2. /\ v \in VerifyStates /\ m \in Nat /\ v.browser \in Browsers /\ v.to \in Addresses
      /\ v.drop = Deletes(v) /\ m \in 0 .. Cardinality(Browsers)
      /\ v.pc = "insert_change" => address[0] # Accounts!None
      /\ v.cookie \in 0 .. m /\ (v.cookie # 0 => rows[v.cookie].by = v.browser)
  BY <1>1, RequestIs DEF AskedFact, Deletes, AccountInv, RowInv
<1>3. /\ new \in RowStates /\ new.state = "pending" /\ new.to = v.to /\ new.by = v.browser /\ new.user = user
      /\ new.wrong = 0 /\ user \in Nat
  <2>1. user \in Nat
    BY <1>2
  <2> HIDE DEF user
  <2>2. QED
    BY <1>2, <2>1 DEF RowStates, Accounts!NoRow
<1> HIDE DEF new
<1>4. /\ rows \in [Accounts!Rows -> RowStates]
      /\ \A j \in Accounts!Rows : (rows[j].state = "none" <=> j > m) /\ rows[j].wrong <= CodeLimit
      /\ \A j \in v.drop : rows[j].state = "pending" /\ \A s \in Requests \ {r} : j \notin Deletes(verify[s])
  BY <1>2, RequestIs DEF AccountInv, AccountTypes, RowInv
<1>5. PICK n, R : n = m + 1 /\ R = rows'
  OBVIOUS
<1>6. n \in Nat /\ n \in 0 .. Cardinality(Browsers) /\ m <= n
  BY <1>1, <1>2, <1>5, RowsAre
<1>7. ASSUME NEW j \in Accounts!Rows
      PROVE  /\ R[j] \in RowStates /\ R[j].wrong <= CodeLimit
             /\ j = n => R[j] = new
             /\ j # n => /\ R[j].to = rows[j].to /\ R[j].by = rows[j].by /\ R[j].user = rows[j].user
                         /\ R[j].state = IF j \in v.drop THEN "gone" ELSE rows[j].state
  <2>1. rows[j] \in RowStates
    BY <1>4
  <2>2. CASE j = n
    BY <1>1, <1>3, <1>5, <2>2, RowsAre
  <2>3. CASE j # n
    <3>1. R[j] = IF j \in v.drop THEN [rows[j] EXCEPT !.state = "gone"] ELSE rows[j]
      BY <1>1, <1>5, <2>3
    <3>2. QED
      BY <1>4, <2>1, <2>3, <3>1 DEF RowStates
  <2>4. QED
    BY <2>2, <2>3
<1> DEFINE rowsAre == R \in [Accounts!Rows -> RowStates]
<1>8. rowsAre
  BY <1>1, <1>5, <1>7
<1>9. RowsMove(r, R, n)
  <2>1. ASSUME NEW j \in Accounts!Rows
        PROVE  /\ R[j].state = "none" <=> j > n
               /\ j <= m =>
                    /\ R[j].to = rows[j].to /\ R[j].by = rows[j].by /\ R[j].user = rows[j].user
                    /\ \/ R[j].state = rows[j].state
                       \/ /\ rows[j].state = "pending" /\ R[j].state = "gone"
                          /\ \A s \in Requests \ {r} : j \notin Deletes(verify[s])
               /\ j > m /\ j <= n =>
                    /\ R[j].state = "pending" /\ R[j].to \in Addresses
                    /\ R[j].user = j \/ (R[j].user = 0 /\ address[0] # Accounts!None)
    <3>1. j \in Nat
      BY RowsAre
    <3>2. CASE j = n
      BY <1>1, <1>2, <1>3, <1>5, <1>7, <3>1, <3>2
    <3>3. CASE j # n
      BY <1>2, <1>4, <1>5, <1>7, <3>1, <3>3
    <3>4. QED
      BY <3>2, <3>3
  <2>2. QED
    BY <1>6, <1>7, <1>8, <2>1 DEF RowsMove
<1>10. /\ q \in VerifyStates /\ q.pc = "mail" /\ q.browser = v.browser /\ q.cookie = v.cookie /\ q.row = n
       /\ q.drop = {}
  BY <1>2, <1>5, <1>6 DEF VerifyStates, VerifyPcs
<1> HIDE DEF q, user, i, m
<1>11. AskedFact(q, R, n, address[0]) /\ Deletes(q) = {}
  <2>1. R[n].by = v.browser /\ n \in Accounts!Rows
    BY <1>1, <1>3, <1>5, <1>7 DEF i, m
  <2>2. v.cookie # 0 => R[v.cookie].by = v.browser
    <3>1. v.cookie # 0 => v.cookie \in Accounts!Rows /\ v.cookie # n
      BY <1>2, <1>5, RowsAre DEF m
    <3>2. QED
      BY <1>2, <1>7, <3>1
  <2>3. v.cookie \in 0 .. n /\ n # 0
    BY <1>2, <1>5, <1>6
  <2>4. QED
    BY <1>2, <1>6, <1>10, <2>1, <2>2, <2>3 DEF AskedFact, Naming, Presenting, Deletes
<1>12. RequestMove(r, q, R, n, address[0], cookie)
  <2>1. v.pc # "idle"
    BY <1>1
  <2>2. QED
    BY <1>10, <1>11, <2>1, RequestIs DEF RequestMove, Presenting
<1>13. QED
  BY <1>1, <1>5, <1>6, <1>9, <1>10, <1>12, CookiesStay, RowsGo

\* A refused transaction's row is to be burnt.
LEMMA RefusedKeeps ==
    ASSUME AccountInv, NEW r \in Requests, verify[r].pc \in {"create", "rename"}, Accounts!Goto(r, "burn"),
           UNCHANGED <<setting, address, rows, cookie, mailed, sessions, failures, guessed, events>>
    PROVE  AccountInv'
<1> DEFINE v == verify[r]
<1>1. v \in VerifyStates /\ "burn" \in VerifyPcs
  BY RequestIs DEF VerifyPcs
<1>2. PICK q : q = [v EXCEPT !.pc = "burn"]
  OBVIOUS
<1>3. verify' = [verify EXCEPT ![r] = q]
  BY <1>2 DEF Accounts!Goto, Accounts!Set
<1>4. /\ q \in VerifyStates /\ q.pc = "burn" /\ q.owns = v.owns /\ q.browser = v.browser /\ q.cookie = v.cookie
      /\ q.row = v.row /\ q.link = v.link /\ q.drop = v.drop
  BY <1>1, <1>2, NextPc
<1>5. RequestMove(r, q, rows, Accounts!Made, address[0], cookie)
  BY <1>4, ActGoes
<1>6. QED
  BY <1>3, <1>4, <1>5, OneGoes

\* The row of a transaction that commits goes, and the request is answered.
LEMMA CommitsRow ==
    ASSUME AccountInv, NEW r \in Requests, verify[r].pc \in {"create", "rename"}, Accounts!Without(verify[r].row)
    PROVE  /\ RowsMove(r, rows', Accounts!Made) /\ rows'[verify[r].row].state = "gone"
           /\ verify[r].row \in 1 .. Accounts!Made /\ verify[r].row \in Accounts!Rows
           /\ rows[verify[r].row].state = "pending" /\ rows[verify[r].row].to \in Addresses
           /\ \A i \in Accounts!Rows : rows[i].state = "gone" => rows'[i].state = "gone"
<1>1. PICK i : i = verify[r].row
  OBVIOUS
<1>2. i \in 1 .. Accounts!Made /\ i \in Deletes(verify[r]) /\ i \in Accounts!Rows
  BY <1>1, RequestIs DEF AskedFact, Naming, Presenting, Deletes
<1>3. rows[i].state = "pending" /\ \A s \in Requests \ {r} : i \notin Deletes(verify[s])
  BY <1>2, RequestIs
<1>4. RowsMove(r, rows', Accounts!Made) /\ rows'[i].state = "gone"
  BY <1>1, <1>2, <1>3, RowLeaves
<1>5. rows[i].to \in Addresses
  BY <1>2, <1>3 DEF AccountInv, RowInv
<1>6. ASSUME NEW j \in Accounts!Rows, rows[j].state = "gone" PROVE rows'[j].state = "gone"
  <2>1. j <= Accounts!Made
    BY <1>6, RowsAre DEF AccountInv, RowInv
  <2>2. QED
    BY <1>4, <1>6, <2>1 DEF RowsMove
<1>7. QED
  BY <1>1, <1>2, <1>3, <1>4, <1>5, <1>6

LEMMA CreateKeeps == ASSUME AccountInv, NEW r \in Requests, Accounts!Create(r) PROVE AccountInv'
<1> DEFINE v == verify[r]
           i == v.row
<1>1. /\ v.pc = "create" /\ UNCHANGED <<setting, cookie, mailed, sessions, failures, guessed, events>>
      /\ \/ Accounts!Goto(r, "burn") /\ UNCHANGED <<address, rows>>
         \/ /\ address' = [address EXCEPT ![i] = rows[i].to] /\ Accounts!Without(i)
            /\ \/ v.owns /\ verify' = [verify EXCEPT ![r] = [v EXCEPT !.pc = "session"]]
               \/ verify' = [verify EXCEPT ![r] = Accounts!Idle]
  BY DEF Accounts!Create, Accounts!At, Accounts!Goto, Accounts!Set
<1>2. CASE Accounts!Goto(r, "burn") /\ UNCHANGED <<address, rows>>
  BY <1>1, <1>2, RefusedKeeps
<1>3. CASE /\ address' = [address EXCEPT ![i] = rows[i].to] /\ Accounts!Without(i)
           /\ \/ v.owns /\ verify' = [verify EXCEPT ![r] = [v EXCEPT !.pc = "session"]]
              \/ verify' = [verify EXCEPT ![r] = Accounts!Idle]
  <2>1. PICK q : /\ verify' = [verify EXCEPT ![r] = q]
                 /\ (v.owns /\ q = [v EXCEPT !.pc = "session"]) \/ q = Accounts!Idle
    BY <1>3
  <2>2. /\ RowsMove(r, rows', Accounts!Made) /\ rows'[i].state = "gone" /\ i \in 1 .. Accounts!Made
        /\ i \in Accounts!Rows /\ rows[i].to \in Addresses
        /\ \A j \in Accounts!Rows : rows[j].state = "gone" => rows'[j].state = "gone"
    BY <1>1, <1>3, CommitsRow
  <2>3. /\ address \in [Accounts!Owners -> Kept] /\ 0 \in Accounts!Owners /\ i \in Accounts!Owners /\ i # 0
        /\ rows[i].to \in Kept /\ Accounts!Made \in Nat
    BY <2>2, NamesStand, RequestIs DEF Accounts!Owners, Kept
  <2>4. /\ address' \in [Accounts!Owners -> Kept] /\ address'[0] = address[0]
        /\ \A u \in Accounts!Owners : u # i => address'[u] = address[u]
    BY <1>3, <2>3
  <2>5. RequestMove(r, q, rows', Accounts!Made, address[0], cookie') /\ q.pc \in {"idle", "session"}
    <3>1. CASE q = Accounts!Idle
      BY <2>3, <3>1, IdleRequest, Ends
    <3>2. CASE v.owns /\ q = [v EXCEPT !.pc = "session"]
      <4>1. v \in VerifyStates /\ "session" \in VerifyPcs
        BY RequestIs DEF VerifyPcs
      <4>2. /\ q \in VerifyStates /\ q.pc = "session" /\ q.owns = v.owns /\ q.browser = v.browser
            /\ q.cookie = v.cookie /\ q.row = v.row /\ q.link = v.link /\ q.drop = v.drop
        <5>1. q = [v EXCEPT !.pc = "session"]
          BY <3>2
        <5>2. QED
          BY <4>1, <5>1, NextPc
      <4>3. v.cookie = v.row /\ v.browser \in Browsers /\ v.pc \in Presenting
            /\ AskedFact(v, rows, Accounts!Made, address[0])
        BY <1>1, <3>2, RequestIs DEF AskedFact, Presenting
      <4>4. rows'[i].by = rows[i].by /\ rows[i].by = v.browser
        BY <2>2, <2>3, <4>3, RowsAre DEF RowsMove, AskedFact
      <4>5. AskedFact(q, rows', Accounts!Made, address[0])
        BY <2>2, <2>3, <3>2, <4>2, <4>3, <4>4 DEF AskedFact, Presenting, Naming
      <4>6. Deletes(q) \subseteq Deletes(v) \ {i}
        <5>1. q.drop = {}
          BY <1>1, <4>2, <4>3 DEF AskedFact
        <5>2. QED
          BY <4>2, <5>1 DEF Deletes
      <4>7. \A j \in Deletes(q) : rows'[j].state = "pending"
        <5>1. ASSUME NEW j \in Deletes(q) PROVE rows'[j].state = "pending"
          <6>1. rows[j].state = "pending" /\ j # i /\ j \in Accounts!Rows
            BY <4>1, <4>2, <4>6, RequestIs DEF Deletes, VerifyStates
          <6>2. QED
            BY <1>3, <6>1, NamesStand DEF Accounts!Without
        <5>2. QED
          BY <5>1
      <4>8. QED
        BY <1>1, <4>2, <4>3, <4>5, <4>6, <4>7, RequestIs DEF RequestMove
    <3>3. QED
      BY <2>1, <3>1, <3>2
  <2>6. AccountTypes' /\ RowInv' /\ NameInv' /\ AskedInv' /\ DeleteInv' /\ AloneInv'
    <3>1. \A s \in sessions' : s.user \in 1 .. Accounts!Made /\ rows'[s.user].by = s.browser
      BY <1>1, <2>2, <2>3, NamesStand, RequestIs DEF RowsMove
    <3>2. CookiesMove(r, cookie', rows', Accounts!Made)
      BY <1>1, CookiesStay
    <3>3. events \in Seq(Changed)
      BY DEF AccountInv, AccountTypes
    <3>4. PICK n : n = Accounts!Made
      OBVIOUS
    <3>5. QED
      BY <1>1, <2>1, <2>2, <2>4, <2>5, <3>1, <3>2, <3>3, <3>4, NamesStand, Moves
  <2>7. FirstInv'
    <3>1. \A s \in Requests : verify'[s] = IF s = r THEN q ELSE verify[s]
      BY <2>1 DEF AccountInv, AccountTypes
    <3>2. ASSUME setting.first PROVE Accounts!Accounts = {} /\ \A s \in Requests : Accounts!At(s, "create") => s = r
      BY <1>1, <3>2 DEF AccountInv, FirstInv, Accounts!At
    <3>3. setting.first => \A u \in Accounts!Accounts' : u = i
      BY <2>4, <3>2 DEF Accounts!Accounts, Accounts!Owners, Accounts!Rows, Accounts!Cardinality
    <3>4. \A s \in Requests : setting.first => verify'[s].pc # "create"
      BY <2>5, <3>1, <3>2 DEF Accounts!At
    <3>5. QED
      BY <1>1, <3>3, <3>4 DEF FirstInv, Accounts!At
  <2>8. EventInv'
    BY <1>1, <2>1, <2>2, <2>4, <2>5, EventsStay
  <2>9. Accounts!GuessesAreCapped'
    BY <1>1, NamesStand DEF Accounts!GuessesAreCapped
  <2>10. QED
    BY <2>6, <2>7, <2>8, <2>9 DEF AccountInv
<1>4. QED
  BY <1>1, <1>2, <1>3

LEMMA RenameKeeps == ASSUME AccountInv, NEW r \in Requests, Accounts!Rename(r) PROVE AccountInv'
<1> DEFINE v == verify[r]
           i == v.row
           b == v.browser
           to == rows[i].to
           e == [row |-> i, from |-> v.from, to |-> to]
<1>1. /\ v.pc = "rename" /\ UNCHANGED <<setting, mailed, sessions, failures, guessed>>
      /\ \/ Accounts!Goto(r, "burn") /\ UNCHANGED <<address, rows, events, cookie>>
         \/ /\ address' = [address EXCEPT ![0] = to] /\ Accounts!Without(i) /\ events' = Append(events, e)
            /\ verify' = [verify EXCEPT ![r] = Accounts!Idle]
            /\ cookie' = cookie \/ cookie' = [cookie EXCEPT ![b] = 0]
  BY DEF Accounts!Rename, Accounts!At, Accounts!Set
<1>2. CASE Accounts!Goto(r, "burn") /\ UNCHANGED <<address, rows, events, cookie>>
  BY <1>1, <1>2, RefusedKeeps
<1>3. CASE /\ address' = [address EXCEPT ![0] = to] /\ Accounts!Without(i) /\ events' = Append(events, e)
           /\ verify' = [verify EXCEPT ![r] = Accounts!Idle]
           /\ cookie' = cookie \/ cookie' = [cookie EXCEPT ![b] = 0]
  <2>1. PICK q : q = Accounts!Idle
    OBVIOUS
  <2>2. /\ RowsMove(r, rows', Accounts!Made) /\ rows'[i].state = "gone" /\ i \in 1 .. Accounts!Made
        /\ i \in Accounts!Rows /\ rows[i].state = "pending" /\ to \in Addresses
        /\ \A j \in Accounts!Rows : rows[j].state = "gone" => rows'[j].state = "gone"
    BY <1>1, <1>3, CommitsRow
  <2>3. /\ rows[i].user = 0 /\ address[0] # Accounts!None /\ v.from = address[0] /\ b \in Browsers /\ v \in VerifyStates
        /\ Accounts!Made \in Nat
    BY <1>1, <2>2, RequestIs DEF AskedFact, AccountInv, RowInv
  <2>4. /\ address \in [Accounts!Owners -> Kept] /\ 0 \in Accounts!Owners /\ to \in Kept /\ to # Accounts!None
    BY <2>2, NamesStand, RowsAre DEF Kept
  <2> HIDE DEF to
  <2>5. /\ address' \in [Accounts!Owners -> Kept] /\ address'[0] = to
        /\ \A u \in Accounts!Owners : u # 0 => address'[u] = address[u]
    BY <1>3, <2>4
  <2>6. \A s \in Requests \ {r} : ~Accounts!At(s, "rename")
    BY <1>1 DEF AccountInv, EventInv, Accounts!At
  <2>7. e \in Changed /\ e.row = i /\ e.from = address[0] /\ e.to = to /\ events \in Seq(Changed)
    BY <2>2, <2>3, <2>4, NamesStand DEF Changed, AccountInv, AccountTypes
  <2> HIDE DEF e
  <2>8. /\ events' \in Seq(Changed) /\ Len(events') = Len(events) + 1 /\ Len(events) \in Nat
        /\ \A k \in 1 .. Len(events) : events'[k] = events[k] /\ events[k] \in Changed
        /\ events'[Len(events) + 1] = e
    BY <1>3, <2>7
  <2>9. AccountTypes' /\ RowInv' /\ NameInv' /\ AskedInv' /\ DeleteInv' /\ AloneInv'
    <3>1. \A s \in sessions' : s.user \in 1 .. Accounts!Made /\ rows'[s.user].by = s.browser
      BY <1>1, <2>2, <2>3, NamesStand, RequestIs DEF RowsMove
    <3>2. CookiesMove(r, cookie', rows', Accounts!Made)
      <4>1. setting.alone => \A s \in Requests \ {r} : Accounts!At(s, "idle") \/ verify[s].browser # b
        BY <1>1, RequestIs
      <4> HIDE DEF b
      <4>2. QED
        BY <1>3, <2>3, <4>1, CookiesStay, CookieGoes
    <3>3. PICK n : n = Accounts!Made
      OBVIOUS
    <3>4. RequestMove(r, q, rows', n, address'[0], cookie')
      BY <2>1, <2>3, <3>3, Ends
    <3>5. \A s \in Requests \ {r} : verify[s].pc # "rename"
      BY <2>6 DEF Accounts!At
    <3>6. QED
      BY <1>1, <1>3, <2>1, <2>2, <2>4, <2>5, <2>8, <3>1, <3>2, <3>3, <3>4, <3>5, NamesStand, Moves
  <2>10. FirstInv'
    <3>1. Accounts!Accounts' \subseteq Accounts!Accounts
      BY <2>3, <2>4, <2>5 DEF Accounts!Accounts, Accounts!Owners, Accounts!Rows, Accounts!Cardinality
    <3>2. q.pc = "idle"
      BY <2>1, IdleRequest
    <3>3. QED
      BY <1>1, <1>3, <2>1, <3>1, <3>2, FirstMoves
  <2>11. EventInv'
    <3>1. EventInv /\ \A s \in Requests : verify'[s] = IF s = r THEN q ELSE verify[s]
      BY <1>3, <2>1 DEF AccountInv, AccountTypes
    <3>2. \A k \in 1 .. Len(events) + 1 : events'[k].from = IF k = 1 THEN setting.home ELSE events'[k - 1].to
      <4>1. ASSUME NEW k \in 1 .. Len(events)
            PROVE  events'[k].from = IF k = 1 THEN setting.home ELSE events'[k - 1].to
        <5>1. events[k].from = IF k = 1 THEN setting.home ELSE events[k - 1].to
          BY <3>1 DEF EventInv, Accounts!ChangesFollow
        <5>2. k # 1 => k - 1 \in 1 .. Len(events)
          BY <2>8
        <5>3. QED
          BY <2>8, <5>1, <5>2
      <4>2. CASE Len(events) = 0
        <5>1. events = <<>>
          BY <2>7, <4>2
        <5>2. QED
          BY <2>7, <2>8, <3>1, <4>2, <5>1 DEF EventInv
      <4>3. CASE Len(events) # 0
        <5>1. events # <<>> /\ events[Len(events)].to = address[0]
          BY <2>7, <3>1, <4>3 DEF EventInv, Accounts!ChangesFollow
        <5>2. Len(events) \in 1 .. Len(events) /\ Len(events) + 1 # 1 /\ (Len(events) + 1) - 1 = Len(events)
          BY <2>8, <4>3
        <5>3. events'[Len(events) + 1].from = events'[(Len(events) + 1) - 1].to
          BY <2>7, <2>8, <5>1, <5>2
        <5>4. ASSUME NEW k \in 1 .. Len(events) + 1
              PROVE  events'[k].from = IF k = 1 THEN setting.home ELSE events'[k - 1].to
          <6>1. k \in 1 .. Len(events) \/ k = Len(events) + 1
            BY <2>8
          <6>2. QED
            BY <4>1, <5>2, <5>3, <6>1
        <5>5. QED
          BY <5>4
      <4>4. QED
        BY <4>2, <4>3
    <3>3. \A j, k \in 1 .. Len(events) + 1 : j # k => events'[j].row # events'[k].row
      <4>1. \A k \in 1 .. Len(events) : events[k].row # i
        BY <2>2, <3>1 DEF EventInv
      <4>2. \A j, k \in 1 .. Len(events) : j # k => events[j].row # events[k].row
        BY <3>1 DEF EventInv, Accounts!ChangesFollow
      <4>3. QED
        BY <2>7, <2>8, <4>1, <4>2
    <3>4. Accounts!ChangesFollow'
      BY <1>1, <2>5, <2>7, <2>8, <3>2, <3>3 DEF Accounts!ChangesFollow
    <3>5. \A k \in 1 .. Len(events') : rows'[events'[k].row].state = "gone"
      <4>1. ASSUME NEW k \in 1 .. Len(events) PROVE rows'[events'[k].row].state = "gone"
        BY <2>2, <2>8, <3>1 DEF EventInv, Changed
      <4>2. QED
        BY <2>2, <2>7, <2>8, <4>1
    <3>6. \A s \in Requests : verify'[s].pc # "rename"
      BY <2>1, <2>6, <3>1, IdleRequest DEF Accounts!At
    <3>7. events' # <<>>
      BY <2>8
    <3>8. QED
      BY <3>4, <3>5, <3>6, <3>7 DEF EventInv, Accounts!At
  <2>12. Accounts!GuessesAreCapped'
    BY <1>1, NamesStand DEF Accounts!GuessesAreCapped
  <2>13. QED
    BY <2>9, <2>10, <2>11, <2>12 DEF AccountInv
<1>4. QED
  BY <1>1, <1>2, <1>3

LEMMA ExpireKeeps == ASSUME AccountInv, NEW i \in Accounts!Rows, Accounts!Expire(i) PROVE AccountInv'
<1>1. /\ UNCHANGED <<setting, address, cookie, mailed, sessions, failures, guessed, events, verify>>
      /\ rows[i].state = "pending" /\ Accounts!Without(i) /\ \A s \in Requests : i \notin Deletes(verify[s])
  BY DEF Accounts!Expire, Accounts!Deleting, Deletes
<1>2. /\ AccountTypes /\ RowInv /\ NameInv /\ AskedInv /\ DeleteInv /\ FirstInv /\ EventInv /\ AloneInv
      /\ Accounts!GuessesAreCapped
  BY DEF AccountInv
<1>3. /\ rows \in [Accounts!Rows -> RowStates] /\ rows[i] \in RowStates /\ i \in 1 .. Accounts!Made
      /\ Accounts!Made \in 0 .. Cardinality(Browsers) /\ 1 .. Accounts!Made \subseteq Accounts!Rows
  BY <1>1, <1>2, RowsAre DEF AccountTypes, RowInv
<1>4. /\ rows' \in [Accounts!Rows -> RowStates]
      /\ \A j \in Accounts!Rows :
            /\ rows'[j].to = rows[j].to /\ rows'[j].by = rows[j].by /\ rows'[j].user = rows[j].user
            /\ rows'[j].wrong = rows[j].wrong /\ rows'[j].state = IF j = i THEN "gone" ELSE rows[j].state
  <2>1. rows' = [rows EXCEPT ![i] = [rows[i] EXCEPT !.state = "gone"]]
    BY <1>1, <1>3 DEF Accounts!Without
  <2>2. PICK x : x = [rows[i] EXCEPT !.state = "gone"]
    OBVIOUS
  <2>3. /\ x \in RowStates /\ x.to = rows[i].to /\ x.by = rows[i].by /\ x.user = rows[i].user
        /\ x.wrong = rows[i].wrong /\ x.state = "gone"
    BY <1>3, <2>2 DEF RowStates
  <2>4. QED
    BY <1>3, <2>1, <2>2, <2>3
<1>5. Accounts!Made' = Accounts!Made
  <2>1. PICK R, n : R = rows' /\ n = Accounts!Made
    OBVIOUS
  <2>2. n \in 0 .. Cardinality(Browsers) /\ \A j \in Accounts!Rows : R[j].state = "none" <=> j > n
    BY <1>2, <1>3, <1>4, <2>1, RowsAre DEF RowInv
  <2>3. Accounts!Cardinality({j \in Accounts!Rows : R[j].state # "none"}) = n
    BY <2>2, MadeRows
  <2>4. QED
    BY <2>1, <2>3 DEF Accounts!Made, Accounts!Rows, Accounts!Cardinality
<1>6. AccountTypes'
  BY <1>1, <1>2, <1>4 DEF AccountTypes, Accounts!Rows, Accounts!Owners, Accounts!Cardinality
<1>7. RowInv'
  <2>1. Accounts!Rows' = Accounts!Rows
    BY DEF Accounts!Rows, Accounts!Cardinality
  <2>2. QED
    BY <1>1, <1>2, <1>3, <1>4, <1>5, <2>1 DEF RowInv
<1>8. NameInv'
  <2>1. \A j \in 1 .. Accounts!Made : rows'[j].by = rows[j].by
    BY <1>3, <1>4
  <2>2. QED
    BY <1>1, <1>2, <1>3, <1>5, <2>1 DEF NameInv
<1>9. AskedInv'
  <2>1. ASSUME NEW s \in Requests PROVE AskedFact(verify[s], rows', Accounts!Made, address[0])
    <3>1. AskedFact(verify[s], rows, Accounts!Made, address[0])
      BY <1>2 DEF AskedInv
    <3>2. /\ verify[s].cookie # 0 => verify[s].cookie \in Accounts!Rows
          /\ verify[s].row # 0 => verify[s].row \in Accounts!Rows
      BY <1>3, <3>1 DEF AskedFact
    <3>3. PICK v, R : v = verify[s] /\ R = rows'
      OBVIOUS
    <3>4. AskedFact(v, R, Accounts!Made, address[0])
      BY <1>4, <3>1, <3>2, <3>3 DEF AskedFact, Naming, Presenting
    <3>5. QED
      BY <3>3, <3>4
  <2>2. QED
    BY <1>1, <1>5, <2>1 DEF AskedInv
<1>10. DeleteInv'
  <2>1. ASSUME NEW s \in Requests, NEW j \in Deletes(verify[s]) PROVE rows'[j].state = "pending"
    <3>1. rows[j].state = "pending" /\ j # i
      BY <1>1, <1>2 DEF DeleteInv
    <3>2. j \in Accounts!Rows
      BY <1>2, <1>3 DEF AccountTypes, AskedInv, AskedFact, Deletes, VerifyStates, Naming, Presenting
    <3>3. QED
      BY <1>4, <3>1, <3>2
  <2>2. QED
    BY <1>1, <1>2, <2>1 DEF DeleteInv
<1>11. FirstInv' /\ AloneInv'
  BY <1>1, <1>2 DEF FirstInv, AloneInv, Accounts!At, Accounts!Accounts, Accounts!Owners, Accounts!Rows, Accounts!Cardinality
<1>12. EventInv'
  <2>1. Accounts!ChangesFollow'
    BY <1>1, <1>2 DEF EventInv, Accounts!ChangesFollow
  <2>2. \A k \in 1 .. Len(events) : events[k] \in Changed
    BY <1>2 DEF AccountTypes
  <2>3. \A k \in 1 .. Len(events) : rows'[events[k].row].state = "gone"
    BY <1>2, <1>4, <2>2 DEF EventInv, Changed
  <2>4. QED
    BY <1>1, <1>2, <2>1, <2>3 DEF EventInv, Accounts!At
<1>13. Accounts!GuessesAreCapped'
  BY <1>1, <1>2 DEF Accounts!GuessesAreCapped
<1>14. QED
  BY <1>6, <1>7, <1>8, <1>9, <1>10, <1>11, <1>12, <1>13 DEF AccountInv

\* Where the rows, the requests and the accounts stay, so does what is said of them.
LEMMA OnlyCounts ==
    ASSUME AccountInv, UNCHANGED <<setting, address, rows, cookie, mailed, sessions, events, verify>>,
           failures' \in [Addresses -> Nat], guessed' = failures', Accounts!GuessesAreCapped'
    PROVE  AccountInv'
<1>1. Accounts!Made' = Accounts!Made /\ Accounts!Rows' = Accounts!Rows /\ Accounts!Accounts' = Accounts!Accounts
      /\ Accounts!Owners' = Accounts!Owners
  BY DEF Accounts!Made, Accounts!Rows, Accounts!Cardinality, Accounts!Accounts, Accounts!Owners
<1>2. AccountTypes' /\ RowInv' /\ NameInv'
  BY <1>1 DEF AccountInv, AccountTypes, RowInv, NameInv
<1>3. AskedInv' /\ DeleteInv' /\ AloneInv'
  BY <1>1 DEF AccountInv, AskedInv, DeleteInv, AloneInv, Accounts!At
<1>4. FirstInv' /\ EventInv'
  BY <1>1 DEF AccountInv, FirstInv, EventInv, Accounts!At, Accounts!ChangesFollow
<1>5. QED
  BY <1>2, <1>3, <1>4 DEF AccountInv

LEMMA WindowKeeps == ASSUME AccountInv, NEW a \in Addresses, Accounts!WindowEnds(a) PROVE AccountInv'
<1>1. /\ UNCHANGED <<setting, address, rows, cookie, mailed, sessions, events, verify>> /\ failures[a] > 0
      /\ failures' = [failures EXCEPT ![a] = @ - 1] /\ guessed' = [guessed EXCEPT ![a] = @ - 1]
  BY DEF Accounts!WindowEnds
<1>2. failures \in [Addresses -> Nat] /\ guessed = failures /\ \A d \in Addresses : guessed[d] <= Cap
  BY NamesStand DEF Accounts!GuessesAreCapped
<1>3. failures' \in [Addresses -> Nat] /\ guessed' = failures' /\ \A d \in Addresses : guessed'[d] <= Cap
  BY <1>1, <1>2, RowsAre
<1>4. QED
  BY <1>1, <1>3, OnlyCounts DEF Accounts!GuessesAreCapped

LEMMA AccountStep == AccountInv /\ [Accounts!Next]_(Accounts!vars) => AccountInv'
<1> SUFFICES ASSUME AccountInv, [Accounts!Next]_(Accounts!vars) PROVE AccountInv'
  OBVIOUS
<1>1. CASE UNCHANGED Accounts!vars
  <2>1. Accounts!GuessesAreCapped'
    BY <1>1, NamesStand DEF Accounts!vars, Accounts!GuessesAreCapped
  <2>2. QED
    BY <1>1, <2>1, NamesStand, OnlyCounts DEF Accounts!vars
<1>2. ASSUME NEW r \in Requests, Accounts!Begins(r) PROVE AccountInv'
  BY <1>2, VerifyStartKeeps, CancelKeeps, ResendKeeps, CodeKeeps, LinkKeeps DEF Accounts!Begins
<1>3. ASSUME NEW r \in Requests,
             \/ Accounts!Insert(r) \/ Accounts!Mail(r) \/ Accounts!MailFails(r) \/ Accounts!Clear(r)
             \/ Accounts!Renew(r) \/ Accounts!MailAgain(r) \/ Accounts!Compare(r) \/ Accounts!Count(r)
             \/ Accounts!Burn(r) \/ Accounts!Spend(r)
      PROVE  AccountInv'
  BY <1>3, InsertKeeps, MailKeeps, MailFailsKeeps, ClearKeeps, RenewKeeps, MailAgainKeeps, CompareKeeps, CountKeeps,
     BurnKeeps, SpendKeeps
<1>4. ASSUME NEW r \in Requests,
             \/ Accounts!Claim(r) \/ Accounts!Create(r) \/ Accounts!Change(r) \/ Accounts!Rename(r)
             \/ Accounts!Session(r) \/ Accounts!Fails(r)
      PROVE  AccountInv'
  BY <1>4, FirstClaimKeeps, CreateKeeps, ChangeKeeps, RenameKeeps, SessionKeeps, FailsKeeps
<1>5. QED
  BY <1>1, <1>2, <1>3, <1>4, ExpireKeeps, WindowKeeps DEF Accounts!Next

LEMMA AccountInvariant == Accounts!Spec => []AccountInv
BY AccountStart, AccountStep, PTL DEF Accounts!Spec

\* "Two racing first signups cannot both win" (signup-policy.ts), a link signs in only the
\* browser that started the signup, changes of one address follow one another, and wrong codes
\* are capped for an address across its rows (email-verification.ts): of any number of requests.
THEOREM ProvesOnce == Accounts!Spec => []ProvedOnce
<1>1. AccountInv => ProvedOnce
  <2> SUFFICES ASSUME AccountInv PROVE ProvedOnce
    OBVIOUS
  <2>1. Accounts!OneFirst
    <3>1. CASE Accounts!Accounts = {}
      BY <3>1, FS_EmptySet, AccountsCount DEF Accounts!OneFirst
    <3>2. ASSUME setting.first, NEW u \in Accounts!Accounts PROVE Accounts!Cardinality(Accounts!Accounts) <= 1
      <4>1. Accounts!Accounts = {u}
        BY <3>2 DEF AccountInv, FirstInv
      <4>2. QED
        BY <4>1, FS_Singleton, AccountsCount
    <3>3. QED
      BY <3>1, <3>2 DEF Accounts!OneFirst
  <2>2. Accounts!SignedInWhereStarted
    BY DEF AccountInv, NameInv, Accounts!SignedInWhereStarted
  <2>3. Accounts!ChangesFollow /\ Accounts!GuessesAreCapped
    BY DEF AccountInv, EventInv
  <2>4. QED
    BY <2>1, <2>2, <2>3 DEF ProvedOnce, Accounts!ProvedOnce
<1>2. QED
  BY <1>1, AccountInvariant, PTL

\* The shape of the state of the accounts.
THEOREM AccountTypesHold == Accounts!Spec => []Accounts!TypeOK
<1>1. AccountInv => Accounts!TypeOK
  BY DEF AccountInv, AccountTypes, RowInv, NameInv, AskedInv, AskedFact, VerifyStates, Accounts!TypeOK
<1>2. QED
  BY <1>1, AccountInvariant, PTL

\* What a browser waits for: the cookie goes with its row, or its own cancellation.
CookiesKept ==
    setting.alone => \A b \in Browsers :
        cookie[b] # 0 /\ cookie'[b] = 0 =>
            \/ ~(rows'[cookie[b]].state = "pending" /\ rows'[cookie[b]].wrong < CodeLimit)
            \/ \E r \in Requests : Accounts!At(r, "clear") /\ verify[r].browser = b

LEMMA CookieWithRow ==
    ASSUME AccountInv, NEW r \in Requests, verify[r].pc \in Presenting, ~verify[r].link \/ verify[r].owns,
           cookie' = [cookie EXCEPT ![verify[r].browser] = 0], rows'[verify[r].row].state = "gone"
    PROVE  CookiesKept
<1>1. ASSUME setting.alone, NEW b \in Browsers, cookie[b] # 0, cookie'[b] = 0 PROVE rows'[cookie[b]].state = "gone"
  <2>1. b = verify[r].browser
    BY <1>1, NamesStand
  <2>2. cookie[b] = verify[r].cookie /\ verify[r].cookie = verify[r].row
    BY <1>1, <2>1, RequestIs DEF AskedFact
  <2>3. QED
    BY <2>2
<1>2. QED
  BY <1>1 DEF CookiesKept

LEMMA WaitingStep == ASSUME AccountInv, [Accounts!Next]_(Accounts!vars) PROVE CookiesKept
<1>1. CASE cookie' = cookie
  BY <1>1 DEF CookiesKept
<1>2. ASSUME NEW r \in Requests, Accounts!Mail(r) PROVE CookiesKept
  <2>1. verify[r].row # 0 /\ cookie' = [cookie EXCEPT ![verify[r].browser] = verify[r].row]
    BY <1>2, RequestIs DEF Accounts!Mail, Accounts!At, AskedFact, Naming
  <2>2. QED
    BY <2>1, NamesStand DEF CookiesKept
<1>3. ASSUME NEW r \in Requests, Accounts!Clear(r) PROVE CookiesKept
  <2>1. Accounts!At(r, "clear") /\ cookie' = [cookie EXCEPT ![verify[r].browser] = 0]
    BY <1>3 DEF Accounts!Clear
  <2>2. QED
    BY <2>1, NamesStand DEF CookiesKept
<1>4. ASSUME NEW r \in Requests, NEW b \in Browsers, NEW typed \in 0 .. 2, Accounts!Code(r, b, typed) PROVE CookiesKept
  <2>1. UNCHANGED rows /\ (UNCHANGED cookie \/ (~Accounts!Usable(cookie[b]) /\ cookie' = [cookie EXCEPT ![b] = 0]))
    BY <1>4 DEF Accounts!Code
  <2>2. QED
    BY <1>1, <2>1, NamesStand DEF CookiesKept, Accounts!Usable
<1>5. ASSUME NEW r \in Requests, Accounts!Burn(r) PROVE CookiesKept
  <2>1. /\ verify[r].pc = "burn" /\ Accounts!Without(verify[r].row)
        /\ \/ cookie' = cookie
           \/ (verify[r].owns \/ ~verify[r].link) /\ cookie' = [cookie EXCEPT ![verify[r].browser] = 0]
    BY <1>5 DEF Accounts!Burn, Accounts!At
  <2>2. verify[r].row \in Accounts!Rows /\ verify[r].pc \in Presenting
    BY <2>1, RequestIs DEF AskedFact, Naming, Presenting
  <2>3. rows'[verify[r].row].state = "gone"
    BY <2>1, <2>2, NamesStand DEF Accounts!Without, RowStates
  <2>4. QED
    BY <1>1, <2>1, <2>2, <2>3, CookieWithRow
<1>6. ASSUME NEW r \in Requests, Accounts!Rename(r) PROVE CookiesKept
  <2>1. /\ verify[r].pc = "rename"
        /\ \/ cookie' = cookie
           \/ /\ Accounts!Without(verify[r].row)
              /\ verify[r].owns /\ cookie' = [cookie EXCEPT ![verify[r].browser] = 0]
    BY <1>6 DEF Accounts!Rename, Accounts!At
  <2>2. verify[r].row \in Accounts!Rows /\ verify[r].pc \in Presenting
    BY <2>1, RequestIs DEF AskedFact, Naming, Presenting
  <2>3. Accounts!Without(verify[r].row) => rows'[verify[r].row].state = "gone"
    BY <2>1, <2>2, NamesStand DEF Accounts!Without, RowStates
  <2>4. QED
    BY <1>1, <2>1, <2>2, <2>3, CookieWithRow
<1>7. ASSUME NEW r \in Requests, Accounts!Session(r) PROVE CookiesKept
  <2>1. /\ verify[r].pc = "session" /\ rows' = rows
        /\ cookie' = [cookie EXCEPT ![verify[r].browser] = 0]
    BY <1>7 DEF Accounts!Session, Accounts!At
  <2>2. verify[r].owns /\ rows'[verify[r].row].state = "gone" /\ verify[r].pc \in Presenting
    BY <2>1, RequestIs DEF AskedFact, Presenting
  <2>3. QED
    BY <2>1, <2>2, CookieWithRow
<1>8. CASE Accounts!Next
  <2>1. ASSUME NEW r \in Requests, Accounts!Begins(r) PROVE CookiesKept
    <3>1. ASSUME NEW b \in Browsers,
                 \/ \E a \in Addresses : Accounts!Start(r, b, a, TRUE) \/ Accounts!Start(r, b, a, FALSE)
                 \/ Accounts!Cancel(r, b) \/ Accounts!Resend(r, b) \/ \E m \in mailed : Accounts!Link(r, b, m)
          PROVE  cookie' = cookie
      BY <3>1 DEF Accounts!Start, Accounts!Cancel, Accounts!Resend, Accounts!Link
    <3>2. QED
      BY <1>1, <1>4, <2>1, <3>1 DEF Accounts!Begins
  <2>2. ASSUME NEW r \in Requests,
               \/ Accounts!Insert(r) \/ Accounts!MailFails(r) \/ Accounts!Renew(r) \/ Accounts!MailAgain(r)
               \/ Accounts!Compare(r) \/ Accounts!Count(r) \/ Accounts!Spend(r) \/ Accounts!Claim(r)
               \/ Accounts!Create(r) \/ Accounts!Change(r) \/ Accounts!Fails(r)
        PROVE  cookie' = cookie
    BY <2>2 DEF Accounts!Insert, Accounts!MailFails, Accounts!Renew, Accounts!MailAgain, Accounts!Compare, Accounts!Count,
       Accounts!Spend, Accounts!Claim, Accounts!Create, Accounts!Change, Accounts!Fails
  <2>3. (\E i \in Accounts!Rows : Accounts!Expire(i)) \/ (\E a \in Addresses : Accounts!WindowEnds(a)) => cookie' = cookie
    BY DEF Accounts!Expire, Accounts!WindowEnds
  <2>4. QED
    BY <1>1, <1>2, <1>3, <1>5, <1>6, <1>7, <1>8, <2>1, <2>2, <2>3 DEF Accounts!Next
<1>9. QED
  BY <1>1, <1>8 DEF Accounts!vars

\* "A link confirmed elsewhere must not wipe a different pending signup in this browser": of
\* any number of browsers that wait for their answers.
THEOREM WaitingIsKept == Accounts!Spec => Accounts!WaitingStays
<1>1. AccountInv /\ [Accounts!Next]_(Accounts!vars) =>
        [setting.alone => \A b \in Browsers :
            cookie[b] # 0 /\ cookie'[b] = 0 =>
               \/ ~(rows'[cookie[b]].state = "pending" /\ rows'[cookie[b]].wrong < CodeLimit)
               \/ \E r \in Requests : Accounts!At(r, "clear") /\ verify[r].browser = b]_(Accounts!vars)
  BY WaitingStep DEF CookiesKept
<1>2. QED
  BY <1>1, AccountInvariant, PTL DEF Accounts!Spec, Accounts!WaitingStays

\* The four side by side, as they are model-checked: the shape of all their states holds, and
\* so does what is granted to each.
LEMMA PartsRun == MCSpec => Spec /\ AccessSpec /\ Accounts!Spec /\ SignIn!Spec
<1>1. MCInit => Init /\ AccessInit /\ Accounts!Init /\ SignIn!Init
  BY DEF MCInit
<1>2. [MCNext]_<<part, vars, accessVars, accountVars, signInVars>> =>
         [Next]_vars /\ [AccessNext]_accessVars /\ [Accounts!Next]_(Accounts!vars) /\ [SignIn!Next]_(SignIn!vars)
  <2>1. (UNCHANGED accountVars <=> UNCHANGED Accounts!vars) /\ (UNCHANGED signInVars <=> UNCHANGED SignIn!vars)
    BY DEF accountVars, signInVars, Accounts!vars, SignIn!vars
  <2>2. QED
    BY <2>1 DEF MCNext, Ended, SignedIn
<1>3. QED
  BY <1>1, <1>2, PTL DEF MCSpec, Spec, AccessSpec, Accounts!Spec, SignIn!Spec

\* The states of the four keep their shape, in any run of the four side by side.
THEOREM AllTypesHold == MCSpec => []AllTypeOK
<1>1. TypeOK /\ AccessTypeOK /\ Accounts!TypeOK /\ SignIn!TypeOK => AllTypeOK
  BY DEF AllTypeOK
<1>2. QED
  BY <1>1, PartsRun, TypeCorrect, AccessTypeCorrect, AccountTypesHold, SignInTypes, PTL

\* There is room for whoever joins and for every token, joins are by pending codes, and what a
\* browser waits for stays: for every value of the constants.
THEOREM GrantsCovered == MCSpec => GrantsAreCovered
<1>1. Spec => JoinsHaveRoom /\ OnlyPendingJoins
  BY RoomForJoins, CodesThatCount, PTL
<1>2. QED
  BY <1>1, PartsRun, RoomForMints, WaitingIsKept, PTL DEF GrantsAreCovered
=============================================================================

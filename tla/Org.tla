-------------------------------- MODULE Org --------------------------------
(***************************************************************************)
(* apps/web/server/utils/org.ts, invites.ts and entitlements.ts: who       *)
(* belongs to which organization.                                          *)
(*                                                                         *)
(* Requests run at one time, each in a transaction of PostgreSQL under     *)
(* READ COMMITTED: a request holds the rows it read FOR UPDATE, others     *)
(* wait for them, and its writes are there for others when it commits.     *)
(* What it read before its transaction, or without a lock, it remembers.   *)
(* Any request may end in a refusal, an error or a deadlock PostgreSQL     *)
(* breaks: then it leaves nothing.                                         *)
(*                                                                         *)
(* An organization has at most one connection here, and an invitation is   *)
(* by its address, a user's.                                               *)
(***************************************************************************)
EXTENDS Integers, FiniteSets

CONSTANTS
    Users, Orgs,
    Homes,       \* Homes[u]: the organization of u to begin with, or None
    Requests,    \* requests at one time
    Fresh,       \* whether a member is, when a request locks, as it read before
    Limits,      \* max_members; it changes with the plan, by a statement that waits
                 \* for the row as requests do
    MaxInvites   \* bound: invitations ever made

None == "none"

ASSUME OrgAssumption ==
    /\ None \notin Orgs /\ Homes \in [Users -> Orgs \union {None}]
    /\ Fresh \in BOOLEAN /\ MaxInvites \in Nat /\ Limits \in [Orgs -> Nat]
    /\ IsFiniteSet(Users)

VARIABLES
    exists,   \* app.organizations
    member,   \* app.memberships, by user: [org, role]
    owned,    \* organizations that own a connection
    invites,  \* app.invitations
    req       \* the requests

vars == <<exists, member, owned, invites, req>>

Roles == {"admin", "member"}
Nobody == [org |-> None, role |-> "member"]
NoInvite == [state |-> "none", org |-> None, user |-> None, role |-> "member"]
InviteIds == 1 .. MaxInvites

\* user, org, role, invite: what is asked; was: the membership read; alone: nobody
\* else is in the organization left; orgs, rows: locked.
Idle == [pc |-> "idle", user |-> None, org |-> None, role |-> "member", invite |-> 0,
         was |-> Nobody, alone |-> FALSE, orgs |-> {}, rows |-> {}]

\* Each organization is its first member's, an administrator.
Init ==
    /\ exists = {o \in Orgs : \E u \in Users : Homes[u] = o}
    /\ member = [u \in Users |-> [org |-> Homes[u], role |-> IF Homes[u] = None THEN "member" ELSE "admin"]]
    /\ owned = {} /\ invites = [i \in InviteIds |-> NoInvite]
    /\ req = [r \in Requests |-> Idle]

Made == {i \in InviteIds : invites[i].state # "none"}
Newest == Cardinality(Made)

Members(o) == {u \in Users : member[u].org = o}
Admins(o) == {u \in Members(o) : member[u].role = "admin"}
Pending(o) == {i \in InviteIds : invites[i].state = "pending" /\ invites[i].org = o}

At(r, pc) == req[r].pc = pc
Set(r, q) == req' = [req EXCEPT ![r] = q]
Unlocked(r, o) == \A s \in Requests \ {r} : o \notin req[s].orgs
FreeRows(r, S) == \A s \in Requests \ {r} : req[s].rows \intersect S = {}

-----------------------------------------------------------------------------
\* Invitations.  What one that is not pending was for is not read, and left out.

Closed(state) == [NoInvite EXCEPT !.state = state]

\* assertCanAdd() with the pending ones, outside the transaction that inserts; one
\* that is sent again is made again without it.
Invite(r, o, u, role) ==
    /\ At(r, "idle") /\ Admins(o) # {} /\ Unlocked(r, o)
    /\ \/ Cardinality(Members(o)) + Cardinality(Pending(o)) < Limits[o]
       \/ \E i \in Pending(o) : invites[i].user = u /\ invites[i].role = role
    /\ Set(r, [Idle EXCEPT !.pc = "invite", !.org = o, !.user = u, !.role = role, !.invite = Newest])
    /\ UNCHANGED <<exists, member, owned, invites>>

\* One UPDATE revokes what is pending for the address by then, another statement
\* inserts the new one; by the commit there may be one more.
CreateInvite(r) ==
    LET q == req[r]  new == Newest + 1 IN
    /\ q.pc = "invite" /\ q.org \in exists /\ new <= MaxInvites
    /\ \E seen \in q.invite .. Newest :
        invites' = [i \in InviteIds |->
            IF i = new THEN [state |-> "pending", org |-> q.org, user |-> q.user, role |-> q.role]
            ELSE IF i <= seen /\ i \in Pending(q.org) /\ invites[i].user = q.user
                 THEN Closed("revoked") ELSE invites[i]]
    /\ Set(r, Idle)
    /\ UNCHANGED <<exists, member, owned>>

\* One that was accepted stays so.
RevokeInvite(i) ==
    /\ invites[i].state = "pending" /\ Admins(invites[i].org) # {}
    /\ invites' = [invites EXCEPT ![i] = Closed("revoked")]
    /\ UNCHANGED <<exists, member, owned, req>>

-----------------------------------------------------------------------------
\* acceptInviteInto() and markInviteAccepted().

Accept(r, i) ==
    /\ At(r, "idle") /\ invites[i].state = "pending"
    /\ Set(r, [Idle EXCEPT !.pc = "own", !.invite = i, !.user = invites[i].user,
                           !.org = invites[i].org, !.role = invites[i].role])
    /\ UNCHANGED <<exists, member, owned, invites>>

\* The one membership of the user.
LockOwn(r) ==
    LET q == req[r]  current == member[q.user] IN
    /\ q.pc = "own" /\ FreeRows(r, {q.user})
    /\ Set(r, [q EXCEPT !.was = current, !.rows = IF current.org = None THEN {} ELSE {q.user},
                        !.pc = IF current.org = q.org THEN "spend" ELSE "room"])
    /\ UNCHANGED <<exists, member, owned, invites>>

After(q) == IF q.was.org = None THEN "join" ELSE "others"

\* Mutant: the organization is read without its lock.
RoomUnlocked(r) ==
    LET q == req[r] IN
    /\ q.pc = "room" /\ Unlocked(r, q.org)
    /\ q.org \in exists => Cardinality(Members(q.org)) < Limits[q.org]
    /\ Set(r, [q EXCEPT !.pc = After(q)])
    /\ UNCHANGED <<exists, member, owned, invites>>

\* assertCanAdd(): the organization locked, its limit and its members read.
Room(r) ==
    LET q == req[r] IN
    /\ q.pc = "room" /\ Unlocked(r, q.org)
    /\ q.org \in exists => Cardinality(Members(q.org)) < Limits[q.org]
    /\ Set(r, [q EXCEPT !.pc = After(q), !.orgs = {q.org} \intersect exists])
    /\ UNCHANGED <<exists, member, owned, invites>>

\* Those who stay, locked: the organization left keeps an administrator and its
\* connections.
Others(r) ==
    LET q == req[r]  others == Members(q.was.org) \ {q.user} IN
    /\ q.pc = "others" /\ FreeRows(r, others)
    /\ q.was.org \notin owned
    /\ q.was.role = "admin" /\ others # {} => others \intersect Admins(q.was.org) # {}
    /\ Set(r, [q EXCEPT !.pc = "join", !.alone = others = {}, !.rows = @ \union others])
    /\ UNCHANGED <<exists, member, owned, invites>>

\* Mutant: an invitation outlives its organization.
OutlivesOrg(i, dropped) == invites[i]

\* Deleted with its organization.
WithOrg(i, dropped) == IF invites[i].org \in dropped THEN Closed("gone") ELSE invites[i]

\* Mutant: whether the invitation was revoked is not asked again.
SpentRevoked(i) == invites[i].state \in {"pending", "revoked"}

\* markInviteAccepted() finds it pending.
Spent(i) == invites[i].state = "pending"

\* An organization nobody is left in is deleted: it waits for the row, a connection
\* restricts it, and whatever is in it by then goes with it.
Join(r) ==
    LET q == req[r]
        dropped == IF q.alone THEN {q.was.org} ELSE {}
    IN  /\ q.pc = "join" /\ q.org \in exists /\ Spent(q.invite)
        /\ q.was.org = None => member[q.user].org = None
        /\ \A o \in dropped : Unlocked(r, o) /\ o \notin owned /\ FreeRows(r, Members(o))
        /\ exists' = exists \ dropped
        /\ member' = [u \in Users |-> IF u = q.user THEN [org |-> q.org, role |-> q.role]
                                      ELSE IF member[u].org \in dropped THEN Nobody ELSE member[u]]
        /\ invites' = [i \in InviteIds |->
               IF i = q.invite THEN Closed("accepted") ELSE WithOrg(i, dropped)]
        /\ Set(r, Idle)
        /\ UNCHANGED owned

\* The user is there already.
Spend(r) ==
    LET i == req[r].invite IN
    /\ At(r, "spend") /\ Spent(i)
    /\ invites' = [invites EXCEPT ![i] = Closed("accepted")]
    /\ Set(r, Idle)
    /\ UNCHANGED <<exists, member, owned>>

-----------------------------------------------------------------------------
\* changeMemberRole() and removeMember(), of a member read before.

Demotes(q) == q.was.role = "admin" /\ q.role # "admin"

\* The role asked for, None to remove; the checks the page makes first.
AskMember(r, u, role) ==
    LET o == member[u].org
        q == [Idle EXCEPT !.pc = "lock", !.user = u, !.org = o, !.role = role, !.was = member[u]]
    IN  /\ At(r, "idle") /\ o # None /\ Admins(o) # {} /\ role # member[u].role
        /\ role # None /\ Demotes(q) => Cardinality(Admins(o)) > 1
        /\ Set(r, q)
        /\ UNCHANGED <<exists, member, owned, invites>>

\* Mutant: the administrators are counted, not locked.
CountAdmins(r) ==
    LET q == req[r] IN
    /\ q.pc = "lock" /\ FreeRows(r, Members(q.org))
    /\ Fresh => member[q.user] = q.was
    /\ Demotes(q) => Cardinality(Admins(q.org)) > 1
    /\ Set(r, [q EXCEPT !.pc = "write"])
    /\ UNCHANGED <<exists, member, owned, invites>>

\* lockOrgAdmins() and assertAdminSurvives(), by the role read before.
LockAdmins(r) ==
    LET q == req[r] IN
    /\ q.pc = "lock" /\ FreeRows(r, Members(q.org))
    /\ Fresh => member[q.user] = q.was
    /\ Demotes(q) => Cardinality(Admins(q.org)) > 1
    /\ Set(r, [q EXCEPT !.pc = "write", !.rows = Members(q.org)])
    /\ UNCHANGED <<exists, member, owned, invites>>

\* By the id of the membership, which it keeps in another organization.
WriteMember(r) ==
    LET q == req[r] IN
    /\ q.pc = "write" /\ FreeRows(r, {q.user})
    /\ member' = IF member[q.user].org = None THEN member
                 ELSE [member EXCEPT ![q.user] = IF q.role = None THEN Nobody ELSE [@ EXCEPT !.role = q.role]]
    /\ Set(r, Idle)
    /\ UNCHANGED <<exists, owned, invites>>

-----------------------------------------------------------------------------
\* A connection is provisioned after the administrator was checked, which takes
\* long; its row needs the organization.
AskConnection(r, o) ==
    /\ At(r, "idle") /\ Admins(o) # {} /\ o \notin owned
    /\ Set(r, [Idle EXCEPT !.pc = "provision", !.org = o])
    /\ UNCHANGED <<exists, member, owned, invites>>

Provision(r) ==
    /\ At(r, "provision") /\ req[r].org \in exists /\ Unlocked(r, req[r].org)
    /\ owned' = owned \union {req[r].org}
    /\ Set(r, Idle)
    /\ UNCHANGED <<exists, member, invites>>

Abort(r) ==
    /\ ~At(r, "idle") /\ Set(r, Idle)
    /\ UNCHANGED <<exists, member, owned, invites>>

-----------------------------------------------------------------------------
Request(r) ==
    \/ \E o \in exists, u \in Users, role \in Roles : Invite(r, o, u, role)
    \/ CreateInvite(r)
    \/ \E i \in InviteIds : Accept(r, i)
    \/ LockOwn(r) \/ Room(r) \/ Others(r) \/ Join(r) \/ Spend(r)
    \/ \E u \in Users, role \in Roles \union {None} : AskMember(r, u, role)
    \/ LockAdmins(r) \/ WriteMember(r)
    \/ \E o \in exists : AskConnection(r, o)
    \/ Provision(r) \/ Abort(r)

Next ==
    \/ \E r \in Requests : Request(r)
    \/ \E i \in InviteIds : RevokeInvite(i)

Spec == Init /\ [][Next]_vars

-----------------------------------------------------------------------------
\* The shape of the state; a membership, a pending invitation and a connection have
\* an organization.
TypeOK ==
    /\ exists \subseteq Orgs /\ owned \subseteq exists
    /\ member \in [Users -> [org : exists \union {None}, role : Roles]]
    /\ \A i \in InviteIds : invites[i].state = "pending" => invites[i].org \in exists
    /\ DOMAIN req = Requests

\* "This is the whole last-admin guard" (org.ts:407): no order of demotions,
\* removals and departures leaves an organization without an administrator, or
\* its connections without one who can reach them.
AdminRemains == \A o \in exists : Admins(o) # {}

\* "Every join goes through here" (org.ts:555): nobody comes into an organization
\* that is full when they come, by invitations accepted at one time.
JoinsHaveRoom ==
    [][\A o \in exists : Cardinality(Members(o)') > Cardinality(Members(o)) => Cardinality(Members(o)') <= Limits[o]]_vars

\* A code that was revoked, replaced or used brings nobody in, also when that
\* happens while it is being accepted (invites.ts:301-304).
OnlyPendingJoins ==
    [][\A u \in Users : member'[u].org \notin {None, member[u].org} =>
        \E i \in InviteIds : /\ invites[i].state = "pending" /\ invites'[i].state = "accepted"
                             /\ invites[i].user = u /\ invites[i].org = member'[u].org]_vars
=============================================================================

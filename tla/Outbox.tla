------------------------------- MODULE Outbox -------------------------------
(***************************************************************************)
(* apps/cloud/src/outbox.ts and crm.ts: what the cloud service makes of    *)
(* app.hosted_events, the outbox the web app writes in the transaction of  *)
(* each account change.                                                    *)
(*                                                                         *)
(* Two tasks interleave at every await: the billing consumer and the CRM   *)
(* consumer, each with a cursor of its own.  An event's id is taken when   *)
(* it is inserted, and the event is visible when its transaction commits.  *)
(* The seats that the billing consumer also syncs are in module Billing.   *)
(*                                                                         *)
(* What is stored about a user is a version number; Brevo's contact has    *)
(* the version it was sent last.                                           *)
(***************************************************************************)
EXTENDS Integers, FiniteSets, FiniteSetsExt

CONSTANTS
    Users,
    Known,        \* users whose address has a contact in Brevo before they sign up
    Configured,   \* the deployments: sets of consumers that have their settings
    InOrder,      \* whether transactions commit in the order of their event ids
    Batch,        \* BATCH
    MaxEvents,    \* bound: events written
    MaxFaults     \* bound: calls that fail and passes that end early; outages end

ASSUME OutboxAssumption ==
    /\ Users # {} /\ Known \subseteq Users
    /\ Configured \subseteq SUBSET {"billing", "crm"}
    /\ Batch \in Nat \ {0} /\ MaxEvents \in Nat /\ MaxFaults \in Nat

VARIABLES
    runs,       \* the consumers of this deployment
    events,     \* app.hosted_events, by id: [type, user, ver]
    members,    \* of the one organization that stays
    data,       \* data[u]: version of what app.users and its organization say of u
    cursor,     \* cloud.cursors, None before the first pass
    since,      \* where the billing cursor started
    task,       \* the pass each consumer is in
    cancelled,  \* deleted organizations whose subscriptions are cancelled
    contact,    \* Brevo: [exists, ours, ver, listed, left]
    skipped,    \* cloud.crm_skipped: version a refused contact was to have
    faults

vars == <<runs, events, members, data, cursor, since, task, cancelled, contact, skipped, faults>>

None == -1
Consumers == {"billing", "crm"}
\* user.signed_up, .email_changed, member.joined and .role_changed are about one
\* user's contact; the rest is what its name says.
Types == {"user", "removed", "plan", "org_deleted", "other"}
Ids == 1 .. MaxEvents

NoEvent == [type |-> "none", user |-> CHOOSE u \in Users : TRUE, ver |-> [u \in Users |-> 0]]
Idle == [pc |-> "idle", from |-> None, batch |-> {}, last |-> None,
         first |-> [u \in Users |-> None], loaded |-> [u \in Users |-> 0], step |-> "put"]

Init ==
    /\ runs \in Configured
    /\ events = [i \in Ids |-> NoEvent] /\ members = Users
    /\ data = [u \in Users |-> 0]
    /\ cursor = [c \in Consumers |-> None] /\ since = None
    /\ task = [t \in Consumers |-> Idle]
    /\ cancelled = {}
    /\ contact = [u \in Users |-> [exists |-> u \in Known, ours |-> FALSE, ver |-> 0, listed |-> FALSE, left |-> FALSE]]
    /\ skipped = [u \in Users |-> 0] /\ faults = 0

-----------------------------------------------------------------------------
\* The web app.

Committed == {i \in Ids : events[i].type # "none"}
Newest == IF Committed = {} THEN 0 ELSE Max(Committed)

\* Whose contact an event is about.
Named(e) ==
    CASE e.type \in {"user", "removed"} -> {e.user}
      [] e.type = "plan" -> members
      [] OTHER -> {}

Exists(type, u) ==
    CASE type = "user"    -> TRUE
      [] type = "removed" -> u \in members
      [] OTHER            -> u = CHOOSE v \in Users : TRUE

\* The change and its event become visible together, when the transaction that
\* took the id commits.
Commit(i, type, u) ==
    /\ i \notin Committed
    /\ InOrder => i = Newest + 1
    /\ Exists(type, u)
    /\ LET named == Named([type |-> type, user |-> u])
       IN  /\ data' = [v \in Users |-> IF v \in named THEN data[v] + 1 ELSE data[v]]
           /\ events' = [events EXCEPT ![i] = [type |-> type, user |-> u, ver |->
                            [v \in Users |-> IF v \in named THEN data'[v] ELSE 0]]]
    /\ members' = IF type = "removed" THEN members \ {u} ELSE members
    /\ UNCHANGED <<runs, cursor, since, task, cancelled, contact, skipped, faults>>

-----------------------------------------------------------------------------
\* What both consumers do: read the cursor, then a batch.

At(t, pc) == task[t].pc = pc
Set(t, r) == task' = [task EXCEPT ![t] = r]
Goto(t, pc) == task' = [task EXCEPT ![t].pc = pc]
Web == <<runs, events, members, data>>
App == <<Web, faults>>

Fault == faults < MaxFaults /\ faults' = faults + 1

FirstOf(S) == {i \in S : Cardinality({j \in S : j < i}) < Batch}

ReadCursor(c) ==
    /\ c \in runs /\ At(c, "idle")
    /\ LET from == IF cursor[c] # None THEN cursor[c] ELSE IF c = "billing" THEN Newest ELSE 0
       IN  /\ Set(c, [Idle EXCEPT !.pc = "read", !.from = from, !.last = from])
           /\ cursor' = [cursor EXCEPT ![c] = from]
           /\ since' = IF c = "billing" /\ cursor[c] = None THEN from ELSE since
    /\ UNCHANGED <<App, cancelled, contact, skipped>>

ReadEvents(c) ==
    /\ At(c, "read")
    /\ LET batch == FirstOf({i \in Committed : i > task[c].from})
       IN  Set(c, IF batch = {} THEN Idle
                  ELSE [task[c] EXCEPT !.pc = IF c = "billing" THEN "scan" ELSE "touch", !.batch = batch])
    /\ UNCHANGED <<App, cursor, since, cancelled, contact, skipped>>

Advance(c) ==
    /\ At(c, "advance")
    /\ cursor' = IF task[c].last > task[c].from THEN [cursor EXCEPT ![c] = task[c].last] ELSE cursor
    /\ Set(c, Idle)
    /\ UNCHANGED <<App, since, cancelled, contact, skipped>>

-----------------------------------------------------------------------------
\* consumeBillingEvents(): the events in order, then the cursor.

Billing == task["billing"]
Deleted(S) == {i \in S : events[i].type = "org_deleted"}

\* The events the pass has behind it at the next cancellation, or at the end.
Scanned == {i \in Billing.batch : \A d \in Deleted(Billing.batch) : i <= d}

Behind(done, rest) ==
    [Billing EXCEPT !.last = IF done = {} THEN @ ELSE Max(done), !.batch = rest,
                    !.pc = IF rest = {} THEN "advance" ELSE "scan"]

\* Mutant: only the events billing acts on move the cursor.
ScanIgnores ==
    /\ At("billing", "scan") /\ Deleted(Billing.batch) = {}
    /\ Set("billing", Behind({i \in Billing.batch : events[i].type = "removed"}, {}))
    /\ UNCHANGED <<App, cursor, since, cancelled, contact, skipped>>

\* No cancellation is left in the batch.
Scan ==
    /\ At("billing", "scan") /\ Deleted(Billing.batch) = {}
    /\ Set("billing", Behind(Billing.batch, {}))
    /\ UNCHANGED <<App, cursor, since, cancelled, contact, skipped>>

CancelOk ==
    /\ At("billing", "scan") /\ Deleted(Billing.batch) # {}
    /\ cancelled' = cancelled \union Deleted(Scanned)
    /\ Set("billing", Behind(Scanned, Billing.batch \ Scanned))
    /\ UNCHANGED <<App, cursor, since, contact, skipped>>

\* Mutant: a cancellation that fails is passed over.
CancelFailsGoesOn ==
    /\ At("billing", "scan") /\ Deleted(Billing.batch) # {}
    /\ Set("billing", Behind(Scanned, Billing.batch \ Scanned))
    /\ UNCHANGED <<App, cursor, since, cancelled, contact, skipped>>

\* The cursor stops before the cancellation; the events before it are done.
CancelFails ==
    /\ Fault
    /\ At("billing", "scan") /\ Deleted(Billing.batch) # {}
    /\ Set("billing", Behind(Scanned \ Deleted(Scanned), {}))
    /\ UNCHANGED <<Web, cursor, since, cancelled, contact, skipped>>

-----------------------------------------------------------------------------
\* consumeCrmEvents(): whom the batch is about, what is stored of them now, and
\* then a contact at a time in the order of the first event that names it.

Crm == task["crm"]
Left == {u \in Users : Crm.first[u] # None}

Touch ==
    /\ At("crm", "touch")
    /\ Set("crm", [Crm EXCEPT !.pc = "load", !.last = Max(Crm.batch), !.batch = {}, !.first = [u \in Users |->
           LET ids == {i \in Crm.batch : u \in Named(events[i])} IN IF ids = {} THEN None ELSE Min(ids)]])
    /\ UNCHANGED <<App, cursor, since, cancelled, contact, skipped>>

Load ==
    /\ At("crm", "load")
    /\ Set("crm", [Crm EXCEPT !.pc = "call", !.loaded = [u \in Users |-> IF u \in Left THEN data[u] ELSE 0]])
    /\ UNCHANGED <<App, cursor, since, cancelled, contact, skipped>>

AllCalled ==
    /\ At("crm", "call") /\ Left = {}
    /\ Goto("crm", "advance")
    /\ UNCHANGED <<App, cursor, since, cancelled, contact, skipped>>

Current(u) ==
    /\ At("crm", "call") /\ Left # {}
    /\ u = CHOOSE v \in Left : \A w \in Left : Crm.first[v] <= Crm.first[w]

\* upsert() in three calls: update the contact with our id; without one, create
\* it; if its address has a contact, claim that.
Updates(u) == Crm.step = "put" /\ contact[u].ours
Creates(u) == Crm.step = "claim" \/ (Crm.step = "post" /\ ~contact[u].exists)

\* Mutant: every call sets the lists.
EffectLists(u) ==
    IF Updates(u) \/ Creates(u)
    THEN [contact EXCEPT ![u] = [exists |-> TRUE, ours |-> TRUE, ver |-> Crm.loaded[u], listed |-> TRUE, left |-> @.left]]
    ELSE contact

\* What a call changes in Brevo; lists are set where a contact is created or claimed.
Effect(u) ==
    IF Updates(u) \/ Creates(u)
    THEN [contact EXCEPT ![u] = [exists |-> TRUE, ours |-> TRUE, ver |-> Crm.loaded[u],
                                 listed |-> Creates(u) \/ @.listed, left |-> @.left]]
    ELSE contact

Following(u) ==
    CASE Crm.step = "put" /\ ~contact[u].ours   -> "post"
      [] Crm.step = "post" /\ contact[u].exists -> "claim"
      [] OTHER -> "done"

NextUser(u) == [Crm EXCEPT !.first[u] = None, !.loaded[u] = 0, !.step = "put"]

CallOk(u) ==
    /\ Current(u)
    /\ contact' = Effect(u)
    /\ Set("crm", IF Following(u) = "done" THEN NextUser(u) ELSE [Crm EXCEPT !.step = Following(u)])
    /\ UNCHANGED <<App, cursor, since, cancelled, skipped>>

\* Refused for good: recorded and passed over.
CallRefused(u) ==
    /\ Current(u)
    /\ skipped' = [skipped EXCEPT ![u] = Crm.loaded[u]]
    /\ Set("crm", NextUser(u))
    /\ UNCHANGED <<App, cursor, since, cancelled, contact>>

\* Mutant: the cursor stops at the event, not before it, and the loop forgets nothing.
CallFailsAtEvent(u) ==
    /\ Fault
    /\ Current(u)
    /\ contact' \in {contact, Effect(u)}
    /\ Set("crm", [Crm EXCEPT !.pc = "advance", !.last = Crm.first[u]])
    /\ UNCHANGED <<Web, cursor, since, cancelled, skipped>>

\* No answer (the call may have worked), a rate limit or a wrong key: the cursor
\* stops just before the first event naming this user.
CallFails(u) ==
    /\ Fault
    /\ Current(u)
    /\ contact' \in {contact, Effect(u)}
    /\ Set("crm", [Idle EXCEPT !.pc = "advance", !.from = Crm.from, !.last = Crm.first[u] - 1])
    /\ UNCHANGED <<Web, cursor, since, cancelled, skipped>>

-----------------------------------------------------------------------------
\* Somebody leaves the list in Brevo.
Unsubscribe(u) ==
    /\ contact[u].listed
    /\ contact' = [contact EXCEPT ![u].listed = FALSE, ![u].left = TRUE]
    /\ UNCHANGED <<App, cursor, since, task, cancelled, skipped>>

\* A restart, or a statement that throws, ends a pass: what it did stays, what it
\* knew is gone.
PassEnds(c) ==
    /\ Fault /\ ~At(c, "idle")
    /\ Set(c, Idle)
    /\ UNCHANGED <<runs, events, members, data, cursor, since, cancelled, contact, skipped>>

-----------------------------------------------------------------------------
Consume(c) == ReadCursor(c) \/ ReadEvents(c) \/ Advance(c)

BillingStep == Consume("billing") \/ Scan \/ CancelOk \/ CancelFails
CrmStep ==
    \/ Consume("crm") \/ Touch \/ Load \/ AllCalled
    \/ \E u \in Users : CallOk(u) \/ CallRefused(u) \/ CallFails(u)

Next ==
    \/ \E i \in Ids, type \in Types, u \in Users : Commit(i, type, u)
    \/ BillingStep \/ CrmStep
    \/ \E u \in Users : Unsubscribe(u)
    \/ \E c \in Consumers : PassEnds(c)

Spec == Init /\ [][Next]_vars

\* The passes come again and again (setInterval); faults are bounded, so a call
\* that is made again and again works in the end.
Fairness == WF_vars(BillingStep) /\ WF_vars(CrmStep)

FairSpec == Spec /\ Fairness

-----------------------------------------------------------------------------
\* The shape of the state; what a CRM pass knows of users ends with its calls.
TypeOK ==
    /\ runs \subseteq Consumers
    /\ events \in [Ids -> [type : Types \union {"none"}, user : Users, ver : [Users -> Nat]]]
    /\ members \subseteq Users /\ data \in [Users -> Nat]
    /\ cursor \in [Consumers -> {None} \union Nat] /\ since \in {None} \union Nat
    /\ DOMAIN task = Consumers /\ cancelled \subseteq Ids
    /\ contact \in [Users -> [exists : BOOLEAN, ours : BOOLEAN, ver : Nat, listed : BOOLEAN, left : BOOLEAN]]
    /\ skipped \in [Users -> Nat] /\ faults \in 0 .. MaxFaults
    /\ \A u \in Users : contact[u].ours => contact[u].exists
    /\ Crm.pc \notin {"load", "call"} => Left = {}

\* "A cancellation that fails stops the cursor at that event, nothing else would
\* ever cancel it" (outbox.ts:20-22): what the cursor has passed is cancelled,
\* through failures in the middle of a batch and faults.
DeletedIsCancelled ==
    \A i \in Deleted(Committed) : since # None /\ since < i /\ i <= cursor["billing"] => i \in cancelled

\* The cursor of the CRM passes an event when every contact it names has been sent
\* what the event changed, or a refusal of it is recorded (outbox.ts:31-34), or an
\* event not passed yet names the contact again (a member removed meanwhile).
ContactsFollow ==
    \A i \in Committed, u \in Users :
        i <= cursor["crm"] =>
            \/ events[i].ver[u] <= contact[u].ver \/ events[i].ver[u] <= skipped[u]
            \/ \E j \in Committed : cursor["crm"] < j /\ events[i].ver[u] < events[j].ver[u]

\* "Lists are set only when a contact is created or claimed, so an unsubscribe in
\* Brevo is never undone" (crm.ts:20-22), also when an answer is lost, or the
\* process ends between the call and the cursor, and the call is made again.
UnsubscribeStays == \A u \in Users : contact[u].left => ~contact[u].listed

\* "Every event moves the cursor, including the ones billing ignores"
\* (outbox.ts:81-83): each consumer gets past each event.
Consumed ==
    \A i \in Ids, c \in Consumers :
        (c \in runs /\ i \in Committed) ~> (cursor[c] >= i)
=============================================================================

------------------------------ MODULE Billing ------------------------------
(***************************************************************************)
(* apps/cloud/src/billing.ts with the callers of it in http.ts, main.ts    *)
(* and outbox.ts: one organization, its members, and what Stripe holds for *)
(* it.                                                                     *)
(*                                                                         *)
(* Every call to Stripe and every statement is a step.  A syncer is one    *)
(* run of syncOrg() and syncSeats(): a webhook delivery, the hourly        *)
(* reconcile (which overlaps itself when it is slow) or a return from the  *)
(* Checkout page.  All of them may be started at any time, repeated or     *)
(* lost.  A checkout is one administrator's way to a subscription, with    *)
(* the Checkout page open for as long as Stripe keeps it.                  *)
(*                                                                         *)
(* Left out: trial_used and the trial's dates (written with the status),   *)
(* seats_billed (written, never read), the portal and the summary (read    *)
(* only; what is done in the portal is ChangeStatus).                      *)
(***************************************************************************)
EXTENDS Integers, FiniteSets, FiniteSetsExt

CONSTANTS
    Syncers,       \* runs of syncOrg() and syncSeats() at one time
    Checkouts,     \* checkouts at one time
    Included,      \* INCLUDED_SEATS
    MaxMembers,    \* bound
    MaxSubs,       \* bound: subscriptions ever begun
    MaxCustomers,  \* bound: customers ever created
    MaxChanges     \* bound: joins, removals, changes of a subscription's status, and
                   \* calls that fail or runs that end early (outages end)

ASSUME BillingAssumption ==
    /\ Included \in Nat /\ MaxMembers \in Nat \ {0} /\ MaxSubs \in Nat
    /\ MaxCustomers \in Nat /\ MaxChanges \in Nat
    /\ Syncers \intersect Checkouts = {}
    /\ "consumer" \notin Syncers \union Checkouts

VARIABLES
    org,        \* its row: [exists, customer, sub, status]
    members,
    joined,     \* the outbox has a join or a removal the consumer has not passed
    deletion,   \* org.deleted in the outbox: "none", "pending" or "passed"
    customers,  \* Stripe: customers created, numbered from 1
    subs,       \* Stripe: subs[i] = [customer, status, seats]
    task,
    charged,    \* subscriptions there were when the cancellation that passed began
    changes     \* bounded by MaxChanges

vars == <<org, members, joined, deletion, customers, subs, task, charged, changes>>
stripe == <<customers, subs>>
web == <<members, deletion, changes>>

None == 0
Tasks == Syncers \union Checkouts \union {"consumer"}
SubIds == 1 .. MaxSubs

\* "active" stands for trialing and past_due too; "unpaid" for the rest that Stripe
\* charges and that is not Pro.
Pro == {"active"}
Live == {"active", "unpaid"}
Statuses == Live \union {"canceled"}

NoSub == [customer |-> None, status |-> "none", seats |-> 0]
\* customer of a checkout; sub, status: of syncOrg()'s answer; want, have: seats;
\* left, todo, before: customers to list, subscriptions to cancel, all there were.
Idle == [pc |-> "idle", customer |-> None, sub |-> None, status |-> "none", want |-> 0,
         have |-> 0, left |-> {}, todo |-> {}, before |-> {}]

Init ==
    /\ org = [exists |-> TRUE, customer |-> None, sub |-> None, status |-> "none"]
    /\ members = 1 /\ joined = FALSE /\ deletion = "none"
    /\ customers = 0 /\ subs = [i \in SubIds |-> NoSub]
    /\ task = [t \in Tasks |-> Idle]
    /\ charged = {} /\ changes = 0

At(t, pc) == task[t].pc = pc
Set(t, r) == task' = [task EXCEPT ![t] = r]
Goto(t, pc) == task' = [task EXCEPT ![t].pc = pc]

Begun == {i \in SubIds : subs[i].status # "none"}
LiveOf(c) == {i \in Begun : subs[i].customer = c /\ subs[i].status \in Live}
BillableSeats(m) == IF m > Included THEN m - Included ELSE 0

-----------------------------------------------------------------------------
\* The organization's people.

Changed == changes < MaxChanges /\ changes' = changes + 1

\* Free has one member, Pro any number.
Join ==
    /\ Changed /\ org.exists /\ members < MaxMembers
    /\ org.status \in Pro
    /\ members' = members + 1 /\ joined' = TRUE
    /\ UNCHANGED <<org, deletion, stripe, task, charged>>

Remove ==
    /\ Changed /\ org.exists /\ members > 1
    /\ members' = members - 1 /\ joined' = TRUE
    /\ UNCHANGED <<org, deletion, stripe, task, charged>>

\* Its only member accepts an invitation into another organization.
DeleteOrg ==
    /\ org.exists /\ members = 1
    /\ org' = [exists |-> FALSE, customer |-> None, sub |-> None, status |-> "none"]
    /\ members' = 0 /\ deletion' = "pending"
    /\ UNCHANGED <<joined, stripe, task, charged, changes>>

\* A charge that fails, one that works again, a cancellation in the portal.
ChangeStatus(i, status) ==
    /\ Changed /\ subs[i].status \in Live \ {status}
    /\ subs' = [subs EXCEPT ![i].status = status]
    /\ UNCHANGED <<org, members, joined, deletion, customers, task, charged>>

-----------------------------------------------------------------------------
\* checkout()

CheckoutRead(t) ==
    /\ At(t, "idle") /\ org.exists
    /\ Set(t, [Idle EXCEPT !.customer = org.customer, !.pc = IF org.customer = None THEN "create" ELSE "list"])
    /\ UNCHANGED <<org, joined, web, stripe, charged>>

\* Stripe answers an idempotency key it remembers with the customer it created
\* then, and forgets keys.
CreateCustomer(t) ==
    /\ At(t, "create")
    /\ \E c \in (customers .. customers + 1) \ {None} :
        /\ c <= MaxCustomers
        /\ customers' = c
        /\ Set(t, [task[t] EXCEPT !.pc = "claim", !.customer = c])
    /\ UNCHANGED <<org, joined, web, subs, charged>>

\* Mutant: the customer is written over the one another checkout wrote.
ClaimOver(t) ==
    /\ At(t, "claim")
    /\ org' = IF org.exists THEN [org EXCEPT !.customer = task[t].customer] ELSE org
    /\ Set(t, IF org.exists THEN [task[t] EXCEPT !.pc = "list"] ELSE Idle)
    /\ UNCHANGED <<joined, web, stripe, charged>>

\* The conditional UPDATE, and the read of what another checkout wrote.
ClaimCustomer(t) ==
    /\ At(t, "claim")
    /\ org' = IF org.exists /\ org.customer = None THEN [org EXCEPT !.customer = task[t].customer] ELSE org
    /\ Set(t, IF org.exists THEN [task[t] EXCEPT !.pc = "list", !.customer = org'.customer] ELSE Idle)
    /\ UNCHANGED <<joined, web, stripe, charged>>

\* A live subscription refuses the checkout.
ListLive(t) ==
    /\ At(t, "list")
    /\ Set(t, IF LiveOf(task[t].customer) # {} THEN Idle ELSE [task[t] EXCEPT !.pc = "session"])
    /\ UNCHANGED <<org, joined, web, stripe, charged>>

OpenSession(t) ==
    /\ At(t, "session")
    /\ Set(t, [task[t] EXCEPT !.pc = "open", !.want = BillableSeats(members)])
    /\ UNCHANGED <<org, joined, web, stripe, charged>>

\* In the browser: paid, or left until Stripe closes it.
Complete(t) ==
    /\ At(t, "open")
    /\ \E i \in SubIds \ Begun :
        /\ \A j \in SubIds \ Begun : i <= j
        /\ subs' = [subs EXCEPT ![i] = [customer |-> task[t].customer, status |-> "active", seats |-> task[t].want]]
    /\ Set(t, Idle)
    /\ UNCHANGED <<org, joined, web, customers, charged>>

Expire(t) ==
    /\ At(t, "open") /\ Set(t, Idle)
    /\ UNCHANGED <<org, joined, web, stripe, charged>>

-----------------------------------------------------------------------------
\* syncOrg(), then syncSeats().

Rank(status) == CASE status = "active" -> 1 [] status = "unpaid" -> 2 [] OTHER -> 3

\* The best status first, then the newest.
Best(S) == CHOOSE i \in S : \A j \in S \ {i} :
    Rank(subs[i].status) < Rank(subs[j].status) \/ (Rank(subs[i].status) = Rank(subs[j].status) /\ i > j)

\* The webhook knows the organization by its customer, the reconcile goes through
\* those that have one.
ListSubs(t) ==
    /\ At(t, "idle") /\ org.exists /\ org.customer # None
    /\ LET all == {i \in Begun : subs[i].customer = org.customer}
       IN  Set(t, IF all = {} THEN [Idle EXCEPT !.pc = "write"]
                  ELSE [Idle EXCEPT !.pc = "write", !.sub = Best(all), !.status = subs[Best(all)].status])
    /\ UNCHANGED <<org, joined, web, stripe, charged>>

\* Mutant: an organization that has a subscription keeps it.
WriteFirst(t) ==
    /\ At(t, "write")
    /\ org' = IF org.exists /\ org.sub = None THEN [org EXCEPT !.sub = task[t].sub, !.status = task[t].status] ELSE org
    /\ Set(t, [Idle EXCEPT !.pc = "seats"])
    /\ UNCHANGED <<joined, web, stripe, charged>>

\* The status, and with it the limits of the plan.
WriteOrg(t) ==
    /\ At(t, "write")
    /\ org' = IF org.exists THEN [org EXCEPT !.sub = task[t].sub, !.status = task[t].status] ELSE org
    /\ Set(t, [Idle EXCEPT !.pc = "seats"])
    /\ UNCHANGED <<joined, web, stripe, charged>>

Leave(t) == Set(t, Idle)

CountSeats(t) ==
    /\ At(t, "seats")
    /\ Set(t, IF org.exists /\ org.status \in Pro /\ org.sub # None
              THEN [Idle EXCEPT !.pc = "retrieve", !.sub = org.sub, !.want = BillableSeats(members)]
              ELSE Idle)
    /\ UNCHANGED <<org, joined, web, stripe, charged>>

RetrieveSeats(t) ==
    /\ At(t, "retrieve")
    /\ LET have == subs[task[t].sub].seats
       IN  Set(t, IF have = task[t].want THEN Idle ELSE [task[t] EXCEPT !.pc = "modify", !.have = have])
    /\ UNCHANGED <<org, joined, web, stripe, charged>>

\* What Stripe accepts: nothing of a canceled subscription, no second seat item,
\* and no change to one that is gone.
Accepted(i, have) ==
    /\ subs[i].status # "canceled"
    /\ have = 0 <=> subs[i].seats = 0

\* Mutant: the seat item is never removed.
ModifyKeepsItem(t) ==
    /\ At(t, "modify")
    /\ subs' = IF Accepted(task[t].sub, task[t].have) /\ task[t].want > 0
               THEN [subs EXCEPT ![task[t].sub].seats = task[t].want] ELSE subs
    /\ Leave(t)
    /\ UNCHANGED <<org, joined, web, customers, charged>>

\* The item is created, updated or removed, or Stripe refuses.
ModifySeats(t) ==
    /\ At(t, "modify")
    /\ subs' = IF Accepted(task[t].sub, task[t].have)
               THEN [subs EXCEPT ![task[t].sub].seats = task[t].want] ELSE subs
    /\ Leave(t)
    /\ UNCHANGED <<org, joined, web, customers, charged>>

-----------------------------------------------------------------------------
\* The billing consumer (the passes of it are in Outbox): cancellations, then seats.

ConsumeJoins ==
    /\ At("consumer", "idle") /\ joined
    /\ joined' = FALSE /\ Set("consumer", [Idle EXCEPT !.pc = "seats"])
    /\ UNCHANGED <<org, web, stripe, charged>>

\* cancelForDeletedOrg(): the customers that carry the organization's id...
SearchCustomers ==
    /\ At("consumer", "idle") /\ deletion = "pending"
    /\ Set("consumer", [Idle EXCEPT !.pc = "cancel", !.left = 1 .. customers, !.before = Begun])
    /\ UNCHANGED <<org, joined, web, stripe, charged>>

\* Mutant: what Pro allows is taken for what is charged.
ListPro ==
    LET c == task["consumer"] IN
    /\ c.pc = "cancel" /\ c.todo = {} /\ c.left # {}
    /\ Set("consumer", [c EXCEPT !.left = @ \ {Min(c.left)},
                                 !.todo = {i \in LiveOf(Min(c.left)) : subs[i].status \in Pro}])
    /\ UNCHANGED <<org, joined, web, stripe, charged>>

\* ...the subscriptions of one...
ListCustomer ==
    LET c == task["consumer"] IN
    /\ c.pc = "cancel" /\ c.todo = {} /\ c.left # {}
    /\ Set("consumer", [c EXCEPT !.left = @ \ {Min(c.left)}, !.todo = LiveOf(Min(c.left))])
    /\ UNCHANGED <<org, joined, web, stripe, charged>>

\* ...and each of them; one that has ended meanwhile is an error, and the event is
\* taken again.
CancelSub ==
    LET c == task["consumer"] IN
    /\ c.pc = "cancel" /\ c.todo # {}
    /\ LET i == Min(c.todo) IN
        IF subs[i].status = "canceled" THEN subs' = subs /\ Leave("consumer")
        ELSE subs' = [subs EXCEPT ![i].status = "canceled"] /\ Set("consumer", [c EXCEPT !.todo = @ \ {i}])
    /\ UNCHANGED <<org, joined, web, customers, charged>>

AllCanceled ==
    LET c == task["consumer"] IN
    /\ c.pc = "cancel" /\ c.todo = {} /\ c.left = {}
    /\ deletion' = "passed" /\ charged' = c.before
    /\ Leave("consumer")
    /\ UNCHANGED <<org, members, joined, stripe, changes>>

\* A call that fails, or a restart.  A webhook is answered 500, the reconcile and the
\* administrator come again; a page that is open stays so.
Fails(t) ==
    /\ Changed
    /\ task[t].pc \notin {"idle", "open"}
    /\ Leave(t)
    /\ UNCHANGED <<org, members, joined, deletion, stripe, charged>>

-----------------------------------------------------------------------------
SyncSeats(t) == CountSeats(t) \/ RetrieveSeats(t) \/ ModifySeats(t)
Sync(t) == ListSubs(t) \/ WriteOrg(t) \/ SyncSeats(t)
Checkout(t) ==
    \/ CheckoutRead(t) \/ CreateCustomer(t) \/ ClaimCustomer(t) \/ ListLive(t) \/ OpenSession(t)
    \/ Complete(t) \/ Expire(t)
Cancel == SearchCustomers \/ ListCustomer \/ CancelSub \/ AllCanceled
Consumer == ConsumeJoins \/ SyncSeats("consumer") \/ Cancel

Next ==
    \/ Join \/ Remove \/ DeleteOrg
    \/ \E i \in SubIds, status \in Statuses : ChangeStatus(i, status)
    \/ \E t \in Checkouts : Checkout(t)
    \/ \E t \in Syncers : Sync(t)
    \/ Consumer
    \/ \E t \in Tasks : Fails(t)

Spec == Init /\ [][Next]_vars

\* The reconcile comes every hour and the consumer's pass every few seconds; what is
\* under way goes on.
Fairness == (\A t \in Syncers : WF_vars(Sync(t))) /\ WF_vars(Consumer)

FairSpec == Spec /\ Fairness

-----------------------------------------------------------------------------
\* The shape of the state; a subscription has a customer that exists.
TypeOK ==
    /\ org \in [exists : BOOLEAN, customer : 0 .. MaxCustomers, sub : 0 .. MaxSubs, status : Statuses \union {"none"}]
    /\ members \in 0 .. MaxMembers /\ (members = 0 <=> ~org.exists)
    /\ joined \in BOOLEAN /\ deletion \in {"none", "pending", "passed"}
    /\ customers \in 0 .. MaxCustomers
    /\ DOMAIN task = Tasks /\ charged \subseteq SubIds
    /\ \A i \in SubIds : subs[i] \in [customer : 0 .. customers, status : Statuses \union {"none"}, seats : 0 .. MaxMembers]
    /\ org.exists => org.sub \in {None} \union {i \in Begun : subs[i].customer = org.customer}

\* "Two racing first calls get the same customer" and "only one of them writes it"
\* (billing.ts:119-122), whatever Stripe still remembers of the key: while the
\* organization exists every subscription is one that syncOrg() sees.
SubscriptionsAreSeen ==
    org.exists => \A i \in Begun : subs[i].customer = org.customer

\* "Cancel whatever an organization that no longer exists is still paying for"
\* (billing.ts:312): when the consumer has passed the deletion, nothing that was
\* there when it began to cancel is charged any more, through failures in between.
DeletedIsNotCharged ==
    deletion = "passed" => \A i \in charged : subs[i].status \notin Live

\* "Converge on Stripe's current answer" (billing.ts:229): when Stripe changes no
\* more, the organization ends with the status of its best subscription, whatever
\* order overlapping syncs wrote in.
StatusSettles ==
    <>[](org.exists => \A i \in Begun :
            /\ org.sub # None /\ subs[org.sub].status = org.status
            /\ Rank(org.status) <= Rank(subs[i].status))

\* "Seats follow membership" (billing.ts:28): in the end the subscription Pro rests
\* on is charged for the members there are, when a count was stale or a seat sync
\* failed as well.
SeatsSettle ==
    <>[](org.exists /\ org.status \in Pro => subs[org.sub].seats = BillableSeats(members))

\* What is written of the subscription and what is charged for settle both.
BillSettles == StatusSettles /\ SeatsSettle
=============================================================================

--------------------------- MODULE Billing_proofs ---------------------------
(* Proofs of what Billing keeps of subscriptions, for any number of syncs,    *)
(* checkouts, members, customers and subscriptions.                          *)
EXTENDS Billing, FiniteSetTheorems, TLAPS

-----------------------------------------------------------------------------
(* The invariants. *)

Pcs ==
    {"idle", "create", "claim", "list", "session", "open", "write", "seats", "retrieve", "modify", "cancel"}
Runs ==
    [pc : Pcs, customer : 0 .. MaxCustomers, sub : 0 .. MaxSubs, status : Statuses \union {"none"},
     want : 0 .. MaxMembers, have : 0 .. MaxMembers, left : SUBSET Nat, todo : SUBSET SubIds, before : SUBSET SubIds]
Subscriptions == [customer : 0 .. MaxCustomers, status : Statuses \union {"none"}, seats : 0 .. MaxMembers]

\* Whom syncOrg() may have found: nothing, or a subscription of the organization's customer.
Found == {None} \union {i \in Begun : subs[i].customer = org.customer}

\* A checkout has a customer, a seat sync a subscription, what a sync is about to write is
\* of this organization, and what is to be canceled was begun.
RunInv(t) ==
    /\ task[t].todo \subseteq Begun
    /\ task[t].pc \in {"claim", "list", "session", "open"} => task[t].customer \in 1 .. customers
    /\ task[t].pc \in {"retrieve", "modify"} => task[t].sub \in SubIds
    /\ task[t].pc = "write" /\ org.exists => org.customer # None /\ task[t].sub \in Found

\* What TypeOK leaves open: what is under way, and that whoever has begun a subscription
\* is a customer.
TypeInv ==
    /\ TypeOK
    /\ subs \in [SubIds -> Subscriptions]
    /\ task \in [Tasks -> Runs]
    /\ \A i \in Begun : subs[i].customer \in 1 .. customers
    /\ org.customer \in 0 .. customers
    /\ \A t \in Tasks : RunInv(t)

\* Every checkout that Stripe knows of is for the organization's customer.
SeenInv ==
    /\ SubscriptionsAreSeen
    /\ \A t \in Tasks : org.exists /\ task[t].pc \in {"list", "session", "open"} =>
         org.customer # None /\ task[t].customer = org.customer

\* While a cancellation is under way, what was there when it began and is charged still
\* is of a customer it has yet to list, or among what it has yet to cancel.
CancelInv ==
    LET c == task["consumer"] IN
    /\ deletion # "none" => ~org.exists
    /\ c.pc = "cancel" =>
        /\ deletion = "pending" /\ c.before \subseteq Begun
        /\ \A i \in c.before : subs[i].status \in Live => subs[i].customer \in c.left \/ i \in c.todo
    /\ charged \subseteq Begun
    /\ DeletedIsNotCharged

-----------------------------------------------------------------------------
(* Types. *)

\* Of finitely many numbers one is the largest: of the sets x..n one is minimal.
LEMMA LargestIs ==
    ASSUME NEW n \in Nat, NEW S \in SUBSET (1 .. n), S # {}
    PROVE  \E x \in S : \A y \in S : x >= y
PROOF
  <1> DEFINE T == {x .. n : x \in S}
             R == StrictSubsetOrdering(Nat)
  <1>1. \A x \in S : x \in Nat /\ x \in x .. n /\ x .. n \in SUBSET Nat /\ IsFiniteSet(x .. n)
    BY FS_Interval
  <1>2. T \subseteq FiniteSubsetsOf(Nat) /\ T # {}
    BY <1>1 DEF FiniteSubsetsOf
  <1>3. \E t \in T : \A u \in T : ~(<<u, t>> \in R)
    <2>1. IsWellFoundedOn(R, FiniteSubsetsOf(Nat))
      BY FS_StrictSubsetOrderingWellFounded
    <2> HIDE DEF T, R
    <2> QED BY <1>2, <2>1, WFMin
  <1>4. PICK x \in S : \A y \in S : ~(<<y .. n, x .. n>> \in R)
    BY <1>3
  <1>5. ASSUME NEW y \in S, y > x PROVE FALSE
    <2>1. y .. n \subseteq x .. n /\ x \notin y .. n
      BY <1>1, <1>5
    <2> QED BY <1>1, <1>4, <2>1 DEF StrictSubsetOrdering
  <1> QED BY <1>1, <1>5

\* and one is the smallest.
LEMMA LeastIs ==
    ASSUME NEW n \in Nat, NEW S \in SUBSET (1 .. n), S # {}
    PROVE  Min(S) \in S
PROOF
  <1> DEFINE T == {n + 1 - x : x \in S}
  <1>1. PICK t \in T : \A u \in T : t >= u
    <2>1. T \in SUBSET (1 .. n) /\ T # {}
      <3>1. \A x \in S : x \in 1 .. n /\ n + 1 - x \in 1 .. n
        OBVIOUS
      <3> QED BY <3>1
    <2> HIDE DEF T
    <2> QED BY <2>1, LargestIs
  <1>2. PICK x \in S : t = n + 1 - x
    BY <1>1
  <1>3. ASSUME NEW y \in S PROVE x <= y
    <2>1. n + 1 - y \in T /\ x \in 1 .. n /\ y \in 1 .. n
      OBVIOUS
    <2> HIDE DEF T
    <2> QED BY <1>1, <1>2, <2>1
  <1> QED BY <1>3 DEF Min

\* One subscription is the best: of those with the best status, the newest.
LEMMA BestIs ==
    ASSUME TypeInv, NEW S \in SUBSET Begun, S # {}
    PROVE  Best(S) \in S
PROOF
  <1> DEFINE Of(n) == {i \in S : Rank(subs[i].status) = n}
  <1>1. MaxSubs \in Nat /\ S \in SUBSET (1 .. MaxSubs)
    BY BillingAssumption DEF Begun, SubIds
  <1>2. \A i \in S : Rank(subs[i].status) \in 1 .. 3
    BY DEF Rank
  <1>3. PICK n \in 1 .. 3 : Of(n) # {} /\ \A m \in 1 .. n - 1 : Of(m) = {}
    <2>1. Of(1) # {} \/ Of(2) # {} \/ Of(3) # {}
      BY <1>2
    <2> QED BY <2>1
  <1>4. PICK i \in Of(n) : \A j \in Of(n) : i >= j
    BY <1>1, <1>3, LargestIs
  <1>5. ASSUME NEW j \in S \ {i}
        PROVE  Rank(subs[i].status) < Rank(subs[j].status) \/ (Rank(subs[i].status) = Rank(subs[j].status) /\ i > j)
    <2>1. Rank(subs[i].status) = n /\ Rank(subs[j].status) \in 1 .. 3 /\ j \in Of(Rank(subs[j].status))
      BY <1>2
    <2>2. Rank(subs[j].status) >= n
      BY <1>3, <2>1
    <2>3. i \in 1 .. MaxSubs /\ j \in 1 .. MaxSubs
      BY <1>1
    <2> QED BY <1>4, <2>1, <2>2, <2>3
  <1>6. i \in S
    OBVIOUS
  <1> HIDE DEF Of
  <1> QED BY <1>5, <1>6 DEF Best

LEMMA IdleType == Idle \in Runs /\ Idle.pc = "idle" /\ Idle.todo = {}
  BY BillingAssumption DEF Idle, Runs, Pcs, None

LEMMA SeatsType == members \in 0 .. MaxMembers => BillableSeats(members) \in 0 .. MaxMembers
  BY BillingAssumption DEF BillableSeats

LEMMA TypeInit == Init => TypeInv
PROOF
  <1> SUFFICES ASSUME Init PROVE TypeInv
    OBVIOUS
  <1> USE BillingAssumption DEF Init, None
  <1>1. org \in [exists : BOOLEAN, customer : 0 .. MaxCustomers, sub : 0 .. MaxSubs, status : Statuses \union {"none"}]
    OBVIOUS
  <1>2. NoSub \in Subscriptions /\ NoSub.status = "none" /\ NoSub.customer = 0 /\ NoSub.seats = 0
    BY DEF NoSub, Subscriptions
  <1>3. subs \in [SubIds -> Subscriptions] /\ Begun = {}
    BY <1>2 DEF Begun
  <1>4. \A i \in SubIds : subs[i] \in [customer : 0 .. customers, status : Statuses \union {"none"}, seats : 0 .. MaxMembers]
    BY DEF NoSub
  <1>5. task \in [Tasks -> Runs] /\ DOMAIN task = Tasks /\ \A t \in Tasks : task[t].pc = "idle"
    BY IdleType
  <1>6. TypeOK
    <2>1. org.exists = TRUE /\ org.sub = None /\ members = 1 /\ members \in 0 .. MaxMembers /\ customers \in 0 .. MaxCustomers
      OBVIOUS
    <2>2. joined \in BOOLEAN /\ deletion \in {"none", "pending", "passed"} /\ charged \subseteq SubIds
      OBVIOUS
    <2> QED BY ONLY <1>1, <1>4, <1>5, <2>1, <2>2 DEF TypeOK
  <1>7. \A t \in Tasks : RunInv(t)
    BY <1>5, IdleType DEF RunInv
  <1> QED BY <1>3, <1>5, <1>6, <1>7 DEF TypeInv

\* A task that becomes q.
LEMMA SetType ==
    ASSUME TypeInv, NEW t \in Tasks, NEW q \in Runs, Set(t, q)
    PROVE  /\ task' \in [Tasks -> Runs] /\ DOMAIN task' = Tasks
           /\ task'[t] = q /\ \A s \in Tasks \ {t} : task'[s] = task[s]
  BY DEF TypeInv, Set

\* What a task has stays right when customers and subscriptions are only added, and the
\* organization keeps its customer or goes.
LEMMA RunStays ==
    ASSUME NEW s \in Tasks, RunInv(s), task'[s] = task[s], customers \in Nat, customers' \in Nat, customers <= customers',
           org'.exists => org.exists /\ (org.customer # None => org'.customer = org.customer),
           \A i \in Begun : i \in Begun' /\ subs'[i].customer = subs[i].customer
    PROVE  RunInv(s)'
PROOF
  <1>1. org'.exists /\ org.customer # None /\ task[s].sub \in Found => task[s].sub \in Found'
    BY DEF Found
  <1> QED BY <1>1 DEF RunInv

\* The task alone has changed, or a thing that no type speaks of.
LEMMA OnlyTask ==
    ASSUME TypeInv, NEW t \in Tasks, NEW q \in Runs, Set(t, q), UNCHANGED <<org, members, customers, subs>>,
           joined' \in BOOLEAN, deletion' \in {"none", "pending", "passed"}, charged' \subseteq SubIds,
           q.todo \subseteq Begun, q.pc \in {"claim", "list", "session", "open"} => q.customer \in 1 .. customers,
           q.pc \in {"retrieve", "modify"} => q.sub \in SubIds,
           q.pc = "write" /\ org.exists => org.customer # None /\ q.sub \in Found
    PROVE  TypeInv'
PROOF
  <1>1. /\ task' \in [Tasks -> Runs] /\ DOMAIN task' = Tasks
        /\ task'[t] = q /\ \A s \in Tasks \ {t} : task'[s] = task[s]
    BY SetType
  <1>2. Begun' = Begun /\ Found' = Found
    BY DEF Begun, Found
  <1>3. \A s \in Tasks : RunInv(s)'
    BY <1>1, <1>2 DEF RunInv, TypeInv
  <1> QED BY <1>1, <1>2, <1>3 DEF TypeInv, TypeOK

LEMMA TypeStep == TypeInv /\ SeenInv /\ [Next]_vars => TypeInv'
PROOF
  <1> SUFFICES ASSUME TypeInv, SeenInv, [Next]_vars PROVE TypeInv'
    OBVIOUS
  <1>0. /\ BillingAssumption /\ None = 0 /\ Idle \in Runs /\ Idle.pc = "idle"
        /\ Idle.todo = {} /\ (\A t \in Tasks : task[t].todo \subseteq Begun) /\ task \in [Tasks -> Runs] /\ customers \in 0 .. MaxCustomers /\ members \in 0 .. MaxMembers
        /\ joined \in BOOLEAN /\ deletion \in {"none", "pending", "passed"} /\ charged \subseteq SubIds
        /\ subs \in [SubIds -> Subscriptions] /\ (\A i \in Begun : subs[i].customer \in 1 .. customers)
        /\ org \in [exists : BOOLEAN, customer : 0 .. MaxCustomers, sub : 0 .. MaxSubs, status : Statuses \union {"none"}]
        /\ org.customer \in 0 .. customers /\ BillableSeats(members) \in 0 .. MaxMembers
    BY BillingAssumption, IdleType, SeatsType DEF TypeInv, TypeOK, None, RunInv
  <1>1. ASSUME NEW t \in Tasks, Set(t, Idle), UNCHANGED <<org, members, customers, subs>>,
               joined' \in BOOLEAN, deletion' \in {"none", "pending", "passed"}, charged' \subseteq SubIds
        PROVE  TypeInv'
    BY <1>0, <1>1, OnlyTask
  <1>2. ASSUME NEW t \in Tasks, CheckoutRead(t) PROVE TypeInv'
    <2> DEFINE q == [Idle EXCEPT !.customer = org.customer, !.pc = IF org.customer = None THEN "create" ELSE "list"]
    <2>1. q \in Runs /\ q.todo = {} /\ q.customer = org.customer /\ q.pc = IF org.customer = None THEN "create" ELSE "list"
      BY <1>0 DEF Runs, Pcs
    <2>2. Set(t, q) /\ UNCHANGED <<org, members, joined, deletion, customers, subs, charged>>
      BY <1>2 DEF CheckoutRead, web, stripe
    <2> HIDE DEF q
    <2> QED BY <1>0, <2>1, <2>2, OnlyTask
  <1>3. ASSUME NEW t \in Tasks, CreateCustomer(t) PROVE TypeInv'
    <2>1. PICK c \in (customers .. customers + 1) \ {None} :
            c <= MaxCustomers /\ customers' = c /\ Set(t, [task[t] EXCEPT !.pc = "claim", !.customer = c])
      BY <1>3 DEF CreateCustomer
    <2> DEFINE q == [task[t] EXCEPT !.pc = "claim", !.customer = c]
    <2>2. q \in Runs /\ q.pc = "claim" /\ q.customer = c /\ q.todo = task[t].todo
      <3>1. task[t] \in Runs /\ c \in 0 .. MaxCustomers
        BY <1>0, <2>1
      <3> QED BY <3>1 DEF Runs, Pcs
    <2>3. UNCHANGED <<org, members, joined, deletion, subs, charged>> /\ Begun' = Begun /\ Found' = Found
      BY <1>3 DEF CreateCustomer, web, Begun, Found
    <2> HIDE DEF q
    <2>4. task' \in [Tasks -> Runs] /\ DOMAIN task' = Tasks /\ task'[t] = q /\ \A s \in Tasks \ {t} : task'[s] = task[s]
      BY <2>1, <2>2, SetType DEF q
    <2>5. \A s \in Tasks : RunInv(s)'
      BY <1>0, <2>1, <2>2, <2>3, <2>4 DEF RunInv, TypeInv
    <2>6. TypeOK'
      BY <1>0, <2>1, <2>3, <2>4 DEF TypeInv, TypeOK
    <2> QED BY <1>0, <2>1, <2>3, <2>4, <2>5, <2>6 DEF TypeInv
  <1>4. ASSUME NEW t \in Tasks, ClaimCustomer(t) PROVE TypeInv'
    <2> DEFINE q == IF org.exists THEN [task[t] EXCEPT !.pc = "list", !.customer = org'.customer] ELSE Idle
    <2>1. /\ org' = IF org.exists /\ org.customer = None THEN [org EXCEPT !.customer = task[t].customer] ELSE org
          /\ Set(t, q) /\ UNCHANGED <<members, joined, deletion, customers, subs, charged>> /\ Begun' = Begun
      BY <1>4 DEF ClaimCustomer, web, stripe, Begun
    <2>2. task[t].customer \in 1 .. customers
      BY <1>4 DEF ClaimCustomer, At, TypeInv, RunInv
    <2>3. /\ org' \in [exists : BOOLEAN, customer : 0 .. MaxCustomers, sub : 0 .. MaxSubs, status : Statuses \union {"none"}]
          /\ org'.exists = org.exists /\ org'.sub = org.sub /\ org'.customer \in 0 .. customers
          /\ org.customer # None => org'.customer = org.customer
          /\ org.exists => org'.customer \in 1 .. customers
      BY <1>0, <2>1, <2>2
    <2>4. q \in Runs /\ (org.exists => q.pc = "list" /\ q.customer = org'.customer) /\ (~org.exists => q = Idle) /\ q.todo \in {{}, task[t].todo}
      <3>1. task[t] \in Runs /\ org'.customer \in 0 .. MaxCustomers
        BY <1>0, <2>3
      <3> QED BY <1>0, <3>1 DEF Runs, Pcs
    <2> HIDE DEF q
    <2>5. task' \in [Tasks -> Runs] /\ DOMAIN task' = Tasks /\ task'[t] = q /\ \A s \in Tasks \ {t} : task'[s] = task[s]
      BY <2>1, <2>4, SetType
    <2>6. \A s \in Tasks \ {t} : RunInv(s)'
      <3>1. \A i \in Begun : i \in Begun' /\ subs'[i].customer = subs[i].customer
        BY <2>1
      <3> QED BY <1>0, <2>1, <2>3, <2>5, <3>1, RunStays DEF TypeInv
    <2>7. RunInv(t)'
      BY <1>0, <2>1, <2>3, <2>4, <2>5 DEF RunInv
    <2>8. org'.exists => org'.sub \in Found'
      <3>1. CASE org.customer = None /\ org.exists
        BY <1>0, <2>1, <2>3, <3>1 DEF SeenInv, SubscriptionsAreSeen, TypeInv, TypeOK, Found
      <3>2. CASE org.customer # None
        BY <2>1, <2>3, <3>2 DEF TypeInv, TypeOK, Found
      <3> QED BY <2>3, <3>1, <3>2
    <2>9. TypeOK'
      BY <1>0, <2>1, <2>3, <2>5, <2>8 DEF TypeInv, TypeOK, Found
    <2> QED BY <1>0, <2>1, <2>3, <2>5, <2>6, <2>7, <2>9 DEF TypeInv
  <1>5. ASSUME NEW t \in Tasks, ListLive(t) \/ OpenSession(t) \/ Expire(t) PROVE TypeInv'
    <2>0. task[t] \in Runs /\ UNCHANGED <<org, members, joined, deletion, customers, subs, charged>>
      BY <1>0, <1>5 DEF ListLive, OpenSession, Expire, web, stripe
    <2>1. task[t].pc \in {"list", "session", "open"} => task[t].customer \in 1 .. customers
      BY DEF TypeInv, RunInv
    <2>2. CASE Set(t, Idle)
      BY <1>0, <1>1, <2>0, <2>2
    <2>3. CASE ListLive(t) /\ Set(t, [task[t] EXCEPT !.pc = "session"])
      <3> DEFINE q == [task[t] EXCEPT !.pc = "session"]
      <3>1. q \in Runs /\ q.pc = "session" /\ q.todo = task[t].todo /\ q.customer = task[t].customer /\ At(t, "list") /\ Set(t, q)
        BY <2>0, <2>3 DEF Runs, Pcs, ListLive
      <3> HIDE DEF q
      <3> QED BY <1>0, <2>0, <2>1, <3>1, OnlyTask DEF At
    <2>4. CASE OpenSession(t)
      <3> DEFINE q == [task[t] EXCEPT !.pc = "open", !.want = BillableSeats(members)]
      <3>1. q \in Runs /\ q.pc = "open" /\ q.todo = task[t].todo /\ q.customer = task[t].customer /\ At(t, "session") /\ Set(t, q)
        BY <1>0, <2>0, <2>4 DEF Runs, Pcs, OpenSession
      <3> HIDE DEF q
      <3> QED BY <1>0, <2>0, <2>1, <3>1, OnlyTask DEF At
    <2> QED BY <1>5, <2>2, <2>3, <2>4 DEF ListLive, Expire
  <1>6. ASSUME NEW t \in Tasks, Complete(t) PROVE TypeInv'
    <2>1. PICK i \in SubIds \ Begun : /\ \A j \in SubIds \ Begun : i <= j
            /\ subs' = [subs EXCEPT ![i] = [customer |-> task[t].customer, status |-> "active", seats |-> task[t].want]]
      BY <1>6 DEF Complete
    <2>2. Set(t, Idle) /\ UNCHANGED <<org, members, joined, deletion, customers, charged>>
      BY <1>6 DEF Complete, web
    <2>3. task[t].customer \in 1 .. customers /\ task[t].want \in 0 .. MaxMembers
      BY <1>0, <1>6 DEF Complete, At, TypeInv, RunInv, Runs
    <2>4. /\ \A j \in SubIds : subs'[j] = IF j = i THEN [customer |-> task[t].customer, status |-> "active", seats |-> task[t].want]
                                          ELSE subs[j]
          /\ DOMAIN subs' = SubIds
      BY <1>0, <2>1
    <2>5. subs' \in [SubIds -> Subscriptions] /\ \A j \in SubIds : subs'[j].customer \in 0 .. customers
      <3>1. [customer |-> task[t].customer, status |-> "active", seats |-> task[t].want] \in Subscriptions
        BY <1>0, <2>3 DEF Subscriptions, Statuses, Live
      <3>2. \A j \in SubIds : subs[j].customer \in 0 .. customers
        BY DEF TypeInv, TypeOK
      <3>3. \A j \in SubIds : subs'[j] \in Subscriptions
        BY <1>0, <2>4, <3>1
      <3>4. subs' = [j \in SubIds |-> subs'[j]]
        BY <2>1, <1>0
      <3> QED BY <2>3, <2>4, <3>2, <3>3, <3>4
    <2>6. Begun' = Begun \union {i} /\ (\A j \in Begun : subs'[j] = subs[j]) /\ subs'[i].customer \in 1 .. customers
      BY <2>1, <2>3, <2>4 DEF Begun
    <2>7. task' \in [Tasks -> Runs] /\ DOMAIN task' = Tasks /\ task'[t] = Idle /\ \A s \in Tasks \ {t} : task'[s] = task[s]
      BY <1>0, <2>2, SetType
    <2>8. \A s \in Tasks \ {t} : RunInv(s)'
      BY <1>0, <2>2, <2>6, <2>7, RunStays DEF TypeInv
    <2>9. RunInv(t)'
      BY <1>0, <2>7 DEF RunInv
    <2>10. TypeOK'
      BY <1>0, <2>2, <2>5, <2>6, <2>7 DEF TypeInv, TypeOK, Subscriptions
    <2> QED BY <1>0, <2>2, <2>5, <2>6, <2>7, <2>8, <2>9, <2>10 DEF TypeInv
  <1>7. ASSUME NEW t \in Tasks, ListSubs(t) PROVE TypeInv'
    <2> DEFINE all == {i \in Begun : subs[i].customer = org.customer}
               q == IF all = {} THEN [Idle EXCEPT !.pc = "write"]
                    ELSE [Idle EXCEPT !.pc = "write", !.sub = Best(all), !.status = subs[Best(all)].status]
    <2>1. Set(t, q) /\ UNCHANGED <<org, members, joined, deletion, customers, subs, charged>> /\ org.customer # None
      BY <1>7 DEF ListSubs, web, stripe
    <2>2. all # {} => Best(all) \in all
      BY BestIs
    <2>3. q \in Runs /\ q.pc = "write" /\ q.sub \in Found /\ q.todo = {}
      <3>1. CASE all = {}
        BY <1>0, <3>1 DEF Runs, Pcs, Found, Idle
      <3>2. CASE all # {}
        <4>1. Best(all) \in SubIds /\ Best(all) \in Found /\ Best(all) \in 0 .. MaxSubs
          BY <1>0, <2>2, <3>2 DEF Begun, Found, SubIds
        <4>2. subs[Best(all)].status \in Statuses \union {"none"}
          BY <1>0, <4>1 DEF Subscriptions
        <4> HIDE DEF all
        <4> QED BY <1>0, <3>2, <4>1, <4>2 DEF Runs, Pcs
      <3> QED BY <3>1, <3>2
    <2> HIDE DEF q
    <2> QED BY <1>0, <2>1, <2>3, OnlyTask
  <1>8. ASSUME NEW t \in Tasks, WriteOrg(t) PROVE TypeInv'
    <2> DEFINE q == [Idle EXCEPT !.pc = "seats"]
    <2>1. /\ org' = IF org.exists THEN [org EXCEPT !.sub = task[t].sub, !.status = task[t].status] ELSE org
          /\ Set(t, q) /\ UNCHANGED <<members, joined, deletion, customers, subs, charged>> /\ Begun' = Begun
      BY <1>8 DEF WriteOrg, web, stripe, Begun
    <2>2. q \in Runs /\ q.pc = "seats" /\ q.todo = {}
      BY <1>0 DEF Runs, Pcs
    <2>3. /\ org' \in [exists : BOOLEAN, customer : 0 .. MaxCustomers, sub : 0 .. MaxSubs, status : Statuses \union {"none"}]
          /\ org'.exists = org.exists /\ org'.customer = org.customer /\ (org.exists => org'.sub = task[t].sub)
      <3>1. task[t].sub \in 0 .. MaxSubs /\ task[t].status \in Statuses \union {"none"}
        BY <1>0 DEF Runs
      <3> QED BY <1>0, <2>1, <3>1
    <2> HIDE DEF q
    <2>4. task' \in [Tasks -> Runs] /\ DOMAIN task' = Tasks /\ task'[t] = q /\ \A s \in Tasks \ {t} : task'[s] = task[s]
      BY <2>1, <2>2, SetType
    <2>5. Found' = Found
      BY <2>1, <2>3 DEF Found
    <2>6. \A s \in Tasks : RunInv(s)'
      BY <2>1, <2>2, <2>3, <2>4, <2>5 DEF RunInv, TypeInv
    <2>7. org'.exists => org'.sub \in Found'
      BY <1>8, <2>3, <2>5 DEF TypeInv, RunInv, WriteOrg, At
    <2>8. TypeOK'
      BY <2>1, <2>3, <2>4, <2>7 DEF TypeInv, TypeOK, Found
    <2> QED BY <2>1, <2>3, <2>4, <2>6, <2>8 DEF TypeInv
  <1>9. ASSUME NEW t \in Tasks, SyncSeats(t) PROVE TypeInv'
    <2>0. task[t] \in Runs /\ UNCHANGED <<org, members, joined, deletion, customers, charged>>
      BY <1>0, <1>9 DEF SyncSeats, CountSeats, RetrieveSeats, ModifySeats, web, stripe
    <2>1. CASE CountSeats(t) /\ ~Set(t, Idle)
      <3> DEFINE q == [Idle EXCEPT !.pc = "retrieve", !.sub = org.sub, !.want = BillableSeats(members)]
      <3>1. Set(t, q) /\ org.sub # None /\ UNCHANGED subs
        BY <2>1 DEF CountSeats, stripe
      <3>2. org.sub \in SubIds /\ org.sub \in 0 .. MaxSubs
        BY <1>0, <3>1 DEF SubIds
      <3>3. q \in Runs /\ q.pc = "retrieve" /\ q.todo = {} /\ q.sub \in SubIds
        BY <1>0, <3>2 DEF Runs, Pcs
      <3> HIDE DEF q
      <3> QED BY <1>0, <2>0, <3>1, <3>3, OnlyTask
    <2>2. CASE RetrieveSeats(t) /\ ~Set(t, Idle)
      <3> DEFINE have == subs[task[t].sub].seats
                 q == [task[t] EXCEPT !.pc = "modify", !.have = have]
      <3>1. Set(t, q) /\ UNCHANGED subs
        BY <2>2 DEF RetrieveSeats, stripe
      <3>2. task[t].sub \in SubIds /\ have \in 0 .. MaxMembers
        BY <1>0, <2>2 DEF TypeInv, RunInv, RetrieveSeats, At, Subscriptions
      <3> HIDE DEF have
      <3>3. q \in Runs /\ q.pc = "modify" /\ q.todo = task[t].todo /\ q.sub \in SubIds
        BY <2>0, <3>2 DEF Runs, Pcs
      <3> HIDE DEF q
      <3> QED BY <1>0, <2>0, <3>1, <3>3, OnlyTask
    <2>3. CASE ModifySeats(t)
      <3>1. /\ Set(t, Idle) /\ subs' \in {subs, [subs EXCEPT ![task[t].sub].seats = task[t].want]}
        BY <2>3 DEF ModifySeats, Leave
      <3>2. task[t].want \in 0 .. MaxMembers
        BY <2>0 DEF Runs
      <3>3. /\ subs' \in [SubIds -> Subscriptions]
            /\ \A j \in SubIds : subs'[j].customer = subs[j].customer /\ subs'[j].status = subs[j].status
        BY <1>0, <3>1, <3>2 DEF Subscriptions
      <3>4. Begun' = Begun /\ Found' = Found
        BY <2>0, <3>3 DEF Begun, Found
      <3>5. task' \in [Tasks -> Runs] /\ DOMAIN task' = Tasks /\ task'[t] = Idle /\ \A s \in Tasks \ {t} : task'[s] = task[s]
        BY <1>0, <3>1, SetType
      <3>6. \A s \in Tasks : RunInv(s)'
        BY <1>0, <2>0, <3>4, <3>5 DEF RunInv, TypeInv
      <3>7. TypeOK'
        BY <2>0, <3>3, <3>4, <3>5 DEF TypeInv, TypeOK, Subscriptions, Found
      <3> QED BY <2>0, <3>3, <3>4, <3>5, <3>6, <3>7 DEF TypeInv, Begun
    <2>4. CASE (CountSeats(t) \/ RetrieveSeats(t)) /\ Set(t, Idle)
      BY <1>0, <1>1, <2>0, <2>4 DEF CountSeats, RetrieveSeats, stripe
    <2> QED BY <1>9, <2>1, <2>2, <2>3, <2>4 DEF SyncSeats
  <1>10. ASSUME Consumer PROVE TypeInv'
    <2> DEFINE c == task["consumer"]
    <2>0. "consumer" \in Tasks /\ c \in Runs
      BY <1>0 DEF Tasks
    <2>1. CASE ConsumeJoins
      <3> DEFINE q == [Idle EXCEPT !.pc = "seats"]
      <3>1. q \in Runs /\ q.pc = "seats" /\ q.todo = {} /\ Set("consumer", q)
        BY <1>0, <2>1 DEF Runs, Pcs, ConsumeJoins
      <3> HIDE DEF q
      <3> QED BY <1>0, <2>0, <2>1, <3>1, OnlyTask DEF ConsumeJoins, web, stripe
    <2>2. CASE SearchCustomers
      <3> DEFINE q == [Idle EXCEPT !.pc = "cancel", !.left = 1 .. customers, !.before = Begun]
      <3>1. q \in Runs /\ q.pc = "cancel" /\ q.todo = {} /\ Set("consumer", q)
        <4>1. 1 .. customers \in SUBSET Nat /\ Begun \in SUBSET SubIds
          BY <1>0 DEF Begun
        <4> QED BY <1>0, <2>2, <4>1 DEF Runs, Pcs, SearchCustomers
      <3> HIDE DEF q
      <3> QED BY <1>0, <2>0, <2>2, <3>1, OnlyTask DEF SearchCustomers, web, stripe
    <2>3. CASE ListCustomer
      <3> DEFINE q == [c EXCEPT !.left = @ \ {Min(c.left)}, !.todo = LiveOf(Min(c.left))]
      <3>1. q \in Runs /\ q.pc = "cancel" /\ q.todo \subseteq Begun /\ Set("consumer", q)
        <4>1. LiveOf(Min(c.left)) \in SUBSET SubIds /\ LiveOf(Min(c.left)) \subseteq Begun /\ c.left \ {Min(c.left)} \in SUBSET Nat /\ c.pc = "cancel"
          BY <1>0, <2>0, <2>3 DEF LiveOf, Begun, SubIds, Runs, ListCustomer
        <4>2. Set("consumer", q)
          BY <2>3 DEF ListCustomer
        <4> HIDE DEF c
        <4> QED BY <2>0, <4>1, <4>2 DEF Runs, Pcs
      <3> HIDE DEF q
      <3> QED BY <1>0, <2>0, <2>3, <3>1, OnlyTask DEF ListCustomer, web, stripe
    <2>4. CASE CancelSub
      <3> DEFINE i == Min(c.todo)
                 q == [c EXCEPT !.todo = @ \ {i}]
      <3>1. i \in Begun /\ i \in SubIds /\ c.pc = "cancel" /\ c.todo \subseteq Begun
        <4>1. c.todo \in SUBSET (1 .. MaxSubs) /\ c.todo # {} /\ c.todo \subseteq Begun /\ MaxSubs \in Nat
          BY <1>0, <2>0, <2>4 DEF Runs, SubIds, TypeInv, RunInv, CancelSub
        <4>2. Min(c.todo) \in c.todo
          BY <4>1, LeastIs
        <4> QED BY <2>4, <4>1, <4>2 DEF Begun, CancelSub
      <3>2. /\ subs' = subs \/ subs' = [subs EXCEPT ![i].status = "canceled"]
            /\ Set("consumer", Idle) \/ Set("consumer", q)
            /\ UNCHANGED <<org, members, joined, deletion, customers, charged>>
        BY <2>4 DEF CancelSub, Leave, web
      <3>3. q \in Runs /\ q.pc = "cancel" /\ q.todo = c.todo \ {i}
        BY <2>0, <3>1 DEF Runs
      <3> HIDE DEF q, i
      <3>4. PICK r \in Runs : Set("consumer", r) /\ r.pc \in {"idle", "cancel"} /\ r.todo \subseteq Begun
        BY <1>0, <3>1, <3>2, <3>3
      <3>5. task' \in [Tasks -> Runs] /\ DOMAIN task' = Tasks /\ task'["consumer"] = r
            /\ \A s \in Tasks \ {"consumer"} : task'[s] = task[s]
        BY <2>0, <3>4, SetType
      <3>6. /\ subs' \in [SubIds -> Subscriptions]
            /\ \A j \in SubIds : subs'[j].customer = subs[j].customer
            /\ \A j \in SubIds : subs[j].status # "none" <=> subs'[j].status # "none"
        BY <1>0, <3>1, <3>2 DEF Subscriptions, Statuses, Begun
      <3>7. Begun' = Begun /\ Found' = Found
        BY <3>2, <3>6 DEF Begun, Found
      <3>8. \A s \in Tasks : RunInv(s)'
        BY <3>2, <3>4, <3>5, <3>7 DEF RunInv, TypeInv
      <3>9. TypeOK'
        BY <3>2, <3>5, <3>6, <3>7 DEF TypeInv, TypeOK, Subscriptions, Found
      <3> QED BY <3>2, <3>5, <3>6, <3>7, <3>8, <3>9 DEF TypeInv, Begun
    <2>5. CASE AllCanceled
      BY <1>0, <1>1, <2>0, <2>5 DEF AllCanceled, Leave, stripe, Runs
    <2> QED BY <1>9, <1>10, <2>0, <2>1, <2>2, <2>3, <2>4, <2>5 DEF Consumer, Cancel
  <1>11. ASSUME NEW t \in Tasks, Fails(t) PROVE TypeInv'
    BY <1>0, <1>1, <1>11 DEF Fails, Leave, stripe
  <1>12. ASSUME Join \/ Remove \/ DeleteOrg PROVE TypeInv'
    <2>0. UNCHANGED <<customers, subs, task, charged>> /\ Begun' = Begun
      BY <1>12 DEF Join, Remove, DeleteOrg, stripe, Begun
    <2>1. CASE Join \/ Remove
      <3>1. UNCHANGED <<org, deletion>> /\ joined' = TRUE /\ members' \in 0 .. MaxMembers
            /\ (members' = 0 <=> ~org.exists)
        BY <1>0, <2>1 DEF Join, Remove
      <3>2. Found' = Found
        BY <2>0, <3>1 DEF Found
      <3> QED BY <2>0, <3>1, <3>2 DEF TypeInv, TypeOK, RunInv, Found
    <2>2. CASE DeleteOrg
      <3>1. /\ org' = [exists |-> FALSE, customer |-> 0, sub |-> 0, status |-> "none"]
            /\ UNCHANGED joined /\ deletion' = "pending" /\ members' = 0
        BY <1>0, <2>2 DEF DeleteOrg
      <3>2. org' \in [exists : BOOLEAN, customer : 0 .. MaxCustomers, sub : 0 .. MaxSubs, status : Statuses \union {"none"}]
            /\ ~org'.exists /\ org'.customer \in 0 .. customers
        BY <1>0, <3>1
      <3>3. TypeOK'
        BY <1>0, <2>0, <3>1, <3>2 DEF TypeInv, TypeOK
      <3>4. \A s \in Tasks : RunInv(s)'
        BY <2>0, <3>2 DEF TypeInv, RunInv
      <3> QED BY <1>0, <2>0, <3>2, <3>3, <3>4 DEF TypeInv
    <2> QED BY <1>12, <2>1, <2>2
  <1>13. ASSUME NEW i \in SubIds, NEW status \in Statuses, ChangeStatus(i, status) PROVE TypeInv'
    <2>1. UNCHANGED <<org, members, joined, deletion, customers, task, charged>>
      BY <1>13 DEF ChangeStatus
    <2>2. /\ subs' \in [SubIds -> Subscriptions]
          /\ \A j \in SubIds : subs'[j].customer = subs[j].customer
          /\ \A j \in SubIds : subs[j].status # "none" <=> subs'[j].status # "none"
      BY <1>0, <1>13 DEF ChangeStatus, Subscriptions, Statuses, Live
    <2>3. Begun' = Begun /\ Found' = Found
      BY <2>1, <2>2 DEF Begun, Found
    <2>4. \A s \in Tasks : RunInv(s)'
      BY <2>1, <2>3 DEF RunInv, TypeInv
    <2>5. TypeOK'
      BY <2>1, <2>2, <2>3 DEF TypeInv, TypeOK, Subscriptions, Found
    <2> QED BY <2>1, <2>2, <2>3, <2>4, <2>5 DEF TypeInv, Begun
  <1>14. CASE UNCHANGED vars
    BY <1>14 DEF vars, TypeInv, TypeOK, RunInv, Found, Begun
  <1>15. ASSUME NEW t \in Tasks, Checkout(t) \/ Sync(t) PROVE TypeInv'
    BY <1>2, <1>3, <1>4, <1>5, <1>6, <1>7, <1>8, <1>9, <1>15 DEF Checkout, Sync
  <1> QED BY <1>10, <1>11, <1>12, <1>13, <1>14, <1>15 DEF Next, Tasks

-----------------------------------------------------------------------------
(* What any step may change. *)

\* A subscription stays its customer's, and one that has ended is never charged again.
LEMMA SubsStep ==
    ASSUME TypeInv, [Next]_vars
    PROVE  \A i \in Begun : /\ i \in Begun' /\ subs'[i].customer = subs[i].customer
                            /\ subs'[i].status \in Live => subs[i].status \in Live
PROOF
  <1> DEFINE Kept == \A i \in Begun : /\ i \in Begun' /\ subs'[i].customer = subs[i].customer
                                      /\ subs'[i].status \in Live => subs[i].status \in Live
  <1>0. subs \in [SubIds -> Subscriptions]
    BY DEF TypeInv
  <1>1. subs' = subs => Kept
    BY DEF Begun
  <1>2. \A t \in Tasks : Complete(t) => Kept
    BY <1>0 DEF Complete, Begun, Subscriptions
  <1>3. \A t \in Tasks : ModifySeats(t) => Kept
    BY <1>0 DEF ModifySeats, Begun, Subscriptions
  <1>4. CancelSub => Kept
    BY <1>0 DEF CancelSub, Begun, Subscriptions, Live
  <1>5. \A i \in SubIds, status \in Statuses : ChangeStatus(i, status) => Kept
    BY <1>0 DEF ChangeStatus, Begun, Subscriptions, Statuses, Live
  <1>6. \A t \in Tasks : SyncSeats(t) => Kept
    BY <1>1, <1>3 DEF SyncSeats, CountSeats, RetrieveSeats, stripe
  <1>7. \A t \in Tasks : Sync(t) => Kept
    BY <1>1, <1>6 DEF Sync, ListSubs, WriteOrg, stripe
  <1>8. \A t \in Tasks : Checkout(t) => Kept
    BY <1>1, <1>2 DEF Checkout, CheckoutRead, CreateCustomer, ClaimCustomer, ListLive, OpenSession, Expire, stripe
  <1>9. Consumer => Kept
    BY <1>1, <1>4, <1>6 DEF Consumer, ConsumeJoins, Cancel, SearchCustomers, ListCustomer, AllCanceled, stripe, Tasks
  <1>10. Join \/ Remove \/ DeleteOrg \/ UNCHANGED vars \/ (\E t \in Tasks : Fails(t)) => Kept
    BY <1>1 DEF Join, Remove, DeleteOrg, vars, Fails, stripe
  <1> HIDE DEF Kept
  <1>11. Kept
    BY <1>5, <1>7, <1>8, <1>9, <1>10 DEF Next, Tasks
  <1> QED BY <1>11 DEF Kept

\* A checkout or a sync leaves the consumer and the deletion alone.
LEMMA OthersStep ==
    ASSUME TypeInv, NEW t \in Tasks, t # "consumer", Checkout(t) \/ Sync(t)
    PROVE  /\ task'["consumer"] = task["consumer"] /\ UNCHANGED <<deletion, charged>>
           /\ org'.exists = org.exists
PROOF
  <1>0. /\ org \in [exists : BOOLEAN, customer : 0 .. MaxCustomers, sub : 0 .. MaxSubs, status : Statuses \union {"none"}]
        /\ "consumer" \in Tasks /\ task \in [Tasks -> Runs]
    BY DEF TypeInv, TypeOK, Tasks
  <1>1. \A q : Set(t, q) => task'["consumer"] = task["consumer"]
    BY <1>0 DEF Set
  <1>2. CASE Checkout(t)
    BY <1>0, <1>1, <1>2 DEF Checkout, CheckoutRead, CreateCustomer, ClaimCustomer, ListLive, OpenSession, Complete, Expire, web
  <1>3. CASE Sync(t)
    BY <1>0, <1>1, <1>3 DEF Sync, ListSubs, WriteOrg, SyncSeats, CountSeats, RetrieveSeats, ModifySeats, Leave, web
  <1> QED BY <1>2, <1>3

-----------------------------------------------------------------------------
(* Subscriptions and the organization they are for. *)

LEMMA SeenInit == Init => SeenInv
  BY IdleType DEF Init, SeenInv, SubscriptionsAreSeen, Begun, NoSub, Idle

\* The organization and who began what stay, and one task becomes q.
LEMMA SeenStays ==
    ASSUME TypeInv, SeenInv, NEW t \in Tasks, NEW q \in Runs, Set(t, q), org'.exists = org.exists,
           org'.customer = org.customer, \A i \in Begun' : i \in Begun /\ subs'[i].customer = subs[i].customer,
           org.exists /\ q.pc \in {"list", "session", "open"} => org.customer # None /\ q.customer = org.customer
    PROVE  SeenInv'
  BY SetType DEF SeenInv, SubscriptionsAreSeen

LEMMA SeenStep == TypeInv /\ SeenInv /\ [Next]_vars => SeenInv'
PROOF
  <1> SUFFICES ASSUME TypeInv, SeenInv, [Next]_vars PROVE SeenInv'
    OBVIOUS
  <1>0. /\ Idle \in Runs /\ Idle.pc = "idle" /\ None = 0 /\ task \in [Tasks -> Runs] /\ subs \in [SubIds -> Subscriptions]
        /\ org \in [exists : BOOLEAN, customer : 0 .. MaxCustomers, sub : 0 .. MaxSubs, status : Statuses \union {"none"}]
        /\ customers \in Nat /\ \A i \in Begun : subs[i].customer \in 1 .. customers
    BY BillingAssumption, IdleType DEF TypeInv, TypeOK, None
  <1>1. subs' = subs => \A i \in Begun' : i \in Begun /\ subs'[i].customer = subs[i].customer
    BY DEF Begun
  <1>2. ASSUME NEW t \in Tasks, Set(t, Idle), org' = org, \A i \in Begun' : i \in Begun /\ subs'[i].customer = subs[i].customer
        PROVE  SeenInv'
    BY <1>0, <1>2, SeenStays
  <1>3. ASSUME NEW t \in Tasks, CheckoutRead(t) PROVE SeenInv'
    <2> DEFINE q == [Idle EXCEPT !.customer = org.customer, !.pc = IF org.customer = None THEN "create" ELSE "list"]
    <2>1. q \in Runs /\ q.customer = org.customer /\ q.pc = IF org.customer = None THEN "create" ELSE "list"
      BY <1>0 DEF Runs, Pcs
    <2>2. Set(t, q) /\ UNCHANGED <<org, subs>>
      BY <1>3 DEF CheckoutRead, stripe
    <2> HIDE DEF q
    <2> QED BY <1>1, <2>1, <2>2, SeenStays
  <1>4. ASSUME NEW t \in Tasks, CreateCustomer(t) PROVE SeenInv'
    <2>1. PICK c \in (customers .. customers + 1) \ {None} : c <= MaxCustomers /\ Set(t, [task[t] EXCEPT !.pc = "claim", !.customer = c])
      BY <1>4 DEF CreateCustomer
    <2> DEFINE q == [task[t] EXCEPT !.pc = "claim", !.customer = c]
    <2>2. q \in Runs /\ q.pc = "claim"
      <3>1. task[t] \in Runs /\ c \in 0 .. MaxCustomers
        BY <1>0, <2>1, BillingAssumption
      <3> QED BY <3>1 DEF Runs, Pcs
    <2>3. UNCHANGED <<org, subs>>
      BY <1>4 DEF CreateCustomer
    <2> HIDE DEF q
    <2> QED BY <1>1, <2>1, <2>2, <2>3, SeenStays DEF q
  <1>5. ASSUME NEW t \in Tasks, ClaimCustomer(t) PROVE SeenInv'
    <2> DEFINE q == IF org.exists THEN [task[t] EXCEPT !.pc = "list", !.customer = org'.customer] ELSE Idle
    <2>1. /\ org' = IF org.exists /\ org.customer = None THEN [org EXCEPT !.customer = task[t].customer] ELSE org
          /\ Set(t, q) /\ UNCHANGED subs
      BY <1>5 DEF ClaimCustomer, stripe
    <2>2. task[t] \in Runs /\ task[t].customer \in 1 .. customers /\ task[t].customer \in 0 .. MaxCustomers
      BY <1>0, <1>5 DEF ClaimCustomer, At, TypeInv, RunInv, Runs
    <2>3. /\ org'.exists = org.exists /\ org'.customer \in 0 .. MaxCustomers /\ (org.exists => org'.customer # None)
          /\ org.customer # None => org'.customer = org.customer
          /\ ~org.exists => org' = org
      BY <1>0, <2>1, <2>2
    <2>4. q \in Runs /\ (org.exists => q.pc = "list" /\ q.customer = org'.customer) /\ (~org.exists => q = Idle)
      BY <1>0, <2>2, <2>3 DEF Runs, Pcs
    <2> HIDE DEF q
    <2>5. CASE org.customer # None \/ ~org.exists
      BY <1>0, <1>1, <2>1, <2>3, <2>4, <2>5, SeenStays
    <2>6. CASE org.exists /\ org.customer = None
      <3>1. Begun = {} /\ Begun' = {}
        BY <1>0, <1>1, <2>1, <2>6 DEF SeenInv, SubscriptionsAreSeen
      <3>2. task'[t] = q /\ \A s \in Tasks \ {t} : task'[s] = task[s]
        BY <2>1, <2>4, SetType
      <3> QED BY <2>3, <2>4, <2>6, <3>1, <3>2 DEF SeenInv, SubscriptionsAreSeen
    <2> QED BY <2>5, <2>6
  <1>6. ASSUME NEW t \in Tasks, ListLive(t) \/ OpenSession(t) \/ Expire(t) PROVE SeenInv'
    <2>0. task[t] \in Runs /\ UNCHANGED <<org, subs>> /\ \A i \in Begun' : i \in Begun /\ subs'[i].customer = subs[i].customer
      BY <1>0, <1>1, <1>6 DEF ListLive, OpenSession, Expire, stripe
    <2>1. org.exists /\ task[t].pc \in {"list", "session", "open"} => org.customer # None /\ task[t].customer = org.customer
      BY DEF SeenInv
    <2>2. CASE Set(t, Idle)
      BY <1>2, <2>0, <2>2
    <2>3. CASE ListLive(t) /\ Set(t, [task[t] EXCEPT !.pc = "session"])
      <3> DEFINE q == [task[t] EXCEPT !.pc = "session"]
      <3>1. q \in Runs /\ q.pc = "session" /\ q.customer = task[t].customer /\ At(t, "list") /\ Set(t, q)
        BY <2>0, <2>3 DEF Runs, Pcs, ListLive
      <3> HIDE DEF q
      <3> QED BY <2>0, <2>1, <3>1, SeenStays DEF At
    <2>4. CASE OpenSession(t)
      <3> DEFINE q == [task[t] EXCEPT !.pc = "open", !.want = BillableSeats(members)]
      <3>0. BillableSeats(members) \in 0 .. MaxMembers
        BY SeatsType DEF TypeInv, TypeOK
      <3>1. q \in Runs /\ q.pc = "open" /\ q.customer = task[t].customer /\ At(t, "session") /\ Set(t, q)
        BY <2>0, <2>4, <3>0 DEF Runs, Pcs, OpenSession
      <3> HIDE DEF q
      <3> QED BY <2>0, <2>1, <3>1, SeenStays DEF At
    <2> QED BY <1>6, <2>2, <2>3, <2>4 DEF ListLive, Expire
  <1>7. ASSUME NEW t \in Tasks, Complete(t) PROVE SeenInv'
    <2>1. PICK i \in SubIds \ Begun : subs' = [subs EXCEPT ![i] = [customer |-> task[t].customer, status |-> "active", seats |-> task[t].want]]
      BY <1>7 DEF Complete
    <2>2. \A j \in Begun' : IF j = i THEN subs'[j].customer = task[t].customer ELSE j \in Begun /\ subs'[j].customer = subs[j].customer
      BY <1>0, <2>1 DEF Begun
    <2>3. Set(t, Idle) /\ org' = org /\ At(t, "open")
      BY <1>7 DEF Complete
    <2>4. task'[t] = Idle /\ \A s \in Tasks \ {t} : task'[s] = task[s]
      BY <1>0, <2>3, SetType
    <2> QED BY <1>0, <2>2, <2>3, <2>4 DEF SeenInv, SubscriptionsAreSeen, At
  <1>8. ASSUME NEW t \in Tasks, ListSubs(t) \/ WriteOrg(t) \/ CountSeats(t) \/ RetrieveSeats(t) \/ ModifySeats(t) PROVE SeenInv'
    <2>0. org'.exists = org.exists /\ org'.customer = org.customer
      BY <1>0, <1>8 DEF ListSubs, WriteOrg, CountSeats, RetrieveSeats, ModifySeats
    <2>1. \A i \in Begun' : i \in Begun /\ subs'[i].customer = subs[i].customer
      <3>1. CASE ModifySeats(t)
        BY <1>0, <3>1 DEF ModifySeats, Begun, Subscriptions
      <3> QED BY <1>1, <1>8, <3>1 DEF ListSubs, WriteOrg, CountSeats, RetrieveSeats, stripe
    <2>2. task'[t].pc \in {"idle", "write", "seats", "retrieve", "modify"} /\ \A s \in Tasks \ {t} : task'[s] = task[s]
      <3>1. PICK q : Set(t, q) /\ q.pc \in {"idle", "write", "seats", "retrieve", "modify"}
        <4>1. \A pc \in {"write", "seats", "retrieve"} : [Idle EXCEPT !.pc = pc].pc = pc
          BY <1>0 DEF Runs
        <4>3. \A h : [task[t] EXCEPT !.pc = "modify", !.have = h].pc = "modify"
          BY <1>0 DEF Runs
        <4>4. CASE ListSubs(t)
          <5> DEFINE all == {i \in Begun : subs[i].customer = org.customer}
                     q == IF all = {} THEN [Idle EXCEPT !.pc = "write"]
                          ELSE [Idle EXCEPT !.pc = "write", !.sub = Best(all), !.status = subs[Best(all)].status]
          <5>1. Set(t, q) /\ q.pc = "write"
            BY <1>0, <4>4 DEF ListSubs, Runs
          <5> QED BY <5>1
        <4>5. CASE WriteOrg(t)
          BY <4>1, <4>5 DEF WriteOrg
        <4>6. CASE CountSeats(t)
          <5> DEFINE q == IF org.exists /\ org.status \in Pro /\ org.sub # None
                          THEN [Idle EXCEPT !.pc = "retrieve", !.sub = org.sub, !.want = BillableSeats(members)] ELSE Idle
          <5>1. Set(t, q) /\ q.pc \in {"idle", "retrieve"}
            BY <1>0, <4>6 DEF CountSeats, Runs
          <5> QED BY <5>1
        <4>7. CASE RetrieveSeats(t)
          BY <1>0, <4>3, <4>7 DEF RetrieveSeats
        <4>8. CASE ModifySeats(t)
          BY <1>0, <4>8 DEF ModifySeats, Leave
        <4> QED BY <1>8, <4>4, <4>5, <4>6, <4>7, <4>8
      <3> QED BY <1>0, <3>1 DEF Set
    <2> QED BY <2>0, <2>1, <2>2 DEF SeenInv, SubscriptionsAreSeen
  <1>9. ASSUME ConsumeJoins \/ Cancel PROVE SeenInv'
    <2>0. "consumer" \in Tasks /\ task["consumer"] \in Runs /\ org' = org
      BY <1>0, <1>9 DEF Tasks, ConsumeJoins, Cancel, SearchCustomers, ListCustomer, CancelSub, AllCanceled
    <2>1. \A i \in Begun' : i \in Begun /\ subs'[i].customer = subs[i].customer
      <3>1. CASE CancelSub
        <4> DEFINE c == task["consumer"]
        <4>1. c.todo \in SUBSET (1 .. MaxSubs) /\ c.todo # {} /\ c.todo \subseteq Begun /\ MaxSubs \in Nat
          BY <2>0, <3>1, BillingAssumption DEF Runs, SubIds, TypeInv, RunInv, CancelSub
        <4>2. Min(c.todo) \in Begun
          BY <4>1, LeastIs
        <4> QED BY <1>0, <3>1, <4>2 DEF CancelSub, Begun, Subscriptions
      <3> QED BY <1>1, <1>9, <3>1 DEF ConsumeJoins, Cancel, SearchCustomers, ListCustomer, AllCanceled, stripe
    <2>2. task'["consumer"].pc \in {"idle", "seats", "cancel"} /\ \A s \in Tasks \ {"consumer"} : task'[s] = task[s]
      <3> DEFINE c == task["consumer"]
      <3>1. PICK q : Set("consumer", q) /\ q.pc \in {"idle", "seats", "cancel"}
        <4>1. CASE ConsumeJoins \/ AllCanceled
          BY <1>0, <4>1 DEF ConsumeJoins, AllCanceled, Leave, Runs
        <4>2. CASE SearchCustomers
          <5> DEFINE q == [Idle EXCEPT !.pc = "cancel", !.left = 1 .. customers, !.before = Begun]
          <5>1. Set("consumer", q) /\ q.pc = "cancel"
            BY <1>0, <4>2 DEF SearchCustomers, Runs
          <5> QED BY <5>1
        <4>3. \A d : [c EXCEPT !.todo = d].pc = c.pc
          BY <2>0 DEF Runs
        <4>4. CASE ListCustomer
          <5> DEFINE q == [c EXCEPT !.left = @ \ {Min(c.left)}, !.todo = LiveOf(Min(c.left))]
          <5>1. Set("consumer", q) /\ q.pc = c.pc /\ c.pc = "cancel"
            BY <2>0, <4>4 DEF ListCustomer, Runs
          <5> QED BY <5>1
        <4>5. CASE CancelSub
          BY <1>0, <4>3, <4>5 DEF CancelSub, Leave
        <4> QED BY <1>9, <4>1, <4>2, <4>4, <4>5 DEF Cancel
      <3> QED BY <1>0, <2>0, <3>1 DEF Set
    <2> QED BY <2>0, <2>1, <2>2 DEF SeenInv, SubscriptionsAreSeen
  <1>10. ASSUME NEW t \in Tasks, Fails(t) PROVE SeenInv'
    BY <1>1, <1>2, <1>10 DEF Fails, Leave, stripe
  <1>11. CASE Join \/ Remove \/ UNCHANGED vars
    BY <1>11 DEF Join, Remove, vars, stripe, SeenInv, SubscriptionsAreSeen, Begun
  <1>12. CASE DeleteOrg
    BY <1>12 DEF DeleteOrg, SeenInv, SubscriptionsAreSeen
  <1>13. ASSUME NEW i \in SubIds, NEW status \in Statuses, ChangeStatus(i, status) PROVE SeenInv'
    <2>1. UNCHANGED <<org, task>> /\ \A j \in Begun' : j \in Begun /\ subs'[j].customer = subs[j].customer
      BY <1>0, <1>13 DEF ChangeStatus, Begun, Subscriptions, Statuses, Live
    <2> QED BY <2>1 DEF SeenInv, SubscriptionsAreSeen
  <1>14. ASSUME NEW t \in Tasks, Checkout(t) \/ Sync(t) \/ SyncSeats(t) PROVE SeenInv'
    BY <1>3, <1>4, <1>5, <1>6, <1>7, <1>8, <1>14 DEF Checkout, Sync, SyncSeats
  <1> QED BY <1>9, <1>10, <1>11, <1>12, <1>13, <1>14 DEF Next, Consumer, Tasks

-----------------------------------------------------------------------------
(* What a cancellation leaves. *)

LEMMA CancelInit == Init => CancelInv
PROOF
  <1> SUFFICES ASSUME Init PROVE CancelInv
    OBVIOUS
  <1>1. "consumer" \in Tasks /\ task["consumer"].pc = "idle"
    BY IdleType DEF Init, Tasks
  <1> QED BY <1>1 DEF Init, CancelInv, DeletedIsNotCharged

\* Whatever happens to subscriptions, what the consumer has done stays done.
LEMMA CancelStays ==
    ASSUME TypeInv, CancelInv, [Next]_vars, task'["consumer"] = task["consumer"], UNCHANGED <<deletion, charged>>,
           org'.exists => org.exists
    PROVE  CancelInv'
  BY SubsStep DEF CancelInv, DeletedIsNotCharged

\* Nor does a consumer undo it that is not canceling.
LEMMA CancelRests ==
    ASSUME TypeInv, CancelInv, [Next]_vars, task'["consumer"].pc # "cancel", UNCHANGED <<deletion, charged>>,
           org'.exists => org.exists
    PROVE  CancelInv'
  BY SubsStep DEF CancelInv, DeletedIsNotCharged

LEMMA CancelStep == TypeInv /\ CancelInv /\ [Next]_vars => CancelInv'
PROOF
  <1> SUFFICES ASSUME TypeInv, CancelInv, [Next]_vars PROVE CancelInv'
    OBVIOUS
  <1> DEFINE c == task["consumer"]
  <1>0. /\ "consumer" \in Tasks /\ c \in Runs /\ task \in [Tasks -> Runs] /\ Idle.pc = "idle"
        /\ subs \in [SubIds -> Subscriptions] /\ \A i \in Begun : subs[i].customer \in 1 .. customers
    BY IdleType DEF TypeInv, Tasks
  <1>1. \A q : Set("consumer", q) => task'["consumer"] = q
    BY <1>0 DEF Set
  <1>2. ASSUME NEW t \in Checkouts \union Syncers, Checkout(t) \/ Sync(t) PROVE CancelInv'
    <2>1. t \in Tasks /\ t # "consumer"
      BY BillingAssumption DEF Tasks
    <2> QED BY <1>2, <2>1, OthersStep, CancelStays
  <1>3. CASE SyncSeats("consumer") \/ ConsumeJoins
    <2>1. UNCHANGED <<org, deletion, charged>>
      BY <1>3 DEF SyncSeats, CountSeats, RetrieveSeats, ModifySeats, ConsumeJoins, web
    <2>2. task'["consumer"].pc # "cancel"
      <3>1. \A n : /\ [Idle EXCEPT !.pc = "seats"].pc = "seats"
                      /\ [c EXCEPT !.pc = "modify", !.have = n].pc = "modify"
        BY <1>0, IdleType DEF Runs
      <3>2. CASE CountSeats("consumer")
        <4> DEFINE q == IF org.exists /\ org.status \in Pro /\ org.sub # None
                        THEN [Idle EXCEPT !.pc = "retrieve", !.sub = org.sub, !.want = BillableSeats(members)] ELSE Idle
        <4>1. Set("consumer", q) /\ q.pc \in {"idle", "retrieve"}
          BY <1>0, <3>2, IdleType DEF CountSeats, Runs
        <4> QED BY <1>1, <4>1
      <3>3. CASE RetrieveSeats("consumer")
        BY <1>0, <1>1, <3>1, <3>3 DEF RetrieveSeats
      <3>4. CASE ModifySeats("consumer")
        BY <1>0, <1>1, <3>4 DEF ModifySeats, Leave
      <3>5. CASE ConsumeJoins
        BY <1>1, <3>1, <3>5 DEF ConsumeJoins
      <3> QED BY <1>3, <3>2, <3>3, <3>4, <3>5 DEF SyncSeats
    <2> QED BY <2>1, <2>2, CancelRests
  <1>4. CASE SearchCustomers
    <2>1. /\ UNCHANGED <<org, deletion, subs, charged>> /\ deletion = "pending" /\ Begun' = Begun
          /\ task'["consumer"] = [Idle EXCEPT !.pc = "cancel", !.left = 1 .. customers, !.before = Begun]
      BY <1>1, <1>4 DEF SearchCustomers, web, stripe, Begun
    <2>2. task'["consumer"].left = 1 .. customers /\ task'["consumer"].before = Begun
      BY <2>1, IdleType DEF Runs
    <2> QED BY <1>0, <2>1, <2>2 DEF CancelInv, DeletedIsNotCharged
  <1>5. CASE ListCustomer
    <2>1. /\ UNCHANGED <<org, deletion, subs, charged>> /\ Begun' = Begun /\ c.pc = "cancel" /\ c.todo = {}
          /\ task'["consumer"] = [c EXCEPT !.left = @ \ {Min(c.left)}, !.todo = LiveOf(Min(c.left))]
      BY <1>1, <1>5 DEF ListCustomer, web, stripe, Begun
    <2>2. /\ task'["consumer"].left = c.left \ {Min(c.left)} /\ task'["consumer"].todo = LiveOf(Min(c.left))
          /\ task'["consumer"].before = c.before
      BY <1>0, <2>1 DEF Runs
    <2>3. \A i \in c.before : subs[i].status \in Live => subs[i].customer \in task'["consumer"].left \/ i \in task'["consumer"].todo
      BY <2>1, <2>2 DEF CancelInv, LiveOf
    <2> QED BY <2>1, <2>2, <2>3 DEF CancelInv, DeletedIsNotCharged
  <1>6. CASE CancelSub
    <2> DEFINE i == Min(c.todo)
    <2>1. UNCHANGED <<org, deletion, charged>> /\ c.pc = "cancel"
      BY <1>6 DEF CancelSub, web
    <2>2. CASE Set("consumer", Idle)
      BY <1>0, <1>1, <2>1, <2>2, CancelRests
    <2>3. CASE /\ subs' = [subs EXCEPT ![i].status = "canceled"]
               /\ Set("consumer", [c EXCEPT !.todo = @ \ {i}])
      <3>1. task'["consumer"].todo = c.todo \ {i} /\ task'["consumer"].left = c.left /\ task'["consumer"].before = c.before
        BY <1>0, <1>1, <2>3 DEF Runs
      <3>2. \A j \in c.before : /\ j \in Begun' /\ subs'[j].customer = subs[j].customer
                                /\ subs'[j].status \in Live => subs[j].status \in Live /\ j # i
        <4>1. \A j \in c.before : j \in SubIds /\ j \in Begun
          BY <2>1 DEF CancelInv, Begun
        <4>2. \A j \in SubIds : subs'[j].status \in Live => j # i
          BY <1>0, <2>3 DEF Live, Subscriptions
        <4> QED BY <4>1, <4>2, SubsStep
      <3>3. c.before \subseteq Begun' /\ charged \subseteq Begun' /\ \A j \in charged : subs'[j].status \in Live => subs[j].status \in Live
        BY <3>2, SubsStep DEF CancelInv
      <3> QED BY <2>1, <3>1, <3>2, <3>3 DEF CancelInv, DeletedIsNotCharged
    <2> QED BY <1>6, <2>2, <2>3 DEF CancelSub, Leave
  <1>7. CASE AllCanceled
    <2>1. /\ deletion' = "passed" /\ charged' = c.before /\ task'["consumer"] = Idle /\ UNCHANGED <<org, subs>> /\ Begun' = Begun
          /\ c.pc = "cancel" /\ c.todo = {} /\ c.left = {}
      BY <1>1, <1>7 DEF AllCanceled, Leave, stripe, Begun
    <2>2. c.before \subseteq Begun /\ \A i \in c.before : subs[i].status \notin Live
      BY <2>1 DEF CancelInv
    <2>3. ~org.exists
      BY <2>1 DEF CancelInv
    <2> QED BY <1>0, <2>1, <2>2, <2>3 DEF CancelInv, DeletedIsNotCharged
  <1>8. ASSUME NEW t \in Tasks, Fails(t) PROVE CancelInv'
    <2>1. UNCHANGED <<org, deletion, charged>> /\ Set(t, Idle)
      BY <1>8 DEF Fails, Leave
    <2>2. CASE t = "consumer"
      BY <1>0, <1>1, <2>1, <2>2, CancelRests
    <2>3. CASE t # "consumer"
      BY <1>0, <2>1, <2>3, CancelStays DEF Set
    <2> QED BY <2>2, <2>3
  <1>9. CASE Join \/ Remove \/ UNCHANGED vars
    BY <1>9, CancelStays DEF Join, Remove, vars
  <1>10. CASE DeleteOrg
    <2>1. UNCHANGED <<subs, task, charged>> /\ Begun' = Begun /\ deletion' = "pending" /\ ~org'.exists /\ org.exists
      BY <1>10 DEF DeleteOrg, stripe, Begun
    <2> QED BY <2>1 DEF CancelInv, DeletedIsNotCharged
  <1>11. ASSUME NEW i \in SubIds, NEW status \in Statuses, ChangeStatus(i, status) PROVE CancelInv'
    BY <1>11, CancelStays DEF ChangeStatus
  <1> QED BY <1>2, <1>3, <1>4, <1>5, <1>6, <1>7, <1>8, <1>9, <1>10, <1>11 DEF Next, Consumer, Cancel

-----------------------------------------------------------------------------
(* The theorems. *)

\* The invariants hold of every run, for any number of tasks and any bounds.
LEMMA Invariants == Spec => [](TypeInv /\ SeenInv /\ CancelInv)
PROOF
  <1>1. Init => TypeInv /\ SeenInv /\ CancelInv
    BY TypeInit, SeenInit, CancelInit
  <1>2. (TypeInv /\ SeenInv /\ CancelInv) /\ [Next]_vars => (TypeInv /\ SeenInv /\ CancelInv)'
    BY TypeStep, SeenStep, CancelStep
  <1> QED BY <1>1, <1>2, PTL DEF Spec

\* The rows of billing.ts and what Stripe holds are of their types, and the subscription
\* the organization's row names is one its customer has (writeOrg(), billing.ts).
THEOREM TypeCorrect == Spec => []TypeOK
PROOF
  <1>1. TypeInv => TypeOK
    BY DEF TypeInv
  <1> QED BY <1>1, Invariants, PTL

\* Of however many first calls race for a customer, and whatever Stripe has forgotten of
\* the key, every subscription is one that syncOrg() lists (customerFor(), billing.ts).
THEOREM EverySubscriptionSeen == Spec => []SubscriptionsAreSeen
PROOF
  <1>1. SeenInv => SubscriptionsAreSeen
    BY DEF SeenInv
  <1> QED BY <1>1, Invariants, PTL

\* What a deleted organization paid for when the cancellation began is canceled when the
\* consumer passes the deletion, through any number of failed calls and restarts
\* (cancelForDeletedOrg(), billing.ts).
THEOREM NothingLeftCharged == Spec => []DeletedIsNotCharged
PROOF
  <1>1. CancelInv => DeletedIsNotCharged
    BY DEF CancelInv
  <1> QED BY <1>1, Invariants, PTL

\* A subscription stays with the customer who began it, and one that has ended is never
\* charged again: no sync of seats, no late checkout and no change in the portal revives it.
THEOREM EndedStaysEnded ==
    Spec => [][\A i \in Begun : /\ subs'[i].customer = subs[i].customer
                                /\ subs'[i].status \in Live => subs[i].status \in Live]_vars
PROOF
  <1>1. TypeInv /\ [Next]_vars => [\A i \in Begun : /\ subs'[i].customer = subs[i].customer
                                                    /\ subs'[i].status \in Live => subs[i].status \in Live]_vars
    BY SubsStep
  <1> QED BY <1>1, Invariants, PTL DEF Spec
=============================================================================

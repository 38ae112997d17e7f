---------------------------- MODULE Readers_proofs ----------------------------
(* Proofs of what readers of databases that change under them keep: the two    *)
(* consumers of Outbox, for any number of users, events and faults and any     *)
(* size of a batch, and the calls of Statements, for any number of callers and *)
(* any worlds.                                                                 *)
EXTENDS MCReaders, FiniteSetTheorems, TLAPS

-----------------------------------------------------------------------------
\* A nonempty set of naturals has a least element: of the sets 0..x one is minimal.
LEMMA LeastIs ==
    ASSUME NEW S \in SUBSET Nat, S # {}
    PROVE  Min(S) \in S /\ \A y \in S : Min(S) <= y
PROOF
  <1> DEFINE T == {0 .. x : x \in S}
             R == StrictSubsetOrdering(Nat)
  <1>1. T \subseteq FiniteSubsetsOf(Nat) /\ T # {}
    <2>1. \A x \in S : 0 .. x \in SUBSET Nat /\ IsFiniteSet(0 .. x)
      BY FS_Interval
    <2> QED BY <2>1 DEF FiniteSubsetsOf
  <1>2. IsWellFoundedOn(R, FiniteSubsetsOf(Nat))
    BY FS_StrictSubsetOrderingWellFounded
  <1>3. \E t \in T : \A u \in T : ~(<<u, t>> \in R)
    <2> HIDE DEF T, R
    <2> QED BY <1>1, <1>2, WFMin
  <1>4. PICK x \in S : \A y \in S : ~(<<0 .. y, 0 .. x>> \in R)
    BY <1>3
  <1>5. ASSUME NEW y \in S PROVE x <= y
    <2> SUFFICES ASSUME y < x PROVE FALSE
      OBVIOUS
    <2>1. 0 .. y \subseteq 0 .. x /\ 0 .. y # 0 .. x
      <3>1. x \in 0 .. x /\ x \notin 0 .. y
        OBVIOUS
      <3> QED BY <3>1
    <2>2. 0 .. y \in SUBSET Nat /\ 0 .. x \in SUBSET Nat /\ IsFiniteSet(0 .. y) /\ IsFiniteSet(0 .. x)
      BY FS_Interval
    <2> QED BY <1>4, <2>1, <2>2 DEF StrictSubsetOrdering
  <1> QED BY <1>5 DEF Min

\* and one that is bounded has a greatest.
LEMMA GreatestIs ==
    ASSUME NEW n \in Nat, NEW S \in SUBSET (0 .. n), S # {}
    PROVE  Max(S) \in S /\ \A y \in S : Max(S) >= y
PROOF
  <1> DEFINE T == {n - x : x \in S}
  <1>0. \A x \in S : x \in Nat /\ n - x \in Nat
    OBVIOUS
  <1>1. T \in SUBSET Nat /\ T # {}
    <2>1. \A y \in T : y \in Nat
      BY <1>0
    <2> QED BY <2>1
  <1>2. Min(T) \in T /\ \A y \in T : Min(T) <= y
    <2> HIDE DEF T
    <2> QED BY <1>1, LeastIs
  <1>3. PICK x \in S : Min(T) = n - x
    BY <1>2
  <1>4. ASSUME NEW y \in S PROVE x >= y
    <2>1. n - y \in T
      OBVIOUS
    <2>2. n - x <= n - y
      BY <1>2, <1>3, <2>1
    <2> QED BY <1>0, <2>2
  <1> QED BY <1>4 DEF Max

-----------------------------------------------------------------------------
(* The invariants. *)

Pcs == {"idle", "read", "scan", "touch", "load", "call", "advance"}
Passes ==
    [pc : Pcs, from : Int, batch : SUBSET Ids, last : Int,
     first : [Users -> Int], loaded : [Users -> Nat], step : {"put", "post", "claim"}]

\* What TypeOK leaves open: a pass, and that one which has a batch has events.
TypeInv ==
    /\ TypeOK
    /\ task \in [Consumers -> Passes]
    /\ \A c \in Consumers : task[c].pc # "idle" => task[c].from \in Nat
    /\ \A c \in Consumers : task[c].pc \in {"scan", "touch"} => task[c].batch # {}

\* Whom the CRM's calls are about now: Current() of it.
Now == CHOOSE v \in Left : \A w \in Left : Crm.first[v] <= Crm.first[w]

\* Who is or was on the list has a contact of ours, and there is no second or third
\* call for who has one.
ListInv ==
    /\ UnsubscribeStays
    /\ \A u \in Users : contact[u].left \/ contact[u].listed => contact[u].ours
    /\ Crm.step # "put" => Crm.pc = "call" /\ Left # {} /\ \E u \in Users : u = Now /\ ~contact[u].ours

\* Ids are visible without a hole, when transactions commit in their order.
Prefix == \E n \in 0 .. MaxEvents : Committed = 1 .. n

\* A pass goes on from the cursor; what lies between it and `last` is done, and what is
\* left of its batch comes right after.
PassInv ==
    /\ Billing.pc # "idle" => Billing.from = cursor["billing"] /\ Billing.from <= Billing.last
    /\ Billing.pc = "read" => Billing.last = Billing.from
    /\ Billing.last > 0 /\ Billing.pc # "idle" => Billing.last \in Committed
    /\ Billing.pc = "scan" => \E m \in Committed : Billing.batch = Billing.last + 1 .. m
    /\ Billing.pc # "idle" => \A i \in Deleted(Committed) :
            Billing.from < i /\ i <= Billing.last => i \in cancelled

CancelInv ==
    /\ Prefix /\ PassInv /\ DeletedIsCancelled
    /\ since = None <=> cursor["billing"] = None
    /\ cursor["billing"] > 0 => cursor["billing"] \in Committed

-----------------------------------------------------------------------------
(* Types. *)

LEMMA IdleType == Idle \in Passes
  BY DEF Idle, Passes, Pcs, None

LEMMA IdleFields == Idle.pc = "idle" /\ Idle.step = "put" /\ \A u \in Users : Idle.first[u] = None
  BY DEF Idle

LEMMA NewestType == Newest \in Nat /\ (Committed # {} => Newest \in Committed)
PROOF
  <1>1. MaxEvents \in Nat /\ Committed \in SUBSET (0 .. MaxEvents)
    BY OutboxAssumption DEF Committed, Ids
  <1>2. Committed # {} => Max(Committed) \in Committed
    <2> HIDE DEF Committed
    <2> QED BY <1>1, GreatestIs
  <1>3. \A x \in Committed : x \in Nat
    BY <1>1
  <1>4. CASE Committed = {}
    BY <1>4 DEF Newest
  <1>5. CASE Committed # {}
    BY <1>2, <1>3, <1>5 DEF Newest
  <1> QED BY <1>4, <1>5

LEMMA TypeInit == Init => TypeInv
PROOF
  <1> SUFFICES ASSUME Init PROVE TypeInv
    OBVIOUS
  <1>1. NoEvent \in [type : Types \union {"none"}, user : Users, ver : [Users -> Nat]]
    BY OutboxAssumption DEF NoEvent
  <1>2. task \in [Consumers -> Passes]
    BY IdleType DEF Init
  <1>3. runs \subseteq Consumers /\ faults \in 0 .. MaxFaults /\ DOMAIN task = Consumers
    BY OutboxAssumption DEF Init, Consumers
  <1>4. events \in [Ids -> [type : Types \union {"none"}, user : Users, ver : [Users -> Nat]]]
    BY <1>1 DEF Init
  <1>5. cursor \in [Consumers -> {None} \union Nat] /\ since \in {None} \union Nat
    BY DEF Init
  <1>6. /\ contact \in [Users -> [exists : BOOLEAN, ours : BOOLEAN, ver : Nat, listed : BOOLEAN, left : BOOLEAN]]
        /\ \A u \in Users : contact[u].ours => contact[u].exists
    BY DEF Init
  <1>7. Left = {}
    BY DEF Init, Left, Crm, Idle, Consumers
  <1>8. members \subseteq Users /\ data \in [Users -> Nat] /\ cancelled \subseteq Ids /\ skipped \in [Users -> Nat]
    BY DEF Init
  <1>9. TypeOK
    BY <1>3, <1>4, <1>5, <1>6, <1>7, <1>8 DEF TypeOK
  <1> QED BY <1>2, <1>9 DEF Init, TypeInv, Idle

\* A step of one consumer that changes its pass only leaves the rest as it was.
LEMMA PassType ==
    ASSUME TypeInv, NEW c \in Consumers, NEW r \in Passes, Set(c, r),
           r.pc # "idle" => r.from \in Nat,
           r.pc \in {"scan", "touch"} => r.batch # {},
           c = "crm" /\ r.pc \notin {"load", "call"} => \A u \in Users : r.first[u] = None
    PROVE  /\ task' \in [Consumers -> Passes]
           /\ \A d \in Consumers : task'[d].pc # "idle" => task'[d].from \in Nat
           /\ \A d \in Consumers : task'[d].pc \in {"scan", "touch"} => task'[d].batch # {}
           /\ DOMAIN task' = Consumers
           /\ Crm'.pc \notin {"load", "call"} => Left' = {}
PROOF
  <1>1. task' = [task EXCEPT ![c] = r] /\ task \in [Consumers -> Passes]
    BY DEF Set, TypeInv
  <1>2. Crm.pc \notin {"load", "call"} => Left = {}
    BY DEF TypeInv, TypeOK
  <1>3. Crm' = IF c = "crm" THEN r ELSE Crm
    BY <1>1 DEF Crm, Consumers
  <1>4. Crm'.pc \notin {"load", "call"} => Left' = {}
    BY <1>2, <1>3 DEF Left
  <1> QED BY <1>1, <1>4 DEF TypeInv

\* The events of a batch, and the users named in it.
LEMMA BatchMax ==
    ASSUME NEW S \in SUBSET Ids, S # {}
    PROVE  Max(S) \in S /\ \A i \in S : Max(S) >= i
PROOF
  <1>1. MaxEvents \in Nat /\ S \in SUBSET (0 .. MaxEvents)
    BY OutboxAssumption DEF Ids
  <1> QED BY <1>1, GreatestIs

LEMMA BatchMin ==
    ASSUME NEW S \in SUBSET Ids, S # {}
    PROVE  Min(S) \in S /\ \A i \in S : Min(S) <= i
  BY LeastIs DEF Ids

LEMMA CommitType ==
    ASSUME TypeInv, NEW i \in Ids, NEW type \in Types, NEW u \in Users, Commit(i, type, u)
    PROVE  TypeInv'
PROOF
  <1>1. data' \in [Users -> Nat] /\ members' \subseteq Users
    BY DEF Commit, TypeInv, TypeOK
  <1>2. events' \in [Ids -> [type : Types \union {"none"}, user : Users, ver : [Users -> Nat]]]
    BY <1>1 DEF Commit, TypeInv, TypeOK
  <1>3. Left' = Left /\ Crm' = Crm
    BY DEF Commit, Left, Crm
  <1> QED BY <1>1, <1>2, <1>3 DEF Commit, TypeInv, TypeOK

\* A pass that begins.
LEMMA BeginType ==
    ASSUME NEW x \in Passes, NEW n \in Nat
    PROVE  [x EXCEPT !.pc = "read", !.from = n, !.last = n] \in Passes
PROOF
  <1>1. [x EXCEPT !.pc = "read"] \in Passes
    BY DEF Passes, Pcs
  <1>2. ASSUME NEW y \in Passes PROVE [y EXCEPT !.from = n] \in Passes
    BY DEF Passes
  <1>3. ASSUME NEW y \in Passes PROVE [y EXCEPT !.last = n] \in Passes
    BY DEF Passes
  <1> QED BY <1>1, <1>2, <1>3

LEMMA ReadCursorType ==
    ASSUME TypeInv, NEW c \in Consumers, ReadCursor(c)
    PROVE  TypeInv'
PROOF
  <1> DEFINE from == IF cursor[c] # None THEN cursor[c] ELSE IF c = "billing" THEN Newest ELSE 0
             r == [Idle EXCEPT !.pc = "read", !.from = from, !.last = from]
  <1>1. from \in Nat
    BY NewestType DEF TypeInv, TypeOK
  <1>2. r \in Passes /\ r.pc = "read" /\ r.from = from /\ \A u \in Users : r.first[u] = None
    <2> HIDE DEF from
    <2>1. r \in Passes
      BY <1>1, IdleType, BeginType
    <2>2. r.pc = "read"
      BY IdleType DEF Passes
    <2>3. r.from = from
      BY IdleType DEF Passes
    <2>4. r.first = Idle.first
      BY IdleType DEF Passes
    <2> QED BY <2>1, <2>2, <2>3, <2>4, IdleFields
  <1>3. Set(c, r) /\ cursor' = [cursor EXCEPT ![c] = from] /\ since' \in {since, from}
    BY DEF ReadCursor
  <1>4. cursor' \in [Consumers -> {None} \union Nat] /\ since' \in {None} \union Nat
    BY <1>1, <1>3 DEF TypeInv, TypeOK
  <1> HIDE DEF r, from
  <1>5. UNCHANGED <<runs, events, members, data, faults, cancelled, contact, skipped>>
    BY DEF ReadCursor, App, Web
  <1> QED BY <1>1, <1>2, <1>3, <1>4, <1>5, PassType DEF TypeInv, TypeOK

LEMMA ReadEventsType ==
    ASSUME TypeInv, NEW c \in Consumers, ReadEvents(c)
    PROVE  TypeInv'
PROOF
  <1> DEFINE batch == FirstOf({i \in Committed : i > task[c].from})
             r == IF batch = {} THEN Idle
                  ELSE [task[c] EXCEPT !.pc = IF c = "billing" THEN "scan" ELSE "touch", !.batch = batch]
  <1>1. batch \subseteq Ids
    BY DEF FirstOf, Committed
  <1>2. task[c] \in Passes /\ task[c].from \in Nat /\ task[c].pc = "read"
    BY DEF ReadEvents, At, TypeInv
  <1>3. c = "crm" => \A u \in Users : task[c].first[u] = None
    BY <1>2 DEF TypeInv, TypeOK, Crm, Left
  <1>4. r \in Passes /\ (r.pc # "idle" => r.from \in Nat) /\ (r.pc \in {"scan", "touch"} => r.batch # {})
    <2>1. CASE batch = {}
      BY <2>1, IdleType DEF Idle
    <2>2. CASE batch # {}
      <3> HIDE DEF batch
      <3> QED BY <1>1, <1>2, <2>2 DEF Passes, Pcs
    <2> QED BY <2>1, <2>2
  <1>5. c = "crm" => \A u \in Users : r.first[u] = None
    <2> HIDE DEF batch
    <2> QED BY <1>2, <1>3, IdleFields DEF Passes
  <1>6. Set(c, r) /\ UNCHANGED <<runs, events, members, data, faults, cursor, since, cancelled, contact, skipped>>
    BY DEF ReadEvents, App, Web
  <1> HIDE DEF r
  <1> QED BY <1>4, <1>5, <1>6, PassType DEF TypeInv, TypeOK

LEMMA AdvanceType ==
    ASSUME TypeInv, NEW c \in Consumers, Advance(c)
    PROVE  TypeInv'
PROOF
  <1>1. task[c].last \in Int /\ task[c].from \in Nat
    BY DEF Advance, At, TypeInv, Passes
  <1>2. cursor' \in [Consumers -> {None} \union Nat]
    BY <1>1 DEF Advance, TypeInv, TypeOK
  <1>3. UNCHANGED <<runs, events, members, data, faults, since, cancelled, contact, skipped>> /\ Set(c, Idle)
    BY DEF Advance, App, Web
  <1> QED BY <1>2, <1>3, IdleFields, IdleType, PassType DEF TypeInv, TypeOK

LEMMA PassEndsType ==
    ASSUME TypeInv, NEW c \in Consumers, PassEnds(c)
    PROVE  TypeInv'
PROOF
  <1>1. /\ UNCHANGED <<runs, events, members, data, cursor, since, cancelled, contact, skipped>> /\ Set(c, Idle)
        /\ faults' \in 0 .. MaxFaults
    BY OutboxAssumption DEF PassEnds, Fault, TypeInv, TypeOK
  <1> QED BY <1>1, IdleFields, IdleType, PassType DEF TypeInv, TypeOK

\* What the billing pass leaves behind it.
LEMMA BehindType ==
    ASSUME TypeInv, At("billing", "scan"), NEW done \in SUBSET Billing.batch, NEW rest \in SUBSET Billing.batch
    PROVE  /\ Behind(done, rest) \in Passes
           /\ Behind(done, rest).from = Billing.from
           /\ Behind(done, rest).batch = rest
           /\ Behind(done, rest).last = IF done = {} THEN Billing.last ELSE Max(done)
           /\ Behind(done, rest).pc = IF rest = {} THEN "advance" ELSE "scan"
PROOF
  <1>1. Billing \in Passes
    BY DEF TypeInv, Billing, Consumers
  <1>2. done # {} => Max(done) \in Int
    <2>1. done \in SUBSET Ids /\ Ids \subseteq Int
      BY <1>1 DEF Passes, Ids
    <2>2. done # {} => Max(done) \in done
      BY <2>1, BatchMax
    <2> QED BY <2>1, <2>2
  <1>3. rest \in SUBSET Ids
    BY <1>1 DEF Passes
  <1> DEFINE last == IF done = {} THEN Billing.last ELSE Max(done)
             pc == IF rest = {} THEN "advance" ELSE "scan"
  <1>4. last \in Int /\ pc \in Pcs
    BY <1>1, <1>2 DEF Passes, Pcs
  <1>5. Behind(done, rest) = [Billing EXCEPT !.last = last, !.batch = rest, !.pc = pc]
    BY <1>1 DEF Behind, Passes
  <1> HIDE DEF last, pc
  <1>6. Behind(done, rest) \in Passes
    <2>1. ASSUME NEW y \in Passes PROVE [y EXCEPT !.last = last] \in Passes
      BY <1>4 DEF Passes
    <2>2. ASSUME NEW y \in Passes PROVE [y EXCEPT !.batch = rest] \in Passes
      BY <1>3 DEF Passes
    <2>3. ASSUME NEW y \in Passes PROVE [y EXCEPT !.pc = pc] \in Passes
      BY <1>4 DEF Passes
    <2> QED BY <1>1, <1>5, <2>1, <2>2, <2>3
  <1>7. /\ Behind(done, rest).from = Billing.from
        /\ Behind(done, rest).batch = rest
        /\ Behind(done, rest).last = last
        /\ Behind(done, rest).pc = pc
    BY <1>1, <1>5 DEF Passes
  <1> QED BY <1>6, <1>7 DEF last, pc

\* The three ways a batch goes on.
LEMMA BillingType ==
    ASSUME TypeInv, Scan \/ CancelOk \/ CancelFails
    PROVE  TypeInv'
PROOF
  <1>1. At("billing", "scan") /\ Billing.from \in Nat /\ Billing.batch \subseteq Ids
    BY DEF Scan, CancelOk, CancelFails, TypeInv, Passes, Billing, At, Consumers
  <1>2. Scanned \subseteq Billing.batch
    BY DEF Scanned
  <1>3. PICK done \in SUBSET Billing.batch, rest \in SUBSET Billing.batch : Set("billing", Behind(done, rest))
    <2>1. CASE Scan
      BY <2>1 DEF Scan
    <2>2. CASE CancelOk
      BY <2>2, <1>2 DEF CancelOk
    <2>3. CASE CancelFails
      BY <2>3, <1>2 DEF CancelFails
    <2> QED BY <2>1, <2>2, <2>3
  <1> DEFINE r == Behind(done, rest)
  <1>4. r \in Passes /\ r.from \in Nat /\ (r.pc \in {"scan", "touch"} => r.batch # {})
    BY <1>1, <1>3, BehindType
  <1>5. /\ UNCHANGED <<runs, events, members, data, cursor, since, contact, skipped>>
        /\ faults' \in 0 .. MaxFaults
    BY OutboxAssumption DEF Scan, CancelOk, CancelFails, App, Web, Fault, TypeInv, TypeOK
  <1>6. cancelled' \subseteq Ids
    BY <1>1, <1>2 DEF Scan, CancelOk, CancelFails, Deleted, TypeInv, TypeOK
  <1> HIDE DEF r
  <1>7. "billing" \in Consumers /\ "billing" # "crm"
    BY DEF Consumers
  <1>8. Set("billing", r)
    BY <1>3 DEF r
  <1> QED BY <1>4, <1>5, <1>6, <1>7, <1>8, PassType DEF TypeInv, TypeOK

LEMMA CrmPass == TypeInv => Crm \in Passes /\ "crm" \in Consumers /\ "crm" # "billing"
  BY DEF TypeInv, Crm, Consumers

LEMMA TouchType == TypeInv /\ Touch => TypeInv'
PROOF
  <1> SUFFICES ASSUME TypeInv, Touch PROVE TypeInv'
    OBVIOUS
  <1> DEFINE first == [u \in Users |->
                LET ids == {i \in Crm.batch : u \in Named(events[i])} IN IF ids = {} THEN None ELSE Min(ids)]
             last == Max(Crm.batch)
             r == [Crm EXCEPT !.pc = "load", !.last = last, !.batch = {}, !.first = first]
  <1>1. Crm \in Passes /\ Crm.from \in Nat /\ Crm.batch \in SUBSET Ids /\ Crm.batch # {} /\ Ids \subseteq Int
    BY CrmPass DEF Touch, At, Crm, TypeInv, Passes, Consumers, Ids
  <1>2. last \in Int
    BY <1>1, BatchMax
  <1>3. first \in [Users -> Int]
    <2>1. ASSUME NEW ids \in SUBSET Ids PROVE (IF ids = {} THEN None ELSE Min(ids)) \in Int
      <3>1. CASE ids = {}
        BY <3>1 DEF None
      <3>2. CASE ids # {}
        <4>1. Min(ids) \in ids
          BY <3>2, BatchMin
        <4> QED BY <1>1, <3>2, <4>1
      <3> QED BY <3>1, <3>2
    <2>2. ASSUME NEW u \in Users PROVE first[u] \in Int
      <3> DEFINE ids == {i \in Crm.batch : u \in Named(events[i])}
      <3>1. ids \in SUBSET Ids
        BY <1>1
      <3>2. (IF ids = {} THEN None ELSE Min(ids)) \in Int
        <4> HIDE DEF ids
        <4> QED BY <2>1, <3>1
      <3> QED BY <3>2
    <2>3. first = [u \in Users |-> first[u]]
      OBVIOUS
    <2> HIDE DEF first
    <2> QED BY <2>2, <2>3
  <1>4. Set("crm", r) /\ UNCHANGED <<runs, events, members, data, cursor, since, cancelled, contact, skipped, faults>>
    BY DEF Touch, App, Web
  <1> HIDE DEF first, last
  <1>5. r \in Passes
    <2>1. ASSUME NEW y \in Passes PROVE [y EXCEPT !.pc = "load"] \in Passes
      BY DEF Passes, Pcs
    <2>2. ASSUME NEW y \in Passes PROVE [y EXCEPT !.last = last] \in Passes
      BY <1>2 DEF Passes
    <2>3. ASSUME NEW y \in Passes PROVE [y EXCEPT !.batch = {}] \in Passes
      BY DEF Passes
    <2>4. ASSUME NEW y \in Passes PROVE [y EXCEPT !.first = first] \in Passes
      BY <1>3 DEF Passes
    <2> QED BY <1>1, <2>1, <2>2, <2>3, <2>4
  <1>6. r.pc = "load" /\ r.from = Crm.from
    BY <1>1 DEF Passes
  <1> HIDE DEF r
  <1> QED BY <1>1, <1>4, <1>5, <1>6, CrmPass, PassType DEF TypeInv, TypeOK

LEMMA LoadType == TypeInv /\ Load => TypeInv'
PROOF
  <1> SUFFICES ASSUME TypeInv, Load PROVE TypeInv'
    OBVIOUS
  <1> DEFINE loaded == [u \in Users |-> IF u \in Left THEN data[u] ELSE 0]
             r == [Crm EXCEPT !.pc = "call", !.loaded = loaded]
  <1>1. Crm \in Passes /\ Crm.from \in Nat
    BY CrmPass DEF Load, At, Crm, TypeInv
  <1>2. loaded \in [Users -> Nat]
    BY DEF TypeInv, TypeOK
  <1>3. Set("crm", r) /\ UNCHANGED <<runs, events, members, data, cursor, since, cancelled, contact, skipped, faults>>
    BY DEF Load, App, Web
  <1> HIDE DEF loaded
  <1>4. r \in Passes /\ r.pc = "call" /\ r.from = Crm.from
    BY <1>1, <1>2 DEF Passes, Pcs
  <1> HIDE DEF r
  <1> QED BY <1>1, <1>3, <1>4, CrmPass, PassType DEF TypeInv, TypeOK

LEMMA AllCalledType == TypeInv /\ AllCalled => TypeInv'
PROOF
  <1> SUFFICES ASSUME TypeInv, AllCalled PROVE TypeInv'
    OBVIOUS
  <1> DEFINE r == [Crm EXCEPT !.pc = "advance"]
  <1>1. Crm \in Passes /\ Crm.from \in Nat /\ \A u \in Users : Crm.first[u] = None
    BY CrmPass DEF AllCalled, At, Crm, TypeInv, Left
  <1>2. Set("crm", r) /\ UNCHANGED <<runs, events, members, data, cursor, since, cancelled, contact, skipped, faults>>
    BY <1>1 DEF AllCalled, App, Web, Goto, Set, Crm, TypeInv
  <1>3. r \in Passes /\ r.pc = "advance" /\ r.from = Crm.from /\ r.first = Crm.first
    BY <1>1 DEF Passes, Pcs
  <1> HIDE DEF r
  <1> QED BY <1>1, <1>2, <1>3, CrmPass, PassType DEF TypeInv, TypeOK

\* Whom a call is about is named by an event, and is one of the users not yet called.
LEMMA CurrentIs ==
    ASSUME TypeInv, NEW u \in Users, Current(u)
    PROVE  /\ u = Now /\ Crm.pc = "call" /\ Crm \in Passes /\ Crm.from \in Nat
           /\ Left # {}
  BY CrmPass DEF Current, Now, At, Crm, TypeInv

\* The pass once a user is done with.
LEMMA NextUserIs ==
    ASSUME NEW u \in Users, Crm \in Passes
    PROVE  /\ NextUser(u) \in Passes
           /\ NextUser(u).pc = Crm.pc /\ NextUser(u).from = Crm.from /\ NextUser(u).step = "put"
PROOF
  <1>1. ASSUME NEW y \in Passes PROVE [y EXCEPT !.first[u] = None] \in Passes
    BY DEF Passes, None
  <1>2. ASSUME NEW y \in Passes PROVE [y EXCEPT !.loaded[u] = 0] \in Passes
    BY DEF Passes
  <1>3. ASSUME NEW y \in Passes PROVE [y EXCEPT !.step = "put"] \in Passes
    BY DEF Passes
  <1>4. NextUser(u) \in Passes
    BY <1>1, <1>2, <1>3 DEF NextUser
  <1>5. NextUser(u).pc = Crm.pc /\ NextUser(u).from = Crm.from
    BY DEF NextUser, Passes
  <1>6. NextUser(u).step = "put"
    BY DEF NextUser, Passes
  <1> QED BY <1>4, <1>5, <1>6

Contacts == [exists : BOOLEAN, ours : BOOLEAN, ver : Nat, listed : BOOLEAN, left : BOOLEAN]

\* What a call makes of a contact.
LEMMA EffectIs ==
    ASSUME TypeInv, NEW u \in Users, Current(u)
    PROVE  /\ Effect(u) \in [Users -> Contacts]
           /\ \A v \in Users : Effect(u)[v].ours => Effect(u)[v].exists
           /\ \A v \in Users : v # u => Effect(u)[v] = contact[v]
           /\ Effect(u)[u].left = contact[u].left
           /\ contact[u].ours => Effect(u)[u].ours
           /\ Effect(u)[u].listed => Effect(u)[u].ours \/ contact[u].listed
           /\ ~Creates(u) => Effect(u)[u].listed = contact[u].listed
PROOF
  <1>1. contact \in [Users -> Contacts] /\ \A v \in Users : contact[v].ours => contact[v].exists
    BY DEF TypeInv, TypeOK, Contacts
  <1>2. Crm.loaded[u] \in Nat
    BY CrmPass DEF Passes
  <1>3. Updates(u) \in BOOLEAN /\ Creates(u) \in BOOLEAN
    BY <1>1 DEF Updates, Creates, Contacts
  <1> DEFINE new == [exists |-> TRUE, ours |-> TRUE, ver |-> Crm.loaded[u],
                     listed |-> Creates(u) \/ contact[u].listed, left |-> contact[u].left]
  <1>4. new \in Contacts /\ new.left = contact[u].left /\ new.ours /\ new.exists
        /\ (~Creates(u) => new.listed = contact[u].listed)
    BY <1>1, <1>2, <1>3 DEF Contacts
  <1>5. Effect(u) = IF Updates(u) \/ Creates(u) THEN [contact EXCEPT ![u] = new] ELSE contact
    BY <1>1 DEF Effect
  <1> HIDE DEF new
  <1>6. CASE ~(Updates(u) \/ Creates(u))
    BY <1>1, <1>5, <1>6
  <1>7. CASE Updates(u) \/ Creates(u)
    BY <1>1, <1>4, <1>5, <1>7
  <1> QED BY <1>6, <1>7

LEMMA CallOkType ==
    ASSUME TypeInv, NEW u \in Users, CallOk(u)
    PROVE  TypeInv'
PROOF
  <1> DEFINE r == IF Following(u) = "done" THEN NextUser(u) ELSE [Crm EXCEPT !.step = Following(u)]
  <1>1. Current(u) /\ contact' = Effect(u) /\ Set("crm", r)
        /\ UNCHANGED <<runs, events, members, data, faults, cursor, since, cancelled, skipped>>
    BY DEF CallOk, App, Web
  <1>2. Crm \in Passes /\ Crm.pc = "call" /\ Crm.from \in Nat
    BY <1>1, CurrentIs
  <1>3. r \in Passes /\ r.pc = "call" /\ r.from = Crm.from
    <2>1. CASE Following(u) = "done"
      BY <1>2, <2>1, NextUserIs
    <2>2. CASE Following(u) # "done"
      <3>1. Following(u) \in {"post", "claim"}
        BY <2>2 DEF Following
      <3> QED BY <1>2, <2>2, <3>1 DEF Passes
    <2> QED BY <2>1, <2>2
  <1>4. Effect(u) \in [Users -> Contacts] /\ \A v \in Users : Effect(u)[v].ours => Effect(u)[v].exists
    BY <1>1, EffectIs
  <1> HIDE DEF r
  <1> QED BY <1>1, <1>2, <1>3, <1>4, CrmPass, PassType DEF TypeInv, TypeOK, Contacts

LEMMA CallRefusedType ==
    ASSUME TypeInv, NEW u \in Users, CallRefused(u)
    PROVE  TypeInv'
PROOF
  <1>1. Current(u) /\ Set("crm", NextUser(u))
        /\ UNCHANGED <<runs, events, members, data, faults, cursor, since, cancelled, contact>>
        /\ skipped' = [skipped EXCEPT ![u] = Crm.loaded[u]]
    BY DEF CallRefused, App, Web
  <1>2. Crm \in Passes /\ Crm.pc = "call" /\ Crm.from \in Nat
    BY <1>1, CurrentIs
  <1>3. NextUser(u) \in Passes /\ NextUser(u).pc = "call" /\ NextUser(u).from = Crm.from
    BY <1>2, NextUserIs
  <1>4. skipped' \in [Users -> Nat]
    BY <1>1, <1>2 DEF Passes, TypeInv, TypeOK
  <1> QED BY <1>1, <1>2, <1>3, <1>4, CrmPass, PassType DEF TypeInv, TypeOK

LEMMA CallFailsType ==
    ASSUME TypeInv, NEW u \in Users, CallFails(u)
    PROVE  TypeInv'
PROOF
  <1> DEFINE last == Crm.first[u] - 1
             from == Crm.from
             r == [Idle EXCEPT !.pc = "advance", !.from = from, !.last = last]
  <1>1. Current(u) /\ contact' \in {contact, Effect(u)} /\ Set("crm", r)
        /\ UNCHANGED <<runs, events, members, data, cursor, since, cancelled, skipped>>
        /\ faults' \in 0 .. MaxFaults
    BY OutboxAssumption DEF CallFails, Fault, Web, TypeInv, TypeOK
  <1>2. Crm \in Passes /\ from \in Nat
    BY <1>1, CurrentIs
  <1>3. last \in Int
    BY <1>2 DEF Passes
  <1> HIDE DEF last, from
  <1>4. r \in Passes
    <2>1. ASSUME NEW y \in Passes PROVE [y EXCEPT !.pc = "advance"] \in Passes
      BY DEF Passes, Pcs
    <2>2. ASSUME NEW y \in Passes PROVE [y EXCEPT !.from = from] \in Passes
      BY <1>2 DEF Passes
    <2>3. ASSUME NEW y \in Passes PROVE [y EXCEPT !.last = last] \in Passes
      BY <1>3 DEF Passes
    <2> QED BY <2>1, <2>2, <2>3, IdleType
  <1>5. r.pc = "advance"
    BY IdleType DEF Passes
  <1>6. r.from = from
    BY IdleType DEF Passes
  <1>7. r.first = Idle.first
    BY IdleType DEF Passes
  <1>8. Effect(u) \in [Users -> Contacts] /\ \A v \in Users : Effect(u)[v].ours => Effect(u)[v].exists
    BY <1>1, EffectIs
  <1>9. contact' \in [Users -> Contacts] /\ \A v \in Users : contact'[v].ours => contact'[v].exists
    BY <1>1, <1>8 DEF TypeInv, TypeOK, Contacts
  <1> HIDE DEF r
  <1> QED BY <1>1, <1>2, <1>4, <1>5, <1>6, <1>7, <1>9, IdleFields, CrmPass, PassType DEF TypeInv, TypeOK, Contacts

\* Leaving the list changes one contact.
LEMMA UnsubscribeIs ==
    ASSUME TypeInv, NEW u \in Users, Unsubscribe(u)
    PROVE  /\ contact' \in [Users -> Contacts] /\ contact[u].listed
           /\ \A v \in Users : contact'[v].ours = contact[v].ours /\ contact'[v].exists = contact[v].exists
           /\ \A v \in Users : v # u => contact'[v] = contact[v]
           /\ ~contact'[u].listed
PROOF
  <1>1. contact \in [Users -> Contacts]
    BY DEF TypeInv, TypeOK, Contacts
  <1>2. contact' = [contact EXCEPT ![u] = [contact[u] EXCEPT !.listed = FALSE, !.left = TRUE]]
    BY <1>1 DEF Unsubscribe
  <1> DEFINE new == [contact[u] EXCEPT !.listed = FALSE, !.left = TRUE]
  <1>3. new \in Contacts /\ new.ours = contact[u].ours /\ new.exists = contact[u].exists /\ ~new.listed
    BY <1>1 DEF Contacts
  <1> HIDE DEF new
  <1>4. contact' = [contact EXCEPT ![u] = new] /\ contact[u].listed
    BY <1>2 DEF new, Unsubscribe
  <1> QED BY <1>1, <1>3, <1>4

LEMMA UnsubscribeType ==
    ASSUME TypeInv, NEW u \in Users, Unsubscribe(u)
    PROVE  TypeInv'
PROOF
  <1>1. UNCHANGED <<runs, events, members, data, faults, cursor, since, task, cancelled, skipped>>
    BY DEF Unsubscribe, App, Web
  <1>2. Left' = Left /\ Crm' = Crm
    BY <1>1 DEF Left, Crm
  <1> QED BY <1>1, <1>2, UnsubscribeIs DEF TypeInv, TypeOK, Contacts

LEMMA TypeStep == TypeInv /\ [Next]_vars => TypeInv'
PROOF
  <1> SUFFICES ASSUME TypeInv, [Next]_vars PROVE TypeInv'
    OBVIOUS
  <1>0. "billing" \in Consumers /\ "crm" \in Consumers
    BY DEF Consumers
  <1>1. CASE \E i \in Ids, type \in Types, u \in Users : Commit(i, type, u)
    BY <1>1, CommitType
  <1>2. ASSUME NEW c \in Consumers, Consume(c) PROVE TypeInv'
    BY <1>2, ReadCursorType, ReadEventsType, AdvanceType DEF Consume
  <1>3. CASE Scan \/ CancelOk \/ CancelFails
    BY <1>3, BillingType
  <1>4. CASE Touch \/ Load \/ AllCalled
    BY <1>4, TouchType, LoadType, AllCalledType
  <1>5. CASE \E u \in Users : CallOk(u) \/ CallRefused(u) \/ CallFails(u)
    BY <1>5, CallOkType, CallRefusedType, CallFailsType
  <1>6. CASE \E u \in Users : Unsubscribe(u)
    BY <1>6, UnsubscribeType
  <1>7. CASE \E c \in Consumers : PassEnds(c)
    BY <1>7, PassEndsType
  <1>8. CASE UNCHANGED vars
    BY <1>8 DEF vars, TypeInv, TypeOK, Crm, Left
  <1> QED BY <1>0, <1>1, <1>2, <1>3, <1>4, <1>5, <1>6, <1>7, <1>8 DEF Next, BillingStep, CrmStep

\* The passes, cursors and contacts keep their shape, and what a CRM pass knows of
\* users ends with its calls, for any number of users, events and faults.
THEOREM TypeCorrect == Spec => []TypeOK
PROOF
  <1>1. TypeInv => TypeOK
    BY DEF TypeInv
  <1> QED BY TypeInit, TypeStep, <1>1, PTL DEF Spec

-----------------------------------------------------------------------------
(* Lists. *)

\* A step that leaves the contacts alone, and the calls or their beginning.
LEMMA ListKept ==
    ASSUME ListInv, contact' = contact, Crm' = Crm \/ Crm'.step = "put"
    PROVE  ListInv'
PROOF
  <1>1. Crm' = Crm => Now' = Now /\ Left' = Left
    BY DEF Now, Left
  <1> QED BY <1>1 DEF ListInv, UnsubscribeStays

\* Between the CRM's calls there is none to make again.
LEMMA CrmKept ==
    ASSUME TypeInv, ListInv,
           \/ \E i \in Ids, type \in Types, u \in Users : Commit(i, type, u)
           \/ BillingStep \/ Consume("crm") \/ Touch \/ Load \/ AllCalled
           \/ \E u \in Users : CallRefused(u)
           \/ \E c \in Consumers : PassEnds(c)
    PROVE  contact' = contact /\ (Crm' = Crm \/ Crm'.step = "put")
PROOF
  <1>0. Crm \in Passes /\ task \in [Consumers -> Passes] /\ "crm" \in Consumers /\ "crm" # "billing"
    BY CrmPass DEF TypeInv
  <1>1. CASE \E i \in Ids, type \in Types, u \in Users : Commit(i, type, u)
    BY <1>1 DEF Commit, Crm
  <1>2. CASE BillingStep
    <2>1. \E r : Set("billing", r)
      BY <1>2 DEF BillingStep, Consume, ReadCursor, ReadEvents, Advance, Scan, CancelOk, CancelFails
    <2>2. contact' = contact
      BY <1>2 DEF BillingStep, Consume, ReadCursor, ReadEvents, Advance, Scan, CancelOk, CancelFails
    <2> QED BY <1>0, <2>1, <2>2 DEF Set, Crm
  <1>3. ASSUME NEW r, Set("crm", r) PROVE Crm' = r
    BY <1>0, <1>3 DEF Set, Crm
  <1>4. Crm.pc # "call" \/ Left = {} => Crm.step = "put"
    BY DEF ListInv
  <1>5. CASE ReadCursor("crm")
    <2> DEFINE from == IF cursor["crm"] # None THEN cursor["crm"] ELSE IF "crm" = "billing" THEN Newest ELSE 0
    <2>1. Set("crm", [Idle EXCEPT !.pc = "read", !.from = from, !.last = from]) /\ contact' = contact
      BY <1>5 DEF ReadCursor
    <2> HIDE DEF from
    <2>2. [Idle EXCEPT !.pc = "read", !.from = from, !.last = from].step = "put"
      BY DEF Idle
    <2> QED BY <1>3, <2>1, <2>2
  <1>6. CASE ReadEvents("crm")
    <2> DEFINE batch == FirstOf({i \in Committed : i > task["crm"].from})
               r == [Crm EXCEPT !.pc = "touch", !.batch = batch]
    <2>1. Crm.step = "put"
      BY <1>4, <1>6 DEF ReadEvents, At, Crm
    <2>2. r.step = Crm.step
      <3> HIDE DEF batch
      <3> QED BY <1>0 DEF Passes
    <2>3. Set("crm", IF batch = {} THEN Idle ELSE r) /\ contact' = contact
      BY <1>6 DEF ReadEvents, Crm
    <2> HIDE DEF r, batch
    <2> QED BY <1>3, <2>1, <2>2, <2>3, IdleFields
  <1>7. CASE Advance("crm")
    <2>1. Set("crm", Idle) /\ contact' = contact
      BY <1>7 DEF Advance
    <2> QED BY <1>3, <2>1, IdleFields
  <1>8. CASE Touch
    <2> DEFINE first == [u \in Users |->
                  LET ids == {i \in Crm.batch : u \in Named(events[i])} IN IF ids = {} THEN None ELSE Min(ids)]
               r == [Crm EXCEPT !.pc = "load", !.last = Max(Crm.batch), !.batch = {}, !.first = first]
    <2>1. Crm.step = "put" /\ Set("crm", r) /\ contact' = contact
      BY <1>4, <1>8 DEF Touch, At, Crm
    <2>2. r.step = Crm.step
      <3> HIDE DEF first
      <3> QED BY <1>0 DEF Passes
    <2> HIDE DEF r
    <2> QED BY <1>3, <2>1, <2>2
  <1>9. CASE Load
    <2> DEFINE loaded == [u \in Users |-> IF u \in Left THEN data[u] ELSE 0]
               r == [Crm EXCEPT !.pc = "call", !.loaded = loaded]
    <2>1. Crm.step = "put" /\ Set("crm", r) /\ contact' = contact
      BY <1>4, <1>9 DEF Load, At, Crm
    <2>2. r.step = Crm.step
      <3> HIDE DEF loaded
      <3> QED BY <1>0 DEF Passes
    <2> HIDE DEF r
    <2> QED BY <1>3, <2>1, <2>2
  <1>10. CASE AllCalled
    <2>1. Crm.step = "put" /\ contact' = contact
      BY <1>4, <1>10 DEF AllCalled
    <2>2. Crm' = [Crm EXCEPT !.pc = "advance"]
      BY <1>0, <1>10 DEF AllCalled, Goto, Crm
    <2> QED BY <1>0, <2>1, <2>2 DEF Passes
  <1>11. ASSUME NEW u \in Users, CallRefused(u) PROVE contact' = contact /\ Crm'.step = "put"
    <2>1. Set("crm", NextUser(u)) /\ contact' = contact
      BY <1>11 DEF CallRefused
    <2> QED BY <1>0, <1>3, <2>1, NextUserIs
  <1>12. ASSUME NEW c \in Consumers, PassEnds(c) PROVE contact' = contact /\ (Crm' = Crm \/ Crm'.step = "put")
    <2>1. Set(c, Idle) /\ contact' = contact
      BY <1>12 DEF PassEnds
    <2> QED BY <1>0, <2>1, IdleFields DEF Set, Crm
  <1> QED BY <1>1, <1>2, <1>5, <1>6, <1>7, <1>8, <1>9, <1>10, <1>11, <1>12 DEF Consume

\* A call keeps who is off the list off it.
LEMMA EffectKeeps ==
    ASSUME TypeInv, ListInv, NEW u \in Users, Current(u)
    PROVE  \A v \in Users : /\ Effect(u)[v].left => ~Effect(u)[v].listed
                            /\ Effect(u)[v].left \/ Effect(u)[v].listed => Effect(u)[v].ours
PROOF
  <1>1. \A v \in Users : (contact[v].left => ~contact[v].listed)
                         /\ (contact[v].left \/ contact[v].listed => contact[v].ours)
    BY DEF ListInv, UnsubscribeStays
  <1>2. Creates(u) => ~contact[u].ours
    <2>1. u = Now
      BY CurrentIs
    <2> QED BY <2>1 DEF Creates, ListInv
  <1>3. ASSUME NEW v \in Users, v # u
        PROVE  /\ Effect(u)[v].left => ~Effect(u)[v].listed
               /\ Effect(u)[v].left \/ Effect(u)[v].listed => Effect(u)[v].ours
    BY <1>1, <1>3, EffectIs
  <1>4. /\ Effect(u)[u].left => ~Effect(u)[u].listed
        /\ Effect(u)[u].left \/ Effect(u)[u].listed => Effect(u)[u].ours
    <2>1. CASE Creates(u)
      BY <1>1, <1>2, <2>1, EffectIs
    <2>2. CASE ~Creates(u)
      BY <1>1, <2>2, EffectIs
    <2> QED BY <2>1, <2>2
  <1> QED BY <1>3, <1>4

LEMMA CallOkList ==
    ASSUME TypeInv, ListInv, NEW u \in Users, CallOk(u)
    PROVE  ListInv'
PROOF
  <1>0. Crm \in Passes /\ task \in [Consumers -> Passes] /\ "crm" \in Consumers
    BY CrmPass DEF TypeInv
  <1>1. Current(u) /\ contact' = Effect(u) /\ u = Now /\ Crm.pc = "call" /\ Left # {}
    BY CurrentIs DEF CallOk
  <1>2. CASE Following(u) = "done"
    <2>1. Set("crm", NextUser(u))
      BY <1>2 DEF CallOk
    <2>2. Crm' = NextUser(u)
      BY <1>0, <2>1 DEF Set, Crm
    <2>3. Crm'.step = "put"
      BY <1>0, <2>2, NextUserIs
    <2> QED BY <1>1, <2>3, EffectKeeps DEF ListInv, UnsubscribeStays
  <1>3. CASE Following(u) # "done"
    <2>1. Set("crm", [Crm EXCEPT !.step = Following(u)])
      BY <1>3 DEF CallOk
    <2>2. Crm' = [Crm EXCEPT !.step = Following(u)]
      BY <1>0, <2>1 DEF Set, Crm
    <2>3. Crm'.pc = "call" /\ Crm'.first = Crm.first
      BY <1>0, <1>1, <2>2 DEF Passes
    <2>4. Left' = Left /\ Now' = Now
      BY <2>3 DEF Left, Now
    <2>5. ~contact[u].ours /\ ~Updates(u) /\ ~Creates(u)
      BY <1>1, <1>3 DEF Following, Updates, Creates, ListInv
    <2>6. contact' = contact
      BY <1>1, <2>5 DEF Effect
    <2> QED BY <1>1, <2>3, <2>4, <2>5, <2>6 DEF ListInv, UnsubscribeStays
  <1> QED BY <1>2, <1>3

LEMMA CallFailsList ==
    ASSUME TypeInv, ListInv, NEW u \in Users, CallFails(u)
    PROVE  ListInv'
PROOF
  <1> DEFINE last == Crm.first[u] - 1
             from == Crm.from
             r == [Idle EXCEPT !.pc = "advance", !.from = from, !.last = last]
  <1>1. Current(u) /\ contact' \in {contact, Effect(u)} /\ Set("crm", r)
    BY DEF CallFails
  <1> HIDE DEF last, from
  <1>2. r.step = "put"
    BY DEF Idle
  <1> HIDE DEF r
  <1>3. Crm'.step = "put"
    BY <1>1, <1>2, CrmPass DEF Set, Crm, TypeInv
  <1> QED BY <1>1, <1>3, EffectKeeps DEF ListInv, UnsubscribeStays

LEMMA ListStep == TypeInv /\ ListInv /\ [Next]_vars => ListInv'
PROOF
  <1> SUFFICES ASSUME TypeInv, ListInv, [Next]_vars PROVE ListInv'
    OBVIOUS
  <1>1. ASSUME NEW u \in Users, Unsubscribe(u) PROVE ListInv'
    <2>1. Crm' = Crm /\ Left' = Left /\ Now' = Now
      BY <1>1 DEF Unsubscribe, Crm, Left, Now
    <2>3. \A v \in Users : contact'[v].left => ~contact'[v].listed
      BY <1>1, UnsubscribeIs DEF ListInv, UnsubscribeStays
    <2>4. \A v \in Users : contact'[v].left \/ contact'[v].listed => contact'[v].ours
      BY <1>1, UnsubscribeIs DEF ListInv
    <2>5. Crm.step # "put" => \E v \in Users : v = Now /\ ~contact'[v].ours
      BY <1>1, UnsubscribeIs DEF ListInv
    <2> QED BY <2>1, <2>3, <2>4, <2>5 DEF ListInv, UnsubscribeStays
  <1>2. CASE UNCHANGED vars
    BY <1>2, ListKept DEF vars, Crm
  <1>3. CASE Next /\ ~(\E u \in Users : Unsubscribe(u) \/ CallOk(u) \/ CallFails(u))
    <2>1. contact' = contact /\ (Crm' = Crm \/ Crm'.step = "put")
      BY <1>3, CrmKept DEF Next, CrmStep
    <2> QED BY <2>1, ListKept
  <1> QED BY <1>1, <1>2, <1>3, CallOkList, CallFailsList DEF Next

\* Who left the list in Brevo stays off it, when answers are lost, passes end halfway
\* and calls are made again: every call that sets lists is about a contact without our
\* id, and nobody on or off the list lacks it.
THEOREM Unsubscribed == Spec => []UnsubscribeStays
PROOF
  <1>1. Init => ListInv
    BY IdleFields DEF Init, ListInv, UnsubscribeStays, Crm, Consumers
  <1>2. ListInv => UnsubscribeStays
    BY DEF ListInv
  <1> QED BY <1>1, <1>2, TypeInit, TypeStep, ListStep, PTL DEF Spec

-----------------------------------------------------------------------------
(* Cancellations. *)

LEMMA BillingPass == TypeInv => /\ Billing \in Passes /\ (Billing.pc # "idle" => Billing.from \in Nat)
                                /\ "billing" \in Consumers /\ "crm" # "billing"
  BY DEF TypeInv, Billing, Consumers

\* The newest event of a prefix.
LEMMA NewestOf ==
    ASSUME NEW n \in 0 .. MaxEvents, Committed = 1 .. n
    PROVE  Newest = n
PROOF
  <1>1. CASE n = 0
    BY <1>1 DEF Newest
  <1>2. CASE n # 0
    <2>1. n \in Nat /\ Committed \in SUBSET (0 .. n) /\ n \in Committed
      BY <1>2, OutboxAssumption
    <2>2. Max(Committed) \in Committed /\ \A y \in Committed : Max(Committed) >= y
      <3>1. \A S \in SUBSET (0 .. n) : S # {} => Max(S) \in S /\ \A y \in S : Max(S) >= y
        BY <2>1, GreatestIs
      <3> QED BY <2>1, <3>1
    <2>3. Max(Committed) >= n /\ Max(Committed) \in 1 .. n
      BY <2>1, <2>2
    <2>4. Newest = Max(Committed)
      BY <2>1 DEF Newest
    <2> QED BY <2>1, <2>3, <2>4
  <1> QED BY <1>1, <1>2

\* A batch of the events behind a cursor is an interval that begins right behind it.
LEMMA FirstOfInterval ==
    ASSUME NEW a \in Nat, NEW n \in Nat, FirstOf(a + 1 .. n) # {}
    PROVE  \E m \in a + 1 .. n : FirstOf(a + 1 .. n) = a + 1 .. m
PROOF
  <1> DEFINE S == a + 1 .. n
             m == IF n <= a + Batch THEN n ELSE a + Batch
  <1>1. Batch \in Nat /\ Batch # 0
    BY OutboxAssumption
  <1>2. ASSUME NEW i \in S PROVE Cardinality({j \in S : j < i}) = i - 1 - a
    <2>1. {j \in S : j < i} = a + 1 .. i - 1
      BY <1>2
    <2>2. Cardinality(a + 1 .. i - 1) = IF a + 1 > i - 1 THEN 0 ELSE (i - 1) - (a + 1) + 1
      BY FS_Interval
    <2>3. i \in Int /\ i >= a + 1
      BY <1>2
    <2>4. (IF a + 1 > i - 1 THEN 0 ELSE (i - 1) - (a + 1) + 1) = i - 1 - a
      BY <2>3
    <2> HIDE DEF S
    <2> QED BY <2>1, <2>2, <2>4
  <1>3. FirstOf(S) = {i \in S : i - 1 - a < Batch}
    BY <1>2 DEF FirstOf
  <1>4. FirstOf(S) = a + 1 .. m
    <2>1. m \in Int
      BY <1>1
    <2>2. ASSUME NEW i \in Int PROVE i <= m <=> i <= n /\ i - 1 - a < Batch
      BY <1>1
    <2>3. ASSUME NEW i \in Int PROVE i \in a + 1 .. m <=> i \in S /\ i - 1 - a < Batch
      <3>1. i \in a + 1 .. m <=> a + 1 <= i /\ i <= m
        <4> HIDE DEF m
        <4> QED BY <2>1
      <3>2. i \in S <=> a + 1 <= i /\ i <= n
        OBVIOUS
      <3> HIDE DEF m, S
      <3> QED BY <2>2, <3>1, <3>2
    <2>4. a + 1 .. m \subseteq Int /\ S \subseteq Int
      BY <2>1
    <2> HIDE DEF m, S
    <2> QED BY <1>3, <2>3, <2>4
  <1>5. m \in a + 1 .. n
    BY <1>1, <1>4
  <1> QED BY <1>4, <1>5

\* A step that leaves alone what billing knows.
LEMMA CancelKept ==
    ASSUME CancelInv, Billing' = Billing, events' = events, cursor'["billing"] = cursor["billing"],
           since' = since, cancelled' = cancelled
    PROVE  CancelInv'
  BY DEF CancelInv, Prefix, PassInv, DeletedIsCancelled, Committed, Deleted

\* A new event is behind no cursor.
LEMMA CommitCancel ==
    ASSUME InOrder, TypeInv, CancelInv, NEW i \in Ids, NEW type \in Types, NEW u \in Users, Commit(i, type, u)
    PROVE  CancelInv'
PROOF
  <1>1. PICK n \in 0 .. MaxEvents : Committed = 1 .. n
    BY DEF CancelInv, Prefix
  <1>2. n \in Nat /\ i = n + 1 /\ i \in 1 .. MaxEvents
    BY <1>1, NewestOf, OutboxAssumption DEF Commit, Ids
  <1>3. Billing' = Billing /\ UNCHANGED <<cursor, since, cancelled>>
    BY DEF Commit, Billing
  <1>4. \A j \in Ids : j # i => events'[j] = events[j]
    BY DEF Commit, TypeInv, TypeOK
  <1>5. events'[i].type = type
    BY DEF Commit, TypeInv, TypeOK
  <1>6. Committed' = Committed \union {i}
    BY <1>4, <1>5 DEF Committed, Types
  <1>7. n + 1 \in 0 .. MaxEvents /\ Committed' = 1 .. n + 1
    BY <1>1, <1>2, <1>6
  <1>8. \A j \in Deleted(Committed)' : j = i \/ j \in Deleted(Committed)
    BY <1>4, <1>6 DEF Deleted, Committed
  <1>9. Prefix'
    BY <1>7 DEF Prefix
  <1>10. Billing \in Passes /\ cursor["billing"] \in Int
    BY BillingPass DEF TypeInv, TypeOK, None
  <1>11. DeletedIsCancelled'
    BY <1>1, <1>2, <1>3, <1>8, <1>10 DEF CancelInv, DeletedIsCancelled
  <1>12. PassInv'
    <2>1. Billing.pc # "idle" /\ Billing.last > 0 => Billing.last <= n
      BY <1>1 DEF CancelInv, PassInv
    <2>2. Billing.last \in Int
      BY <1>10 DEF Passes
    <2>3. \A j \in Deleted(Committed)' : Billing.pc # "idle" /\ Billing.from < j /\ j <= Billing.last => j \in cancelled
      BY <1>2, <1>8, <2>1, <2>2 DEF CancelInv, PassInv
    <2> QED BY <1>3, <1>6, <2>3 DEF CancelInv, PassInv
  <1>13. (cursor["billing"] > 0 => cursor["billing"] \in Committed)'
    BY <1>3, <1>6 DEF CancelInv
  <1> QED BY <1>3, <1>9, <1>11, <1>12, <1>13 DEF CancelInv

LEMMA SetIs ==
    ASSUME TypeInv, NEW r, Set("billing", r)
    PROVE  Billing' = r
  BY BillingPass DEF Set, Billing, TypeInv

LEMMA ReadCursorCancel ==
    ASSUME TypeInv, CancelInv, ReadCursor("billing")
    PROVE  CancelInv'
PROOF
  <1> DEFINE from == IF cursor["billing"] # None THEN cursor["billing"] ELSE Newest
             r == [Idle EXCEPT !.pc = "read", !.from = from, !.last = from]
  <1>1. /\ Set("billing", r) /\ cursor' = [cursor EXCEPT !["billing"] = from]
        /\ since' = (IF cursor["billing"] = None THEN from ELSE since)
        /\ UNCHANGED <<events, cancelled>>
    BY DEF ReadCursor, App, Web
  <1>2. from \in Nat /\ (from > 0 => from \in Committed) /\ (cursor["billing"] # None => from = cursor["billing"])
    <2>1. Newest > 0 => Newest \in Committed
      <3>1. Committed = {} => Newest = 0
        BY DEF Newest
      <3> QED BY <3>1, NewestType
    <2> QED BY <2>1, NewestType, BillingPass DEF TypeInv, TypeOK, CancelInv
  <1> HIDE DEF from
  <1>3. r.pc = "read" /\ r.from = from /\ r.last = from
    BY IdleType DEF Passes
  <1> HIDE DEF r
  <1>4. Billing' = r /\ cursor'["billing"] = from
    BY <1>1, SetIs, BillingPass DEF TypeInv, TypeOK
  <1>5. Committed' = Committed /\ Deleted(Committed)' = Deleted(Committed)
    BY <1>1 DEF Committed, Deleted
  <1>6. PassInv'
    <2>1. \A i \in Deleted(Committed) : ~(from < i /\ i <= from)
      BY <1>2 DEF Deleted, Committed, Ids
    <2> QED BY <1>2, <1>3, <1>4, <1>5, <2>1 DEF PassInv
  <1>7. DeletedIsCancelled'
    <2>1. CASE cursor["billing"] = None
      <3>1. \A i \in Deleted(Committed) : ~(from < i /\ i <= from)
        BY <1>2 DEF Deleted, Committed, Ids
      <3> QED BY <1>1, <1>4, <1>5, <2>1, <3>1 DEF DeletedIsCancelled
    <2>2. CASE cursor["billing"] # None
      BY <1>1, <1>2, <1>4, <1>5, <2>2 DEF DeletedIsCancelled, CancelInv
    <2> QED BY <2>1, <2>2
  <1>8. Prefix'
    BY <1>5 DEF CancelInv, Prefix
  <1>9. (since = None <=> cursor["billing"] = None)'
    BY <1>1, <1>2, <1>4 DEF CancelInv, None
  <1>10. (cursor["billing"] > 0 => cursor["billing"] \in Committed)'
    BY <1>2, <1>4, <1>5
  <1> QED BY <1>6, <1>7, <1>8, <1>9, <1>10 DEF CancelInv

LEMMA ReadEventsCancel ==
    ASSUME TypeInv, CancelInv, ReadEvents("billing")
    PROVE  CancelInv'
PROOF
  <1> DEFINE batch == FirstOf({i \in Committed : i > Billing.from})
             r == [Billing EXCEPT !.pc = "scan", !.batch = batch]
  <1>1. /\ Set("billing", IF batch = {} THEN Idle ELSE r)
        /\ UNCHANGED <<events, cursor, since, cancelled>>
        /\ Billing.pc = "read" /\ Billing \in Passes /\ Billing.from \in Nat /\ Billing.last = Billing.from
    BY BillingPass DEF ReadEvents, At, Billing, App, Web, CancelInv, PassInv
  <1>2. PICK n \in 0 .. MaxEvents : Committed = 1 .. n
    BY DEF CancelInv, Prefix
  <1>3. n \in Nat /\ {i \in Committed : i > Billing.from} = Billing.from + 1 .. n
    BY <1>1, <1>2, OutboxAssumption
  <1>4. batch # {} => \E m \in Committed : batch = Billing.last + 1 .. m
    <2>1. ASSUME batch # {} PROVE \E m \in Billing.from + 1 .. n : batch = Billing.from + 1 .. m
      <3>1. batch = FirstOf(Billing.from + 1 .. n)
        BY <1>3
      <3> HIDE DEF batch
      <3> QED BY <1>1, <1>3, <2>1, <3>1, FirstOfInterval
    <2> HIDE DEF batch
    <2> QED BY <1>1, <1>2, <1>3, <2>1
  <1>5. Committed' = Committed /\ Deleted(Committed)' = Deleted(Committed)
    BY <1>1 DEF Committed, Deleted
  <1>6. CASE batch = {}
    <2>1. Billing' = Idle
      BY <1>1, <1>6, SetIs
    <2>2. PassInv'
      BY <2>1, IdleFields DEF PassInv
    <2> QED BY <1>1, <1>5, <2>2 DEF CancelInv, Prefix, DeletedIsCancelled
  <1>7. CASE batch # {}
    <2> HIDE DEF batch
    <2>1. Billing' = r
      BY <1>1, <1>7, SetIs
    <2>2. r.pc = "scan" /\ r.batch = batch /\ r.from = Billing.from /\ r.last = Billing.last
      BY <1>1 DEF Passes
    <2> HIDE DEF r
    <2>3. PassInv'
      BY <1>1, <1>4, <1>5, <1>7, <2>1, <2>2 DEF CancelInv, PassInv
    <2> QED BY <1>1, <1>5, <2>3 DEF CancelInv, Prefix, DeletedIsCancelled
  <1> QED BY <1>6, <1>7

LEMMA AdvanceCancel ==
    ASSUME TypeInv, CancelInv, Advance("billing")
    PROVE  CancelInv'
PROOF
  <1>1. /\ Set("billing", Idle) /\ UNCHANGED <<events, since, cancelled>>
        /\ Billing.pc = "advance" /\ Billing \in Passes /\ Billing.from \in Nat
        /\ Billing.from = cursor["billing"] /\ Billing.from <= Billing.last
    BY BillingPass DEF Advance, At, Billing, App, Web, CancelInv, PassInv
  <1>2. cursor'["billing"] = Billing.last
    <2>1. cursor' = IF Billing.last > Billing.from THEN [cursor EXCEPT !["billing"] = Billing.last] ELSE cursor
      BY DEF Advance, Billing
    <2>2. cursor \in [Consumers -> {None} \union Nat] /\ "billing" \in Consumers /\ Billing.last \in Int
      BY <1>1, BillingPass DEF TypeInv, TypeOK, Passes
    <2> QED BY <1>1, <2>1, <2>2
  <1>3. Billing' = Idle
    BY <1>1, SetIs
  <1>4. Committed' = Committed /\ Deleted(Committed)' = Deleted(Committed)
    BY <1>1 DEF Committed, Deleted
  <1>5. DeletedIsCancelled'
    <2>1. ASSUME NEW i \in Deleted(Committed), since # None, since < i, i <= Billing.last
          PROVE  i \in cancelled
      <3>1. i \in Int
        BY DEF Deleted, Committed, Ids
      <3>2. CASE i <= Billing.from
        BY <1>1, <2>1, <3>2 DEF CancelInv, DeletedIsCancelled
      <3>3. CASE Billing.from < i
        BY <1>1, <2>1, <3>3 DEF CancelInv, PassInv
      <3> QED BY <1>1, <3>1, <3>2, <3>3
    <2> QED BY <1>1, <1>2, <1>4, <2>1 DEF DeletedIsCancelled
  <1>6. PassInv'
    BY <1>3, IdleFields DEF PassInv
  <1>7. Prefix'
    BY <1>4 DEF CancelInv, Prefix
  <1>8. (since = None <=> cursor["billing"] = None)'
    <2>1. Billing.last \in Nat /\ Billing.from # None
      BY <1>1 DEF Passes, None
    <2> QED BY <1>1, <1>2, <2>1 DEF CancelInv, None
  <1>9. (cursor["billing"] > 0 => cursor["billing"] \in Committed)'
    BY <1>1, <1>2, <1>4 DEF CancelInv, PassInv
  <1> QED BY <1>5, <1>6, <1>7, <1>8, <1>9 DEF CancelInv

\* When a beginning of the batch is done, the pass goes on right behind it.
LEMMA BehindCancel ==
    ASSUME TypeInv, CancelInv, At("billing", "scan"),
           NEW done \in SUBSET Billing.batch, NEW rest \in SUBSET Billing.batch,
           \A i \in done, j \in Billing.batch : j <= i => j \in done,
           rest = {} \/ rest = Billing.batch \ done,
           Set("billing", Behind(done, rest)), UNCHANGED <<events, cursor, since>>,
           cancelled \subseteq cancelled', Deleted(done) \subseteq cancelled'
    PROVE  CancelInv'
PROOF
  <1> DEFINE a == Billing.last
             b == IF done = {} THEN a ELSE Max(done)
  <1>1. /\ Billing \in Passes /\ Billing.pc = "scan" /\ a \in Int
        /\ Billing.from \in Nat /\ Billing.from = cursor["billing"] /\ Billing.from <= a
    BY BillingPass DEF At, Billing, CancelInv, PassInv, Passes
  <1>2. PICK n \in 0 .. MaxEvents : Committed = 1 .. n
    BY DEF CancelInv, Prefix
  <1>3. PICK m \in Committed : Billing.batch = a + 1 .. m
    BY <1>1 DEF CancelInv, PassInv
  <1>4. m \in Int /\ Committed \subseteq Int /\ \A i \in a + 1 .. m : i \in Committed
    BY <1>1, <1>2, <1>3, OutboxAssumption
  <1>5. b \in Int /\ b >= a /\ done = a + 1 .. b /\ (b > 0 => b \in Committed)
    <2>1. CASE done = {}
      <3>1. b = a
        BY <2>1
      <3>2. a > 0 => a \in Committed
        BY <1>1 DEF CancelInv, PassInv
      <3> QED BY <1>1, <2>1, <3>1, <3>2
    <2>2. CASE done # {}
      <3>1. done \in SUBSET Ids
        BY <1>1 DEF Passes
      <3>2. b \in done /\ \A i \in done : b >= i
        BY <2>2, <3>1, BatchMax
      <3> HIDE DEF b
      <3>3. b \in a + 1 .. m /\ done \subseteq a + 1 .. m
        BY <1>3, <3>2
      <3>4. done = a + 1 .. b
        <4>1. ASSUME NEW i \in done PROVE i \in a + 1 .. b
          BY <1>1, <1>4, <3>2, <3>3
        <4>2. ASSUME NEW i \in a + 1 .. b PROVE i \in done
          BY <1>1, <1>3, <1>4, <3>2, <3>3
        <4> QED BY <4>1, <4>2
      <3> QED BY <1>1, <1>4, <3>3, <3>4
    <2> QED BY <2>1, <2>2
  <1>6. Billing' = Behind(done, rest)
    BY SetIs
  <1>7. /\ Billing'.from = Billing.from /\ Billing'.batch = rest /\ Billing'.last = b
        /\ Billing'.pc = IF rest = {} THEN "advance" ELSE "scan"
    BY <1>6, BehindType
  <1> HIDE DEF b
  <1>8. rest # {} => rest = b + 1 .. m
    <2>1. ASSUME NEW i \in Int PROVE i \in Billing.batch \ done <=> i \in b + 1 .. m
      BY <1>1, <1>3, <1>4, <1>5
    <2>2. Billing.batch \subseteq Int /\ b + 1 .. m \subseteq Int
      BY <1>1, <1>3, <1>4, <1>5
    <2>3. Billing.batch \ done = b + 1 .. m
      BY <2>1, <2>2
    <2> QED BY <2>3
  <1>9. \A i \in Deleted(Committed) : Billing.from < i /\ i <= b => i \in cancelled'
    <2> SUFFICES ASSUME NEW i \in Deleted(Committed), Billing.from < i, i <= b PROVE i \in cancelled'
      OBVIOUS
    <2>1. i \in Int
      BY <1>4 DEF Deleted
    <2>2. CASE i <= a
      BY <1>1, <2>2 DEF CancelInv, PassInv
    <2>3. CASE a < i
      <3>1. i \in done
        BY <1>1, <1>5, <2>1, <2>3
      <3> QED BY <3>1 DEF Deleted
    <2> QED BY <1>1, <2>1, <2>2, <2>3
  <1>10. Committed' = Committed /\ Deleted(Committed)' = Deleted(Committed)
    BY DEF Committed, Deleted
  <1>11. PassInv'
    <2>1. Billing'.pc = "scan" => \E k \in Committed : Billing'.batch = Billing'.last + 1 .. k
      BY <1>7, <1>8
    <2>2. Billing'.from <= Billing'.last
      BY <1>1, <1>5, <1>7
    <2> QED BY <1>1, <1>5, <1>7, <1>9, <1>10, <2>1, <2>2 DEF PassInv
  <1>12. DeletedIsCancelled'
    BY <1>10 DEF CancelInv, DeletedIsCancelled
  <1> QED BY <1>10, <1>11, <1>12 DEF CancelInv, Prefix

LEMMA BillingCancel ==
    ASSUME TypeInv, CancelInv, Scan \/ CancelOk \/ CancelFails
    PROVE  CancelInv'
PROOF
  <1>1. At("billing", "scan") /\ Billing.batch \subseteq Ids /\ Ids \subseteq Int /\ UNCHANGED <<events, cursor, since>>
    BY BillingPass DEF Scan, CancelOk, CancelFails, App, Web, Passes, Ids
  <1>2. Scanned \subseteq Billing.batch /\ \A i \in Scanned, j \in Billing.batch : j <= i => j \in Scanned
    <2>1. ASSUME NEW i \in Scanned, NEW j \in Billing.batch, j <= i,
                 NEW d \in Deleted(Billing.batch)
          PROVE  j <= d
      <3>1. i <= d /\ i \in Int /\ j \in Int /\ d \in Int
        BY <1>1, <2>1 DEF Scanned, Deleted
      <3> QED BY <2>1, <3>1
    <2> QED BY <2>1 DEF Scanned
  <1>3. CASE Scan
    <2>1. Deleted(Billing.batch) \subseteq cancelled' /\ cancelled' = cancelled
          /\ Set("billing", Behind(Billing.batch, {}))
      BY <1>3 DEF Scan
    <2> QED BY <1>1, <2>1, BehindCancel
  <1>4. CASE CancelOk
    <2>1. cancelled' = cancelled \union Deleted(Scanned)
          /\ Set("billing", Behind(Scanned, Billing.batch \ Scanned))
      BY <1>4 DEF CancelOk
    <2> QED BY <1>1, <1>2, <2>1, BehindCancel
  <1>5. CASE CancelFails
    <2> DEFINE done == Scanned \ Deleted(Scanned)
    <2>1. cancelled' = cancelled /\ Set("billing", Behind(done, {}))
      BY <1>5 DEF CancelFails
    <2>2. Deleted(done) = {}
      BY DEF Deleted
    <2>3. ASSUME NEW i \in done, NEW j \in Billing.batch, j <= i PROVE j \in done
      <3>1. i \in Scanned /\ j \in Scanned
        BY <1>2, <2>3
      <3>2. j \in Deleted(Scanned) => i = j
        <4>1. ASSUME j \in Deleted(Scanned) PROVE i <= j
          BY <1>2, <3>1, <4>1 DEF Scanned, Deleted
        <4>2. i \in Int /\ j \in Int
          BY <1>1, <1>2
        <4> QED BY <2>3, <4>1, <4>2
      <3> QED BY <3>1, <3>2
    <2>4. done \in SUBSET Billing.batch
      BY <1>2
    <2> HIDE DEF done
    <2> QED BY <1>1, <2>1, <2>2, <2>3, <2>4, BehindCancel
  <1> QED BY <1>3, <1>4, <1>5

\* The steps of the CRM and of Brevo, and the end of a pass.
LEMMA OtherCancel ==
    ASSUME TypeInv, CancelInv,
           \/ CrmStep \/ (\E u \in Users : Unsubscribe(u)) \/ (\E c \in Consumers : PassEnds(c))
    PROVE  CancelInv'
PROOF
  <1>0. "billing" \in Consumers /\ "crm" # "billing" /\ task \in [Consumers -> Passes]
        /\ cursor \in [Consumers -> {None} \union Nat]
    BY BillingPass DEF TypeInv, TypeOK
  <1>1. ASSUME NEW r, Set("crm", r) PROVE Billing' = Billing
    BY <1>0, <1>1 DEF Set, Billing
  <1>2. CASE CrmStep
    <2>1. \E r : Set("crm", r)
      BY <1>2 DEF CrmStep, Consume, ReadCursor, ReadEvents, Advance, Touch, Load, AllCalled, CallOk,
                  CallRefused, CallFails, Goto, Set
    <2>2. UNCHANGED <<events, since, cancelled>>
      BY <1>2 DEF CrmStep, Consume, ReadCursor, ReadEvents, Advance, Touch, Load, AllCalled, CallOk,
                  CallRefused, CallFails, App, Web
    <2>3. cursor'["billing"] = cursor["billing"]
      BY <1>0, <1>2 DEF CrmStep, Consume, ReadCursor, ReadEvents, Advance, Touch, Load, AllCalled, CallOk,
                  CallRefused, CallFails, App, Web
    <2> QED BY <1>1, <2>1, <2>2, <2>3, CancelKept
  <1>3. ASSUME NEW u \in Users, Unsubscribe(u) PROVE CancelInv'
    BY <1>3, CancelKept DEF Unsubscribe, App, Web, Billing
  <1>4. ASSUME NEW c \in Consumers, PassEnds(c) PROVE CancelInv'
    <2>1. Set(c, Idle) /\ UNCHANGED <<events, cursor, since, cancelled>>
      BY <1>4 DEF PassEnds
    <2>2. CASE c = "crm"
      BY <1>1, <2>1, <2>2, CancelKept
    <2>3. CASE c = "billing"
      <3>1. Billing' = Idle
        BY <2>1, <2>3, SetIs
      <3>2. PassInv'
        BY <3>1, IdleFields DEF PassInv
      <3>3. Committed' = Committed /\ Deleted(Committed)' = Deleted(Committed)
        BY <2>1 DEF Committed, Deleted
      <3> QED BY <2>1, <3>2, <3>3 DEF CancelInv, Prefix, DeletedIsCancelled
    <2> QED BY <2>2, <2>3 DEF Consumers
  <1> QED BY <1>2, <1>3, <1>4

LEMMA CancelStep == ASSUME InOrder PROVE TypeInv /\ CancelInv /\ [Next]_vars => CancelInv'
PROOF
  <1> SUFFICES ASSUME TypeInv, CancelInv, [Next]_vars PROVE CancelInv'
    OBVIOUS
  <1>1. CASE \E i \in Ids, type \in Types, u \in Users : Commit(i, type, u)
    BY <1>1, CommitCancel
  <1>2. CASE BillingStep
    BY <1>2, ReadCursorCancel, ReadEventsCancel, AdvanceCancel, BillingCancel DEF BillingStep, Consume
  <1>3. CASE CrmStep \/ (\E u \in Users : Unsubscribe(u)) \/ (\E c \in Consumers : PassEnds(c))
    BY <1>3, OtherCancel
  <1>4. CASE UNCHANGED vars
    BY <1>4, CancelKept DEF vars, Billing
  <1> QED BY <1>1, <1>2, <1>3, <1>4 DEF Next

\* Where transactions commit in the order of their ids: what the cursor of billing
\* has passed is cancelled, for any number of events and any size of a batch, through
\* failures in the middle of one, restarts and statements that throw.
THEOREM Cancellation == ASSUME InOrder PROVE Spec => []DeletedIsCancelled
PROOF
  <1>1. Init => CancelInv
    <2> SUFFICES ASSUME Init PROVE CancelInv
      OBVIOUS
    <2>1. Committed = {}
      BY DEF Init, Committed, NoEvent
    <2>2. 0 \in 0 .. MaxEvents /\ 1 .. 0 = {}
      BY OutboxAssumption
    <2>3. Billing = Idle /\ cursor["billing"] = None /\ since = None
      BY DEF Init, Billing, Consumers
    <2> QED BY <2>1, <2>2, <2>3, IdleFields DEF CancelInv, Prefix, PassInv, DeletedIsCancelled, Deleted, None
  <1>2. TypeInv /\ CancelInv /\ [Next]_vars => CancelInv'
    BY CancelStep
  <1>3. CancelInv => DeletedIsCancelled
    BY DEF CancelInv
  <1> QED BY <1>1, <1>2, <1>3, TypeInit, TypeStep, PTL DEF Spec

-----------------------------------------------------------------------------
(* Contacts. *)

\* What an event changed for a user has been sent, or its refusal is recorded; or an
\* event behind `last` names the user again.
Ver(i, u) == events[i].ver[u]
Has(i, u) == Ver(i, u) <= contact[u].ver \/ Ver(i, u) <= skipped[u]
Later(last, i, u) == \E j \in Committed : last < j /\ Ver(i, u) < Ver(j, u)

\* Versions grow with the events that name a user.  An event goes on naming whom it
\* changed, save one about all members: who is none any more has an event of that.
EventInv ==
    \A i \in Committed, u \in Users :
        /\ Ver(i, u) <= data[u]
        /\ u \in Named(events[i]) => Ver(i, u) > 0
        /\ Ver(i, u) > 0 =>
              \/ u \in Named(events[i])
              \/ \E j \in Committed : i < j /\ events[j].type = "removed" /\ events[j].user = u
        /\ \A j \in Committed : i < j /\ Ver(j, u) > 0 => Ver(i, u) < Ver(j, u)

DataInv == \A u \in Users : contact[u].ver <= data[u] /\ skipped[u] <= data[u]

Working == Crm.pc \in {"load", "call", "advance"}

\* A pass goes on from the cursor, and ends at an event or where it began.
SpanInv ==
    /\ cursor["crm"] > 0 => cursor["crm"] \in Committed
    /\ Crm.pc # "idle" => Crm.from = cursor["crm"]
    /\ Crm.pc = "touch" => \E m \in Committed : Crm.batch = Crm.from + 1 .. m
    /\ Working => Crm.from <= Crm.last /\ (Crm.last > 0 => Crm.last \in Committed)

\* Who is left to be called is named by an event of the pass, and is sent what is
\* newer than all those events and all that was sent or refused.
LeftInv ==
    \A u \in Left :
        /\ Crm.first[u] \in Committed /\ Crm.from < Crm.first[u] /\ Crm.first[u] <= Crm.last
        /\ Ver(Crm.first[u], u) > 0
        /\ Crm.pc = "call" =>
              /\ Crm.loaded[u] <= data[u] /\ contact[u].ver <= Crm.loaded[u] /\ skipped[u] <= Crm.loaded[u]
              /\ \A i \in Committed : i <= Crm.last => Ver(i, u) <= Crm.loaded[u]

\* What the pass has behind it.
DoneInv ==
    Working => \A i \in Committed, u \in Users :
        i <= Crm.last => Has(i, u) \/ Later(Crm.last, i, u) \/ u \in Left

FollowInv == Prefix /\ EventInv /\ DataInv /\ SpanInv /\ LeftInv /\ DoneInv /\ ContactsFollow


\* What the invariant speaks of, and that it is of the types it should be.
LEMMA FollowTypes ==
    ASSUME TypeInv
    PROVE  /\ Crm \in Passes /\ "crm" \in Consumers /\ "crm" # "billing"
           /\ Crm.last \in Int /\ Crm.from \in Int /\ Crm.loaded \in [Users -> Nat] /\ Crm.first \in [Users -> Int]
           /\ Crm.pc # "idle" => Crm.from \in Nat
           /\ cursor["crm"] \in {None} \union Nat /\ cursor["crm"] \in Int
           /\ Crm.pc \notin {"load", "call"} => Left = {}
           /\ \A i \in Committed : i \in Ids /\ i \in Nat /\ i > 0
           /\ \A i \in Committed, u \in Users : Ver(i, u) \in Nat
           /\ \A u \in Users : contact[u].ver \in Nat /\ skipped[u] \in Nat /\ data[u] \in Nat
PROOF
  <1>1. Crm \in Passes /\ "crm" \in Consumers /\ "crm" # "billing"
    BY CrmPass
  <1>2. Crm.last \in Int /\ Crm.from \in Int /\ Crm.loaded \in [Users -> Nat] /\ Crm.first \in [Users -> Int]
    BY <1>1 DEF Passes
  <1>3. Crm.pc # "idle" => Crm.from \in Nat
    BY <1>1 DEF TypeInv, Crm
  <1>4. cursor["crm"] \in {None} \union Nat /\ cursor["crm"] \in Int
    BY <1>1 DEF TypeInv, TypeOK, None
  <1>5. Crm.pc \notin {"load", "call"} => Left = {}
    BY DEF TypeInv, TypeOK
  <1>6. \A i \in Committed : i \in Ids /\ i \in Nat /\ i > 0
    BY DEF Committed, Ids
  <1>7. ASSUME NEW i \in Committed, NEW u \in Users PROVE Ver(i, u) \in Nat
    <2>1. events[i].ver \in [Users -> Nat]
      BY <1>6 DEF TypeInv, TypeOK
    <2> QED BY <2>1 DEF Ver
  <1>8. \A u \in Users : contact[u].ver \in Nat /\ skipped[u] \in Nat /\ data[u] \in Nat
    BY DEF TypeInv, TypeOK
  <1> QED BY <1>1, <1>2, <1>3, <1>4, <1>5, <1>6, <1>7, <1>8

LEMMA CrmSetIs ==
    ASSUME TypeInv, NEW r, Set("crm", r)
    PROVE  Crm' = r
  BY FollowTypes DEF Set, Crm, TypeInv

\* A step of a consumer, or of Brevo, writes no event.
LEMMA WebKept ==
    ASSUME FollowInv, UNCHANGED <<events, members, data>>
    PROVE  /\ Committed' = Committed /\ Prefix' /\ EventInv'
           /\ \A i \in Committed, u \in Users : Ver(i, u)' = Ver(i, u)
           /\ \A last, i, u : Later(last, i, u)' = Later(last, i, u)
           /\ \A i \in Committed : Named(events[i])' = Named(events[i])
PROOF
  <1>1. Committed' = Committed
    BY DEF Committed
  <1>2. \A i, u : Ver(i, u)' = Ver(i, u)
    BY DEF Ver
  <1>3. \A i : Named(events[i])' = Named(events[i])
    BY DEF Named
  <1>4. EventInv'
    BY <1>1, <1>2, <1>3 DEF FollowInv, EventInv
  <1>5. \A last, i, u : Later(last, i, u)' = Later(last, i, u)
    BY <1>1, <1>2 DEF Later
  <1> QED BY <1>1, <1>2, <1>3, <1>4, <1>5 DEF FollowInv, Prefix

\* What has been sent stays sent when versions in Brevo, and of refusals, only grow.
LEMMA HasKept ==
    ASSUME TypeInv, TypeInv', FollowInv, UNCHANGED <<events, members, data>>,
           \A u \in Users : contact[u].ver <= contact'[u].ver /\ skipped[u] <= skipped'[u]
    PROVE  \A i \in Committed, u \in Users : Has(i, u) => Has(i, u)'
PROOF
  <1> SUFFICES ASSUME NEW i \in Committed, NEW u \in Users, Has(i, u) PROVE Has(i, u)'
    OBVIOUS
  <1>1. /\ contact[u].ver \in Nat /\ skipped[u] \in Nat /\ contact'[u].ver \in Nat /\ skipped'[u] \in Nat
        /\ Ver(i, u) \in Nat
    BY FollowTypes DEF TypeInv, TypeOK
  <1>2. Ver(i, u)' = Ver(i, u)
    BY WebKept
  <1>3. Ver(i, u) <= contact'[u].ver \/ Ver(i, u) <= skipped'[u]
    BY <1>1 DEF Has
  <1> QED BY <1>2, <1>3 DEF Has

LEMMA FollowGrows ==
    ASSUME TypeInv, TypeInv', FollowInv, UNCHANGED <<events, members, data>>, cursor'["crm"] = cursor["crm"],
           \A u \in Users : contact[u].ver <= contact'[u].ver /\ skipped[u] <= skipped'[u]
    PROVE  ContactsFollow'
PROOF
  <1>1. \A i \in Committed, u \in Users :
            i <= cursor["crm"] => Has(i, u) \/ Later(cursor["crm"], i, u)
    BY DEF FollowInv, ContactsFollow, Has, Later, Ver
  <1>2. \A i \in Committed', u \in Users :
            i <= cursor'["crm"] => Has(i, u)' \/ Later(cursor["crm"], i, u)'
    BY <1>1, HasKept, WebKept
  <1> QED BY <1>2 DEF ContactsFollow, Has, Later, Ver

\* A step that leaves alone what the CRM knows.
LEMMA FollowKept ==
    ASSUME FollowInv, UNCHANGED <<events, members, data, skipped>>, cursor'["crm"] = cursor["crm"],
           Crm'.pc = Crm.pc, Crm'.from = Crm.from, Crm'.last = Crm.last, Crm'.batch = Crm.batch,
           Crm'.first = Crm.first, Crm'.loaded = Crm.loaded,
           \A u \in Users : contact'[u].ver = contact[u].ver
    PROVE  FollowInv'
PROOF
  <1>1. Left' = Left /\ (Working' <=> Working)
    BY DEF Left, Working
  <1>2. \A i, u : Ver(i, u)' = Ver(i, u)
    BY DEF Ver
  <1>3. \A i \in Committed, u \in Users : Has(i, u)' <=> Has(i, u)
    BY <1>2 DEF Has
  <1>4. DataInv'
    BY DEF FollowInv, DataInv
  <1>5. SpanInv'
    BY <1>1, WebKept DEF FollowInv, SpanInv
  <1>6. LeftInv'
    <2>1. \A u \in Left : u \in Users
      BY DEF Left
    <2> QED BY <1>1, <1>2, <2>1, WebKept DEF FollowInv, LeftInv
  <1>7. DoneInv'
    BY <1>1, <1>3, WebKept DEF FollowInv, DoneInv
  <1>8. ContactsFollow'
    <2>1. \A i \in Committed, u \in Users :
            i <= cursor["crm"] => Has(i, u) \/ Later(cursor["crm"], i, u)
      BY DEF FollowInv, ContactsFollow, Has, Later, Ver
    <2>2. \A i \in Committed', u \in Users :
            i <= cursor'["crm"] => Has(i, u)' \/ Later(cursor["crm"], i, u)'
      BY <1>3, <2>1, WebKept
    <2> QED BY <2>2 DEF ContactsFollow, Has, Later, Ver
  <1> QED BY <1>4, <1>5, <1>6, <1>7, <1>8, WebKept DEF FollowInv

\* The pass is over, or has only begun.
LEMMA NoPass ==
    ASSUME TypeInv, TypeInv', FollowInv, UNCHANGED <<events, members, data, contact, skipped>>,
           Crm'.pc \in {"idle", "read"}, Crm'.pc = "read" => Crm'.from = cursor'["crm"],
           cursor'["crm"] > 0 => cursor'["crm"] \in Committed, ContactsFollow'
    PROVE  FollowInv'
PROOF
  <1>1. Left' = {} /\ ~Working'
    BY DEF TypeInv, TypeOK, Working
  <1>2. DataInv'
    BY DEF FollowInv, DataInv
  <1>3. SpanInv'
    BY <1>1, WebKept DEF SpanInv
  <1> QED BY <1>1, <1>2, <1>3, WebKept DEF FollowInv, LeftInv, DoneInv

LEMMA ReadCursorFollow ==
    ASSUME TypeInv, TypeInv', FollowInv, ReadCursor("crm")
    PROVE  FollowInv'
PROOF
  <1> DEFINE from == IF cursor["crm"] # None THEN cursor["crm"] ELSE 0
             r == [Idle EXCEPT !.pc = "read", !.from = from, !.last = from]
  <1>1. /\ Set("crm", r) /\ cursor' = [cursor EXCEPT !["crm"] = from]
        /\ UNCHANGED <<events, members, data, contact, skipped>>
    BY FollowTypes DEF ReadCursor, App, Web
  <1>2. from \in Nat /\ (cursor["crm"] # None => from = cursor["crm"]) /\ (cursor["crm"] = None => from = 0)
    BY FollowTypes
  <1> HIDE DEF from
  <1>3. r.pc = "read" /\ r.from = from
    BY DEF Idle
  <1> HIDE DEF r
  <1>4. Crm' = r /\ cursor'["crm"] = from
    BY <1>1, CrmSetIs, FollowTypes DEF TypeInv, TypeOK
  <1>5. from > 0 => from \in Committed
    BY <1>2 DEF FollowInv, SpanInv
  <1>6. ContactsFollow'
    <2>1. CASE cursor["crm"] # None
      <3>1. cursor'["crm"] = cursor["crm"]
        BY <1>2, <1>4, <2>1
      <3>2. \A u \in Users : contact[u].ver <= contact'[u].ver /\ skipped[u] <= skipped'[u]
        BY <1>1, FollowTypes
      <3> QED BY <1>1, <3>1, <3>2, FollowGrows
    <2>2. CASE cursor["crm"] = None
      <3>1. \A i \in Committed' : ~(i <= 0)
        BY FollowTypes DEF Committed, Ids
      <3> QED BY <1>2, <1>4, <2>2, <3>1 DEF ContactsFollow
    <2> QED BY <2>1, <2>2
  <1> QED BY <1>1, <1>3, <1>4, <1>5, <1>6, NoPass

LEMMA EndFollow ==
    ASSUME TypeInv, TypeInv', FollowInv, UNCHANGED <<events, members, data, contact, skipped>>,
           Crm' = Idle, cursor'["crm"] = cursor["crm"]
    PROVE  FollowInv'
PROOF
  <1>1. \A u \in Users : contact[u].ver <= contact'[u].ver /\ skipped[u] <= skipped'[u]
    BY FollowTypes
  <1>2. ContactsFollow'
    BY <1>1, FollowGrows
  <1>3. cursor'["crm"] > 0 => cursor'["crm"] \in Committed
    BY DEF FollowInv, SpanInv
  <1> QED BY <1>2, <1>3, IdleFields, NoPass

LEMMA ReadEventsFollow ==
    ASSUME TypeInv, TypeInv', FollowInv, ReadEvents("crm")
    PROVE  FollowInv'
PROOF
  <1> DEFINE batch == FirstOf({i \in Committed : i > Crm.from})
             r == [Crm EXCEPT !.pc = "touch", !.batch = batch]
  <1>1. /\ Set("crm", IF batch = {} THEN Idle ELSE r)
        /\ UNCHANGED <<events, members, data, contact, skipped, cursor>>
        /\ Crm.pc = "read" /\ Crm \in Passes /\ Crm.from \in Nat /\ Crm.from = cursor["crm"]
    BY FollowTypes DEF ReadEvents, At, Crm, App, Web, FollowInv, SpanInv
  <1>2. CASE batch = {}
    <2>1. Crm' = Idle
      BY <1>1, <1>2, CrmSetIs
    <2> QED BY <1>1, <2>1, EndFollow
  <1>3. CASE batch # {}
    <2>1. PICK n \in 0 .. MaxEvents : Committed = 1 .. n
      BY DEF FollowInv, Prefix
    <2>2. n \in Nat /\ {i \in Committed : i > Crm.from} = Crm.from + 1 .. n
      BY <1>1, <2>1, OutboxAssumption
    <2>3. batch = FirstOf(Crm.from + 1 .. n)
      BY <2>2
    <2> HIDE DEF batch
    <2>4. PICK m \in Crm.from + 1 .. n : batch = Crm.from + 1 .. m
      BY <1>1, <1>3, <2>2, <2>3, FirstOfInterval
    <2>5. m \in Committed
      BY <1>1, <2>1, <2>2, <2>4
    <2>6. Crm' = r
      BY <1>1, <1>3, CrmSetIs
    <2>7. r.pc = "touch" /\ r.batch = batch /\ r.from = Crm.from
      BY <1>1 DEF Passes
    <2> HIDE DEF r
    <2>8. Left' = {} /\ ~Working'
      BY <2>6, <2>7 DEF TypeInv, TypeOK, Working
    <2>9. DataInv'
      BY <1>1 DEF FollowInv, DataInv
    <2>10. SpanInv'
      BY <1>1, <2>4, <2>5, <2>6, <2>7, <2>8, WebKept DEF FollowInv, SpanInv
    <2>11. \A u \in Users : contact[u].ver <= contact'[u].ver /\ skipped[u] <= skipped'[u]
      BY <1>1, FollowTypes
    <2>12. ContactsFollow'
      BY <1>1, <2>11, FollowGrows
    <2> QED BY <1>1, <2>8, <2>9, <2>10, <2>12, WebKept DEF FollowInv, LeftInv, DoneInv
  <1> QED BY <1>2, <1>3

LEMMA AdvanceFollow ==
    ASSUME TypeInv, TypeInv', FollowInv, Advance("crm")
    PROVE  FollowInv'
PROOF
  <1>1. /\ Set("crm", Idle) /\ UNCHANGED <<events, members, data, contact, skipped>>
        /\ Crm.pc = "advance" /\ Crm.from = cursor["crm"] /\ Left = {}
    BY FollowTypes DEF Advance, At, Crm, App, Web, FollowInv, SpanInv
  <1>2. Crm' = Idle
    BY <1>1, CrmSetIs
  <1>3. cursor'["crm"] = IF Crm.last > Crm.from THEN Crm.last ELSE cursor["crm"]
    BY FollowTypes DEF Advance, Crm, TypeInv, TypeOK
  <1>4. CASE ~(Crm.last > Crm.from)
    BY <1>1, <1>2, <1>3, <1>4, EndFollow
  <1>5. CASE Crm.last > Crm.from
    <2>0. PICK last \in Int : last = Crm.last
      BY FollowTypes
    <2>1. Crm.last > 0 => Crm.last \in Committed
      BY <1>1 DEF FollowInv, SpanInv, Working
    <2>2. \A i \in Committed, u \in Users : i <= last => Has(i, u) \/ Later(last, i, u)
      BY <1>1, <2>0 DEF FollowInv, DoneInv, Working
    <2>3. \A i \in Committed, u \in Users : Has(i, u)' <=> Has(i, u)
      BY <1>1 DEF Has, Ver
    <2>4. \A i \in Committed', u \in Users : i <= cursor'["crm"] => Has(i, u)' \/ Later(last, i, u)'
      BY <1>1, <1>3, <1>5, <2>0, <2>2, <2>3, WebKept
    <2>5. ContactsFollow'
      BY <1>3, <1>5, <2>0, <2>4 DEF ContactsFollow, Has, Later, Ver
    <2> QED BY <1>1, <1>2, <1>3, <1>5, <2>1, <2>5, IdleFields, NoPass
  <1> QED BY <1>4, <1>5


\* The users whom a batch names are left to be called, and what it changed for another
\* has an event behind it.
LEMMA TouchedIs ==
    ASSUME TypeInv, FollowInv, Touch
    PROVE  \E m \in Committed :
              /\ Crm'.pc = "load" /\ Crm'.last = m /\ Crm'.from = Crm.from /\ Crm.from < m
              /\ Crm.from \in Nat /\ Crm.from = cursor["crm"]
              /\ \A u \in Left' : /\ Crm'.first[u] \in Committed /\ Crm.from < Crm'.first[u] /\ Crm'.first[u] <= m
                                  /\ u \in Named(events[Crm'.first[u]])
              /\ \A j \in Committed, u \in Users :
                    Crm.from < j /\ j <= m /\ u \in Named(events[j]) => u \in Left'
PROOF
  <1> DEFINE ids(u) == {i \in Crm.batch : u \in Named(events[i])}
             first == [u \in Users |-> IF ids(u) = {} THEN None ELSE Min(ids(u))]
             last == Max(Crm.batch)
             r == [Crm EXCEPT !.pc = "load", !.last = last, !.batch = {}, !.first = first]
  <1>1. /\ Crm \in Passes /\ Crm.pc = "touch" /\ Crm.from = cursor["crm"] /\ Crm.from \in Nat /\ Set("crm", r)
        /\ Crm.batch \in SUBSET Ids /\ Crm.batch # {}
    BY FollowTypes DEF Touch, At, FollowInv, SpanInv, TypeInv, Crm, Passes
  <1>2. PICK n \in 0 .. MaxEvents : Committed = 1 .. n
    BY DEF FollowInv, Prefix
  <1>3. PICK m \in Committed : Crm.batch = Crm.from + 1 .. m
    BY <1>1 DEF FollowInv, SpanInv
  <1>4. m \in Nat /\ n \in Nat /\ m <= n
    BY <1>2, <1>3, OutboxAssumption
  <1>5. last = m /\ Crm.from < m
    <2>1. last \in Crm.batch /\ \A i \in Crm.batch : last >= i
      BY <1>1, BatchMax
    <2>2. m \in Crm.batch
      BY <1>1, <1>3, <1>4
    <2> HIDE DEF last
    <2>3. last \in Crm.from + 1 .. m /\ last >= m
      BY <1>3, <2>1, <2>2
    <2> QED BY <1>1, <1>4, <2>3
  <1>6. \A j \in Crm.batch : j \in Committed /\ j \in Nat /\ Crm.from < j /\ j <= m
    BY <1>1, <1>2, <1>3, <1>4
  <1>7. \A j \in Committed : Crm.from < j /\ j <= m => j \in Crm.batch
    BY <1>1, <1>2, <1>3, <1>4
  <1>8. ASSUME NEW u \in Users
        PROVE  /\ first[u] # None => first[u] \in ids(u)
               /\ ids(u) # {} => first[u] # None
    <2>1. ids(u) \in SUBSET Ids
      BY <1>1
    <2>2. first[u] = IF ids(u) = {} THEN None ELSE Min(ids(u))
      OBVIOUS
    <2> HIDE DEF ids, first
    <2>3. CASE ids(u) = {}
      BY <2>2, <2>3
    <2>4. CASE ids(u) # {}
      <3>1. Min(ids(u)) \in ids(u)
        BY <2>1, <2>4, BatchMin
      <3>2. Min(ids(u)) # None
        BY <2>1, <3>1 DEF Ids, None
      <3> QED BY <2>2, <2>4, <3>1, <3>2
    <2> QED BY <2>3, <2>4
  <1> HIDE DEF first, last
  <1>9. Crm' = r
    BY <1>1, CrmSetIs
  <1>10. r.pc = "load" /\ r.last = last /\ r.from = Crm.from /\ r.first = first
    BY <1>1 DEF Passes
  <1> HIDE DEF r
  <1>11. Left' = {u \in Users : first[u] # None} /\ Crm'.first = first
    BY <1>9, <1>10 DEF Left
  <1>12. ASSUME NEW u \in Left'
         PROVE  /\ Crm'.first[u] \in Committed /\ Crm.from < Crm'.first[u] /\ Crm'.first[u] <= m
                /\ u \in Named(events[Crm'.first[u]])
    <2>1. u \in Users /\ first[u] \in ids(u)
      BY <1>8, <1>11
    <2>2. first[u] \in Crm.batch /\ u \in Named(events[first[u]])
      BY <2>1
    <2> QED BY <1>6, <1>11, <2>2
  <1>13. ASSUME NEW j \in Committed, NEW u \in Users, Crm.from < j, j <= m, u \in Named(events[j])
         PROVE  u \in Left'
    <2>1. j \in ids(u)
      BY <1>7, <1>13
    <2> QED BY <1>8, <1>11, <2>1
  <1>14. /\ Crm'.pc = "load" /\ Crm'.last = m /\ Crm'.from = Crm.from /\ Crm.from < m
         /\ Crm.from \in Nat /\ Crm.from = cursor["crm"]
    BY <1>1, <1>5, <1>9, <1>10
  <1> QED BY <1>12, <1>13, <1>14

LEMMA TouchFollow ==
    ASSUME TypeInv, TypeInv', FollowInv, Touch
    PROVE  FollowInv'
PROOF
  <1>1. UNCHANGED <<events, members, data, contact, skipped, cursor>>
    BY DEF Touch, App, Web
  <1>2. PICK m \in Committed :
              /\ Crm'.pc = "load" /\ Crm'.last = m /\ Crm'.from = Crm.from /\ Crm.from < m
              /\ Crm.from \in Nat /\ Crm.from = cursor["crm"]
              /\ \A u \in Left' : /\ Crm'.first[u] \in Committed /\ Crm.from < Crm'.first[u] /\ Crm'.first[u] <= m
                                  /\ u \in Named(events[Crm'.first[u]])
              /\ \A j \in Committed, u \in Users :
                    Crm.from < j /\ j <= m /\ u \in Named(events[j]) => u \in Left'
    BY TouchedIs
  <1> DEFINE from == Crm.from
  <1>3. m \in Nat /\ from \in Nat /\ \A i \in Committed : i \in Nat
    BY <1>2, FollowTypes
  <1>4. ASSUME NEW j \in Committed, NEW u \in Users, from < j, j <= m, Ver(j, u) > 0
        PROVE  u \in Left' \/ Later(m, j, u)
    <2>1. CASE u \in Named(events[j])
      BY <1>2, <1>4, <2>1
    <2>2. CASE u \notin Named(events[j])
      <3>1. PICK k \in Committed : j < k /\ events[k].type = "removed" /\ events[k].user = u
        BY <1>4, <2>2 DEF FollowInv, EventInv
      <3>2. u \in Named(events[k])
        BY <3>1 DEF Named
      <3>3. Ver(k, u) > 0
        BY <3>2 DEF FollowInv, EventInv
      <3>4. Ver(j, u) < Ver(k, u)
        BY <3>1, <3>3 DEF FollowInv, EventInv
      <3>5. CASE k <= m
        <4>1. from < k
          <5>1. from \in Nat /\ j \in Nat /\ k \in Nat
            BY <1>3
          <5> QED BY <1>4, <3>1, <5>1
        <4> QED BY <1>2, <3>2, <3>5, <4>1
      <3>6. CASE m < k
        BY <3>4, <3>6 DEF Later
      <3> QED BY <1>3, <3>5, <3>6
    <2> QED BY <2>1, <2>2
  <1>5. ASSUME NEW i \in Committed, NEW u \in Users, i <= m
        PROVE  Has(i, u) \/ Later(m, i, u) \/ u \in Left'
    <2>0. Ver(i, u) \in Nat /\ contact[u].ver \in Nat
      BY FollowTypes
    <2>1. CASE i <= from /\ ~Has(i, u)
      <3>1. PICK j \in Committed : from < j /\ Ver(i, u) < Ver(j, u)
        BY <1>2, <2>1 DEF FollowInv, ContactsFollow, Has, Ver
      <3>2. Ver(j, u) \in Nat
        BY FollowTypes
      <3>3. CASE m < j
        BY <3>1, <3>3 DEF Later
      <3>4. CASE j <= m
        <4>1. u \in Left' \/ Later(m, j, u)
          BY <1>4, <2>0, <3>1, <3>2, <3>4
        <4>2. ASSUME Later(m, j, u) PROVE Later(m, i, u)
          <5>1. PICK k \in Committed : m < k /\ Ver(j, u) < Ver(k, u)
            BY <4>2 DEF Later
          <5>2. Ver(k, u) \in Nat
            BY FollowTypes
          <5>3. Ver(i, u) < Ver(k, u)
            BY <2>0, <3>1, <3>2, <5>1, <5>2
          <5> QED BY <5>1, <5>3 DEF Later
        <4> QED BY <4>1, <4>2
      <3> QED BY <1>3, <3>3, <3>4
    <2>2. CASE from < i /\ Ver(i, u) > 0
      BY <1>4, <1>5, <2>2
    <2>3. CASE ~(Ver(i, u) > 0)
      BY <2>0, <2>3 DEF Has
    <2> QED BY <1>3, <2>0, <2>1, <2>2, <2>3
  <1>6. \A i \in Committed, u \in Users : Has(i, u)' <=> Has(i, u)
    BY <1>1 DEF Has, Ver
  <1>7. DoneInv'
    <2>1. \A i \in Committed', u \in Users : i <= m => Has(i, u)' \/ Later(m, i, u)' \/ u \in Left'
      BY <1>1, <1>5, <1>6, WebKept
    <2> QED BY <1>2, <2>1 DEF DoneInv, Later, Ver
  <1>8. LeftInv'
    <2>1. ASSUME NEW u \in Left', NEW i \in Committed, i = Crm'.first[u] PROVE Ver(i, u)' > 0
      <3>1. u \in Named(events[i]) /\ u \in Users
        BY <1>2, <2>1 DEF Left
      <3>2. Ver(i, u) > 0
        BY <3>1 DEF FollowInv, EventInv
      <3> QED BY <1>1, <3>1, <3>2, WebKept
    <2>2. ASSUME NEW u \in Left' PROVE Ver(Crm.first[u], u)' > 0
      <3>1. PICK i \in Committed : i = Crm'.first[u]
        BY <1>2
      <3>2. Ver(i, u)' > 0
        BY <2>1, <3>1
      <3> QED BY <3>1, <3>2 DEF Ver
    <2> QED BY <1>1, <1>2, <2>2, WebKept DEF LeftInv
  <1>9. SpanInv'
    BY <1>1, <1>2, <1>3, WebKept DEF FollowInv, SpanInv, Working
  <1>10. DataInv'
    BY <1>1 DEF FollowInv, DataInv
  <1>11. ContactsFollow'
    <2>1. \A u \in Users : contact[u].ver <= contact'[u].ver /\ skipped[u] <= skipped'[u]
      BY <1>1, FollowTypes
    <2> QED BY <1>1, <2>1, FollowGrows
  <1> QED BY <1>1, <1>7, <1>8, <1>9, <1>10, <1>11, WebKept DEF FollowInv

LEMMA LoadFollow ==
    ASSUME TypeInv, TypeInv', FollowInv, Load
    PROVE  FollowInv'
PROOF
  <1> DEFINE loaded == [u \in Users |-> IF u \in Left THEN data[u] ELSE 0]
             r == [Crm EXCEPT !.pc = "call", !.loaded = loaded]
  <1>1. UNCHANGED <<events, members, data, contact, skipped, cursor>> /\ Crm.pc = "load" /\ Crm \in Passes
    BY FollowTypes DEF Load, At, Crm, App, Web
  <1>2. \A u \in Left : u \in Users /\ loaded[u] = data[u]
    BY DEF Left
  <1>3. Crm' = r
    BY CrmSetIs DEF Load
  <1> HIDE DEF loaded
  <1>4. r.pc = "call" /\ r.from = Crm.from /\ r.last = Crm.last /\ r.first = Crm.first /\ r.loaded = loaded
    BY <1>1 DEF Passes
  <1> HIDE DEF r
  <1>5. Left' = Left
    BY <1>3, <1>4 DEF Left
  <1>6. \A i \in Committed, u \in Users : Has(i, u)' <=> Has(i, u)
    BY <1>1 DEF Has, Ver
  <1>7. DoneInv'
    <2> DEFINE last == Crm.last
    <2>1. \A i \in Committed, u \in Users : i <= Crm.last => Has(i, u) \/ Later(Crm.last, i, u) \/ u \in Left
      BY <1>1 DEF FollowInv, DoneInv, Working
    <2>2. \A i \in Committed, u \in Users : i <= Crm'.last => Has(i, u)' \/ Later(Crm.last, i, u)' \/ u \in Left'
      BY <1>1, <1>3, <1>4, <1>5, <1>6, <2>1 DEF Later, Committed, Ver
    <2> QED BY <1>1, <2>2, WebKept DEF DoneInv
  <1>8. LeftInv'
    <2>1. \A u \in Left : /\ Crm.first[u] \in Committed /\ Crm.from < Crm.first[u] /\ Crm.first[u] <= Crm.last
                          /\ Ver(Crm.first[u], u) > 0
      BY DEF FollowInv, LeftInv
    <2>2. ASSUME NEW u \in Left
          PROVE  /\ loaded[u] <= data[u] /\ contact[u].ver <= loaded[u] /\ skipped[u] <= loaded[u]
                 /\ \A i \in Committed : Ver(i, u) <= loaded[u]
      <3>1. u \in Users /\ data[u] \in Nat /\ loaded[u] = data[u]
        BY <1>2, FollowTypes
      <3> QED BY <3>1 DEF FollowInv, DataInv, EventInv
    <2> QED BY <1>1, <1>3, <1>4, <1>5, <2>1, <2>2, WebKept DEF LeftInv, Ver
  <1>9. SpanInv'
    BY <1>1, <1>3, <1>4, WebKept DEF FollowInv, SpanInv, Working
  <1>10. DataInv'
    BY <1>1 DEF FollowInv, DataInv
  <1>11. ContactsFollow'
    <2>1. \A u \in Users : contact[u].ver <= contact'[u].ver /\ skipped[u] <= skipped'[u]
      BY <1>1, FollowTypes
    <2> QED BY <1>1, <2>1, FollowGrows
  <1> QED BY <1>1, <1>7, <1>8, <1>9, <1>10, <1>11, WebKept DEF FollowInv

LEMMA AllCalledFollow ==
    ASSUME TypeInv, TypeInv', FollowInv, AllCalled
    PROVE  FollowInv'
PROOF
  <1> DEFINE r == [Crm EXCEPT !.pc = "advance"]
  <1>1. /\ UNCHANGED <<events, members, data, contact, skipped, cursor>> /\ Crm.pc = "call" /\ Crm \in Passes
        /\ Left = {} /\ task \in [Consumers -> Passes]
    BY FollowTypes DEF AllCalled, At, Crm, App, Web, TypeInv
  <1>2. Crm' = r
    BY <1>1, FollowTypes DEF AllCalled, Goto, Crm
  <1>3. r.pc = "advance" /\ r.from = Crm.from /\ r.last = Crm.last /\ r.first = Crm.first
    BY <1>1 DEF Passes
  <1> HIDE DEF r
  <1>4. Left' = {}
    BY <1>1, <1>2, <1>3 DEF Left
  <1>5. \A i \in Committed, u \in Users : Has(i, u)' <=> Has(i, u)
    BY <1>1 DEF Has, Ver
  <1>6. DoneInv'
    <2>1. \A i \in Committed, u \in Users : i <= Crm.last => Has(i, u) \/ Later(Crm.last, i, u)
      BY <1>1 DEF FollowInv, DoneInv, Working
    <2>2. \A i \in Committed, u \in Users : i <= Crm'.last => Has(i, u)' \/ Later(Crm.last, i, u)'
      BY <1>1, <1>2, <1>3, <1>5, <2>1 DEF Later, Committed, Ver
    <2> QED BY <1>1, <2>2, WebKept DEF DoneInv
  <1>7. LeftInv'
    BY <1>4 DEF LeftInv
  <1>8. SpanInv'
    BY <1>1, <1>2, <1>3, WebKept DEF FollowInv, SpanInv, Working
  <1>9. DataInv'
    BY <1>1 DEF FollowInv, DataInv
  <1>10. ContactsFollow'
    <2>1. \A u \in Users : contact[u].ver <= contact'[u].ver /\ skipped[u] <= skipped'[u]
      BY <1>1, FollowTypes
    <2> QED BY <1>1, <2>1, FollowGrows
  <1> QED BY <1>1, <1>6, <1>7, <1>8, <1>9, <1>10, WebKept DEF FollowInv


\* The call is about who is left and has been named first.
LEMMA NowIs ==
    ASSUME TypeInv, FollowInv, Left # {}
    PROVE  Now \in Left /\ \A w \in Left : Crm.first[Now] <= Crm.first[w]
PROOF
  <1> DEFINE S == {Crm.first[w] : w \in Left}
  <1>1. \A w \in Left : Crm.first[w] \in Nat
    BY FollowTypes DEF FollowInv, LeftInv
  <1>2. S \in SUBSET Nat /\ S # {}
    BY <1>1
  <1>3. Min(S) \in S /\ \A y \in S : Min(S) <= y
    <2> HIDE DEF S
    <2> QED BY <1>2, LeastIs
  <1>4. PICK v \in Left : Crm.first[v] = Min(S)
    BY <1>3
  <1>5. \A w \in Left : Crm.first[v] <= Crm.first[w]
    BY <1>3, <1>4
  <1> HIDE DEF S
  <1> QED BY <1>5 DEF Now

\* The version a call leaves the contact with.
LEMMA EffectSends ==
    ASSUME TypeInv, NEW u \in Users, Current(u)
    PROVE  Effect(u)[u].ver = IF Updates(u) \/ Creates(u) THEN Crm.loaded[u] ELSE contact[u].ver
PROOF
  <1>1. contact \in [Users -> Contacts]
    BY DEF TypeInv, TypeOK, Contacts
  <1> QED BY <1>1 DEF Effect

\* A call sends nothing older than there was, to nobody else.
LEMMA EffectGrows ==
    ASSUME TypeInv, FollowInv, NEW u \in Users, Current(u)
    PROVE  /\ u \in Left /\ Crm.pc = "call" /\ Crm \in Passes
           /\ \A w \in Left : Crm.first[u] <= Crm.first[w]
           /\ \A v \in Users : v # u => Effect(u)[v].ver = contact[v].ver
           /\ contact[u].ver <= Effect(u)[u].ver /\ Effect(u)[u].ver <= data[u]
           /\ Effect(u)[u].ver \in Nat
PROOF
  <1>1. u = Now /\ Crm.pc = "call" /\ Crm \in Passes /\ Left # {}
    BY CurrentIs
  <1>2. u \in Left /\ \A w \in Left : Crm.first[u] <= Crm.first[w]
    BY <1>1, NowIs
  <1>3. Crm.loaded[u] <= data[u] /\ contact[u].ver <= Crm.loaded[u] /\ contact[u].ver <= data[u]
    BY <1>1, <1>2 DEF FollowInv, LeftInv, DataInv
  <1>4. Crm.loaded[u] \in Nat /\ contact[u].ver \in Nat
    BY FollowTypes
  <1>5. contact[u].ver <= Effect(u)[u].ver /\ Effect(u)[u].ver <= data[u] /\ Effect(u)[u].ver \in Nat
    BY <1>3, <1>4, EffectSends
  <1> QED BY <1>1, <1>2, <1>5, EffectIs

\* The pass when a user is done with: the others are left as they were.
LEMMA NextUserLeaves ==
    ASSUME NEW u \in Users, Crm \in Passes
    PROVE  /\ NextUser(u).last = Crm.last
           /\ NextUser(u).first[u] = None
           /\ \A v \in Users : v # u => NextUser(u).first[v] = Crm.first[v] /\ NextUser(u).loaded[v] = Crm.loaded[v]
PROOF
  <1>1. NextUser(u).first = [Crm.first EXCEPT ![u] = None] /\ Crm.first \in [Users -> Int]
    BY DEF NextUser, Passes
  <1>2. NextUser(u).loaded = [Crm.loaded EXCEPT ![u] = 0] /\ Crm.loaded \in [Users -> Nat]
    BY DEF NextUser, Passes
  <1>3. NextUser(u).last = Crm.last
    BY DEF NextUser, Passes
  <1> QED BY <1>1, <1>2, <1>3

\* A user is done with, when what the pass loaded is sent or its refusal recorded.
LEMMA UserDone ==
    ASSUME TypeInv, TypeInv', FollowInv, NEW u \in Left, u \in Users, Crm.pc = "call", Set("crm", NextUser(u)),
           UNCHANGED <<events, members, data, cursor>>,
           \A v \in Users : v # u => contact'[v].ver = contact[v].ver /\ skipped'[v] = skipped[v],
           contact[u].ver <= contact'[u].ver, contact'[u].ver <= data[u],
           skipped[u] <= skipped'[u], skipped'[u] <= data[u],
           Crm.loaded[u] <= contact'[u].ver \/ Crm.loaded[u] <= skipped'[u]
    PROVE  FollowInv'
PROOF
  <1>1. Crm \in Passes
    BY FollowTypes
  <1>2. /\ Crm'.pc = "call" /\ Crm'.from = Crm.from /\ Crm'.last = Crm.last /\ Crm'.first[u] = None
        /\ \A v \in Users : v # u => Crm'.first[v] = Crm.first[v] /\ Crm'.loaded[v] = Crm.loaded[v]
    BY <1>1, CrmSetIs, NextUserIs, NextUserLeaves
  <1>3. Left' = Left \ {u}
    BY <1>2 DEF Left
  <1>4. \A v \in Users : contact[v].ver <= contact'[v].ver /\ skipped[v] <= skipped'[v]
    BY FollowTypes
  <1>5. ASSUME NEW i \in Committed, i <= Crm.last PROVE Has(i, u)'
    <2>1. Ver(i, u) <= Crm.loaded[u]
      BY <1>5 DEF FollowInv, LeftInv
    <2>2. Ver(i, u) \in Nat /\ Crm.loaded[u] \in Nat /\ contact'[u].ver \in Nat /\ skipped'[u] \in Nat
      BY FollowTypes DEF TypeInv, TypeOK
    <2>3. Ver(i, u)' = Ver(i, u)
      BY WebKept
    <2> QED BY <2>1, <2>2, <2>3 DEF Has
  <1>6. DoneInv'
    <2>1. \A i \in Committed, v \in Users : i <= Crm.last => Has(i, v) \/ Later(Crm.last, i, v) \/ v \in Left
      BY DEF FollowInv, DoneInv, Working
    <2>2. \A i \in Committed, v \in Users : Has(i, v) => Has(i, v)'
      BY <1>4, HasKept
    <2>3. \A i \in Committed, v \in Users : Later(Crm.last, i, v) => Later(Crm.last, i, v)'
      BY <1>2 DEF Later, Committed, Ver
    <2>4. \A i \in Committed, v \in Users : i <= Crm'.last => Has(i, v)' \/ Later(Crm.last, i, v)' \/ v \in Left'
      BY <1>2, <1>3, <1>5, <2>1, <2>2, <2>3
    <2> QED BY <2>4, WebKept DEF DoneInv
  <1>7. LeftInv'
    <2>1. ASSUME NEW v \in Left'
          PROVE  /\ Crm'.first[v] = Crm.first[v] /\ Crm'.loaded[v] = Crm.loaded[v] /\ v \in Left /\ v \in Users
                 /\ contact'[v].ver = contact[v].ver /\ skipped'[v] = skipped[v]
      BY <1>2, <1>3 DEF Left
    <2>2. \A v \in Left :
            /\ Crm.first[v] \in Committed /\ Crm.from < Crm.first[v] /\ Crm.first[v] <= Crm.last
            /\ Ver(Crm.first[v], v) > 0
            /\ Crm.loaded[v] <= data[v] /\ contact[v].ver <= Crm.loaded[v] /\ skipped[v] <= Crm.loaded[v]
            /\ \A i \in Committed : i <= Crm.last => Ver(i, v) <= Crm.loaded[v]
      BY DEF FollowInv, LeftInv
    <2> QED BY <1>2, <2>1, <2>2, WebKept DEF LeftInv, Ver
  <1>8. SpanInv'
    BY <1>2, WebKept DEF FollowInv, SpanInv, Working
  <1>9. DataInv'
    BY DEF FollowInv, DataInv
  <1>10. ContactsFollow'
    BY <1>4, FollowGrows
  <1> QED BY <1>6, <1>7, <1>8, <1>9, <1>10, WebKept DEF FollowInv

LEMMA CallOkFollow ==
    ASSUME TypeInv, TypeInv', FollowInv, NEW u \in Users, CallOk(u)
    PROVE  FollowInv'
PROOF
  <1>1. Current(u) /\ contact' = Effect(u) /\ UNCHANGED <<events, members, data, skipped, cursor>>
    BY DEF CallOk, App, Web
  <1>2. u \in Left /\ Crm.pc = "call" /\ Crm \in Passes
    BY <1>1, EffectGrows
  <1>3. CASE Following(u) = "done"
    <2>1. Updates(u) \/ Creates(u)
      <3>1. Crm.step \in {"put", "post", "claim"}
        BY <1>2 DEF Passes
      <3>2. contact[u].ours \in BOOLEAN /\ contact[u].exists \in BOOLEAN
        BY DEF TypeInv, TypeOK
      <3> QED BY <1>3, <3>1, <3>2 DEF Following, Updates, Creates
    <2>2. contact'[u].ver = Crm.loaded[u]
      BY <1>1, <2>1, EffectSends
    <2>3. Crm.loaded[u] <= contact'[u].ver
      BY <2>2, FollowTypes
    <2>4. skipped[u] <= skipped'[u] /\ skipped'[u] <= data[u]
      BY <1>1, FollowTypes DEF FollowInv, DataInv
    <2>5. Set("crm", NextUser(u))
      BY <1>3 DEF CallOk
    <2> QED BY <1>1, <1>2, <2>3, <2>4, <2>5, EffectGrows, UserDone
  <1>4. CASE Following(u) # "done"
    <2> DEFINE r == [Crm EXCEPT !.step = Following(u)]
    <2>1. Crm' = r
      BY <1>4, CrmSetIs DEF CallOk
    <2>2. /\ r.pc = Crm.pc /\ r.from = Crm.from /\ r.last = Crm.last /\ r.first = Crm.first /\ r.loaded = Crm.loaded
          /\ r.batch = Crm.batch
      BY <1>2 DEF Passes
    <2> HIDE DEF r
    <2>3. ~Updates(u) /\ ~Creates(u)
      BY <1>4 DEF Following, Updates, Creates
    <2>4. contact' = contact
      BY <1>1, <2>3 DEF Effect
    <2> QED BY <1>1, <2>1, <2>2, <2>4, FollowKept
  <1> QED BY <1>3, <1>4

LEMMA CallRefusedFollow ==
    ASSUME TypeInv, TypeInv', FollowInv, NEW u \in Users, CallRefused(u)
    PROVE  FollowInv'
PROOF
  <1>1. /\ Current(u) /\ UNCHANGED <<events, members, data, contact, cursor>> /\ Set("crm", NextUser(u))
        /\ skipped' = [skipped EXCEPT ![u] = Crm.loaded[u]] /\ skipped \in [Users -> Nat]
    BY DEF CallRefused, App, Web, TypeInv, TypeOK
  <1>2. u \in Left /\ Crm.pc = "call"
    BY <1>1, EffectGrows
  <1>3. skipped'[u] = Crm.loaded[u] /\ \A v \in Users : v # u => skipped'[v] = skipped[v]
    BY <1>1
  <1>4. Crm.loaded[u] <= data[u] /\ skipped[u] <= Crm.loaded[u]
    BY <1>2 DEF FollowInv, LeftInv
  <1>5. contact[u].ver <= contact'[u].ver /\ contact'[u].ver <= data[u] /\ Crm.loaded[u] <= skipped'[u]
    BY <1>1, <1>3, FollowTypes DEF FollowInv, DataInv
  <1> QED BY <1>1, <1>2, <1>3, <1>4, <1>5, UserDone

\* The cursor will stop before the first event that names who is left: those are named
\* behind it.
LEMMA CallFailsFollow ==
    ASSUME TypeInv, TypeInv', FollowInv, NEW u \in Users, CallFails(u)
    PROVE  FollowInv'
PROOF
  <1> DEFINE last == Crm.first[u] - 1
             from == Crm.from
             r == [Idle EXCEPT !.pc = "advance", !.from = from, !.last = last]
  <1>1. /\ Current(u) /\ contact' \in {contact, Effect(u)} /\ Set("crm", r)
        /\ UNCHANGED <<events, members, data, cursor, skipped>>
    BY DEF CallFails, Web
  <1>2. u \in Left /\ Crm.pc = "call" /\ Crm \in Passes /\ \A w \in Left : Crm.first[u] <= Crm.first[w]
    BY <1>1, EffectGrows
  <1>3. /\ Crm.first[u] \in Committed /\ Crm.first[u] \in Nat /\ from \in Nat /\ Crm.last \in Int
        /\ from < Crm.first[u] /\ Crm.first[u] <= Crm.last
    BY <1>2, FollowTypes DEF FollowInv, LeftInv
  <1>4. last \in Nat /\ from <= last /\ last < Crm.first[u] /\ last <= Crm.last /\ (last > 0 => last \in Committed)
    <2>1. PICK n \in 0 .. MaxEvents : Committed = 1 .. n
      BY DEF FollowInv, Prefix
    <2> QED BY <1>3, <2>1, OutboxAssumption
  <1>5. PICK k \in Nat : k = last
    BY <1>4
  <1>6. \A v \in Users : contact[v].ver <= contact'[v].ver /\ skipped[v] <= skipped'[v] /\ contact'[v].ver <= data[v]
    <2>1. \A v \in Users : /\ contact[v].ver \in Nat /\ skipped[v] \in Nat
                           /\ contact[v].ver <= data[v]
      BY FollowTypes DEF FollowInv, DataInv
    <2>2. CASE contact' = contact
      BY <1>1, <2>1, <2>2
    <2>3. CASE contact' = Effect(u)
      BY <1>1, <2>1, <2>3, EffectGrows
    <2> QED BY <1>1, <2>2, <2>3
  <1>7. ASSUME NEW i \in Committed, NEW v \in Users, i <= k PROVE Has(i, v) \/ Later(k, i, v)
    <2>1. i \in Nat /\ i <= Crm.last
      BY <1>3, <1>4, <1>5, <1>7, FollowTypes
    <2>2. CASE Has(i, v)
      BY <2>2
    <2>3. CASE Later(Crm.last, i, v)
      <3>1. PICK j \in Committed : Crm.last < j /\ Ver(i, v) < Ver(j, v)
        BY <2>3 DEF Later
      <3>2. j \in Nat
        BY FollowTypes
      <3>3. k < j
        BY <1>3, <1>4, <1>5, <3>1, <3>2
      <3> QED BY <3>1, <3>3 DEF Later
    <2>4. CASE v \in Left
      <3>1. Crm.first[v] \in Committed /\ Ver(Crm.first[v], v) > 0 /\ Crm.first[u] <= Crm.first[v]
        BY <1>2, <2>4 DEF FollowInv, LeftInv
      <3>2. PICK j \in Committed : j = Crm.first[v]
        BY <3>1
      <3>3. j \in Nat /\ k < j /\ i < j
        <4>1. j \in Nat
          BY FollowTypes
        <4> QED BY <1>3, <1>4, <1>5, <1>7, <2>1, <3>1, <3>2, <4>1
      <3>4. Ver(i, v) < Ver(j, v)
        BY <3>1, <3>2, <3>3 DEF FollowInv, EventInv
      <3> QED BY <3>3, <3>4 DEF Later
    <2> QED BY <1>2, <2>1, <2>2, <2>3, <2>4 DEF FollowInv, DoneInv, Working
  <1> HIDE DEF last, from
  <1>8. r.pc = "advance" /\ r.from = from /\ r.last = last
    BY DEF Idle
  <1> HIDE DEF r
  <1>9. Crm' = r
    BY <1>1, CrmSetIs
  <1>10. Left' = {}
    BY <1>8, <1>9 DEF TypeInv, TypeOK
  <1>11. DoneInv'
    <2>1. \A i \in Committed, v \in Users : Has(i, v) => Has(i, v)'
      BY <1>1, <1>6, HasKept
    <2>2. \A i \in Committed', v \in Users : i <= k => Has(i, v)' \/ Later(k, i, v)'
      BY <1>1, <1>7, <2>1, WebKept
    <2>3. Crm'.last = k
      BY <1>5, <1>8, <1>9
    <2> QED BY <2>2, <2>3 DEF DoneInv, Later, Ver
  <1>12. SpanInv'
    <2>1. Crm.from = cursor["crm"] /\ (cursor["crm"] > 0 => cursor["crm"] \in Committed)
      BY <1>2 DEF FollowInv, SpanInv
    <2> QED BY <1>1, <1>4, <1>8, <1>9, <2>1, WebKept DEF SpanInv, Working, from
  <1>13. DataInv'
    BY <1>1, <1>6 DEF FollowInv, DataInv
  <1>14. ContactsFollow'
    BY <1>1, <1>6, FollowGrows
  <1> QED BY <1>1, <1>10, <1>11, <1>12, <1>13, <1>14, WebKept DEF FollowInv, LeftInv


\* What a new event is and does: its versions are above all there were, and whom it
\* names are those it changed.
LEMMA CommitIs ==
    ASSUME InOrder, TypeInv, FollowInv, NEW i \in Ids, NEW type \in Types, NEW u \in Users, Commit(i, type, u)
    PROVE  \E named \in SUBSET Users :
              /\ Committed' = Committed \union {i} /\ i \notin Committed /\ Prefix'
              /\ \A j \in Committed : j < i /\ events'[j] = events[j]
              /\ \A v \in Users : data'[v] = IF v \in named THEN data[v] + 1 ELSE data[v]
              /\ \A v \in Users : Ver(i, v)' = IF v \in named THEN data[v] + 1 ELSE 0
              /\ Named(events[i])' = named
              /\ \A j \in Committed, v \in Users :
                    /\ v \in Named(events[j])' => v \in Named(events[j])
                    /\ v \in Named(events[j]) => v \in Named(events[j])'
                            \/ (events'[i].type = "removed" /\ events'[i].user = v)
PROOF
  <1> DEFINE named == Named([type |-> type, user |-> u])
             ver == [v \in Users |-> IF v \in named THEN data'[v] ELSE 0]
  <1>1. PICK n \in 0 .. MaxEvents : Committed = 1 .. n
    BY DEF FollowInv, Prefix
  <1>2. n \in Nat /\ i = n + 1 /\ n + 1 \in 0 .. MaxEvents
    BY <1>1, NewestOf, OutboxAssumption DEF Commit, Ids
  <1>3. events \in [Ids -> [type : Types \union {"none"}, user : Users, ver : [Users -> Nat]]] /\ members \subseteq Users
    BY DEF TypeInv, TypeOK
  <1>4. named = CASE type \in {"user", "removed"} -> {u} [] type = "plan" -> members [] OTHER -> {}
    BY DEF Named
  <1>5. named \in SUBSET Users
    BY <1>3, <1>4
  <1>6. data' = [v \in Users |-> IF v \in named THEN data[v] + 1 ELSE data[v]]
    BY DEF Commit
  <1>7. events' = [events EXCEPT ![i] = [type |-> type, user |-> u, ver |-> ver]]
    BY DEF Commit
  <1>8. members' = IF type = "removed" THEN members \ {u} ELSE members
    BY DEF Commit
  <1>9. \A v \in Users : ver[v] = IF v \in named THEN data[v] + 1 ELSE 0
    BY <1>6
  <1> HIDE DEF ver
  <1>10. events'[i] = [type |-> type, user |-> u, ver |-> ver] /\ \A j \in Ids : j # i => events'[j] = events[j]
    BY <1>3, <1>7
  <1>11. events'[i].type = type /\ events'[i].user = u /\ events'[i].ver = ver
    BY <1>10
  <1>12. Committed' = Committed \union {i} /\ i \notin Committed
    <2>1. i \notin Committed
      BY DEF Commit
    <2>2. type # "none"
      BY DEF Types
    <2>3. \A j \in Ids : events'[j].type # "none" <=> j = i \/ events[j].type # "none"
      BY <1>10, <1>11, <2>2
    <2> QED BY <2>1, <2>3 DEF Committed
  <1>13. Prefix'
    <2>1. Committed' = 1 .. n + 1
      BY <1>1, <1>2, <1>12
    <2> QED BY <1>2, <2>1 DEF Prefix
  <1>14. \A j \in Committed : j < i /\ events'[j] = events[j] /\ j \in Ids
    BY <1>1, <1>2, <1>10, <1>12 DEF Committed
  <1>15. \A v \in Users : Ver(i, v)' = IF v \in named THEN data[v] + 1 ELSE 0
    BY <1>9, <1>11 DEF Ver
  <1>16. Named(events[i])' = named
    <2>1. Named(events[i])' = CASE type \in {"user", "removed"} -> {u} [] type = "plan" -> members' [] OTHER -> {}
      BY <1>11 DEF Named
    <2> QED BY <1>4, <1>8, <2>1
  <1>17. ASSUME NEW j \in Committed, NEW v \in Users
         PROVE  /\ v \in Named(events[j])' => v \in Named(events[j])
                /\ v \in Named(events[j]) => v \in Named(events[j])' \/ (type = "removed" /\ u = v)
    <2>1. events'[j] = events[j]
      BY <1>14
    <2> DEFINE e == events[j]
    <2>2. Named(events[j])' = CASE e.type \in {"user", "removed"} -> {e.user} [] e.type = "plan" -> members' [] OTHER -> {}
      BY <2>1 DEF Named
    <2>3. Named(events[j]) = CASE e.type \in {"user", "removed"} -> {e.user} [] e.type = "plan" -> members [] OTHER -> {}
      BY DEF Named
    <2> QED BY <1>8, <2>2, <2>3
  <1> HIDE DEF named
  <1> QED BY <1>5, <1>6, <1>11, <1>12, <1>13, <1>14, <1>15, <1>16, <1>17

LEMMA CommitFollow ==
    ASSUME InOrder, TypeInv, TypeInv', FollowInv, NEW i \in Ids, NEW type \in Types, NEW u \in Users, Commit(i, type, u)
    PROVE  FollowInv'
PROOF
  <1>1. PICK named \in SUBSET Users :
              /\ Committed' = Committed \union {i} /\ i \notin Committed /\ Prefix'
              /\ \A j \in Committed : j < i /\ events'[j] = events[j]
              /\ \A v \in Users : data'[v] = IF v \in named THEN data[v] + 1 ELSE data[v]
              /\ \A v \in Users : Ver(i, v)' = IF v \in named THEN data[v] + 1 ELSE 0
              /\ Named(events[i])' = named
              /\ \A j \in Committed, v \in Users :
                    /\ v \in Named(events[j])' => v \in Named(events[j])
                    /\ v \in Named(events[j]) => v \in Named(events[j])'
                            \/ (events'[i].type = "removed" /\ events'[i].user = v)
    BY CommitIs
  <1>2. Crm' = Crm /\ UNCHANGED <<cursor, contact, skipped>>
    BY DEF Commit, Crm
  <1>3. Left' = Left /\ (Working' <=> Working)
    BY <1>2 DEF Left, Working
  <1>4. i \in Nat /\ i > 0 /\ \A j \in Committed : j \in Nat /\ j \in Ids /\ j # i
    BY <1>1, FollowTypes DEF Ids
  <1>5. \A j \in Committed, v \in Users : Ver(j, v)' = Ver(j, v)
    BY <1>1 DEF Ver
  <1>6. ASSUME NEW v \in Users
        PROVE  /\ data[v] \in Nat /\ data[v] <= data'[v] /\ (v \in named => data[v] < data'[v] /\ Ver(i, v)' = data'[v])
               /\ (v \notin named => Ver(i, v)' = 0) /\ data'[v] \in Nat /\ Ver(i, v)' \in Nat
    <2>1. data[v] \in Nat
      BY FollowTypes
    <2> QED BY <1>1, <2>1
  <1>7. \A j \in Committed, v \in Users : Ver(j, v) \in Nat /\ Ver(j, v) <= data[v]
    BY FollowTypes DEF FollowInv, EventInv
  <1>8. EventInv'
    <2>1. ASSUME NEW j \in Committed, NEW v \in Users
          PROVE  /\ Ver(j, v)' <= data'[v]
                 /\ v \in Named(events[j])' => Ver(j, v)' > 0
                 /\ Ver(j, v)' > 0 =>
                      \/ v \in Named(events[j])'
                      \/ \E k \in Committed' : j < k /\ events'[k].type = "removed" /\ events'[k].user = v
                 /\ \A k \in Committed' : j < k /\ Ver(k, v)' > 0 => Ver(j, v)' < Ver(k, v)'
      <3>1. Ver(j, v)' <= data'[v]
        BY <1>5, <1>6, <1>7
      <3>2. v \in Named(events[j])' => Ver(j, v)' > 0
        BY <1>1, <1>5 DEF FollowInv, EventInv
      <3>3. ASSUME Ver(j, v)' > 0
            PROVE  \/ v \in Named(events[j])'
                   \/ \E k \in Committed' : j < k /\ events'[k].type = "removed" /\ events'[k].user = v
        <4>1. CASE v \in Named(events[j])
          BY <1>1, <4>1
        <4>2. CASE v \notin Named(events[j])
          <5>1. PICK k \in Committed : j < k /\ events[k].type = "removed" /\ events[k].user = v
            BY <1>5, <3>3, <4>2 DEF FollowInv, EventInv
          <5> QED BY <1>1, <5>1
        <4> QED BY <4>1, <4>2
      <3>4. ASSUME NEW k \in Committed', j < k, Ver(k, v)' > 0 PROVE Ver(j, v)' < Ver(k, v)'
        <4>1. CASE k \in Committed
          <5>1. Ver(j, v) < Ver(k, v)
            BY <1>5, <3>4, <4>1 DEF FollowInv, EventInv
          <5> QED BY <1>5, <4>1, <5>1
        <4>2. CASE k = i
          <5>1. Ver(i, v)' > 0
            BY <3>4, <4>2 DEF Ver
          <5>2. v \in named
            BY <1>6, <5>1
          <5>3. Ver(j, v)' < Ver(i, v)'
            BY <1>5, <1>6, <1>7, <5>2
          <5> QED BY <4>2, <5>3 DEF Ver
        <4> QED BY <1>1, <4>1, <4>2
      <3> QED BY <3>1, <3>2, <3>3, <3>4
    <2>2. ASSUME NEW v \in Users
          PROVE  /\ Ver(i, v)' <= data'[v]
                 /\ v \in Named(events[i])' => Ver(i, v)' > 0
                 /\ Ver(i, v)' > 0 => v \in Named(events[i])'
                 /\ \A k \in Committed' : ~(i < k)
      <3>1. \A k \in Committed' : ~(i < k)
        BY <1>1, <1>4
      <3>2. Ver(i, v)' <= data'[v]
        BY <1>6
      <3>3. v \in named <=> Ver(i, v)' > 0
        BY <1>6
      <3> QED BY <1>1, <3>1, <3>2, <3>3
    <2>3. ASSUME NEW j \in Committed', NEW v \in Users
          PROVE  /\ Ver(j, v)' <= data'[v]
                 /\ v \in Named(events[j])' => Ver(j, v)' > 0
                 /\ Ver(j, v)' > 0 =>
                      \/ v \in Named(events[j])'
                      \/ \E k \in Committed' : j < k /\ events'[k].type = "removed" /\ events'[k].user = v
                 /\ \A k \in Committed' : j < k /\ Ver(k, v)' > 0 => Ver(j, v)' < Ver(k, v)'
      <3>1. CASE j \in Committed
        BY <2>1, <3>1
      <3>2. CASE j = i
        BY <2>2, <3>2
      <3> QED BY <1>1, <3>1, <3>2
    <2> QED BY <2>3 DEF EventInv
  <1>9. DataInv'
    <2>1. \A v \in Users : /\ contact[v].ver \in Nat /\ skipped[v] \in Nat
                           /\ contact[v].ver <= data[v] /\ skipped[v] <= data[v]
      BY FollowTypes DEF FollowInv, DataInv
    <2> QED BY <1>2, <1>6, <2>1 DEF DataInv
  <1>10. \A j \in Committed, v \in Users : Has(j, v)' <=> Has(j, v)
    BY <1>2, <1>5 DEF Has
  <1>11. \A last : \A j \in Committed, v \in Users : Later(last, j, v) => Later(last, j, v)'
    BY <1>1, <1>5 DEF Later
  <1>12. cursor["crm"] < i /\ (Working => Crm.last < i)
    BY <1>1, <1>4, FollowTypes DEF FollowInv, SpanInv
  <1>13. ContactsFollow'
    <2>1. \A j \in Committed, v \in Users :
            j <= cursor["crm"] => Has(j, v) \/ Later(cursor["crm"], j, v)
      BY DEF FollowInv, ContactsFollow, Has, Later, Ver
    <2>2. ~(i <= cursor["crm"])
      BY <1>4, <1>12, FollowTypes
    <2>3. PICK last : last = cursor["crm"]
      OBVIOUS
    <2>4. \A j \in Committed', v \in Users :
            j <= last => Has(j, v)' \/ Later(last, j, v)'
      BY <1>1, <1>10, <1>11, <2>1, <2>2, <2>3
    <2> QED BY <1>2, <2>3, <2>4 DEF ContactsFollow, Has, Later, Ver
  <1>14. DoneInv'
    <2> SUFFICES ASSUME Working PROVE DoneInv'
      BY <1>3 DEF DoneInv
    <2>1. \A j \in Committed, v \in Users :
            j <= Crm.last => Has(j, v) \/ Later(Crm.last, j, v) \/ v \in Left
      BY DEF FollowInv, DoneInv
    <2>2. ~(i <= Crm.last)
      BY <1>4, <1>12, FollowTypes
    <2>3. PICK last : last = Crm.last
      OBVIOUS
    <2>4. \A j \in Committed', v \in Users :
            j <= last => Has(j, v)' \/ Later(last, j, v)' \/ v \in Left'
      BY <1>1, <1>3, <1>10, <1>11, <2>1, <2>2, <2>3
    <2> QED BY <1>2, <2>3, <2>4 DEF DoneInv, Later, Ver
  <1>15. SpanInv'
    BY <1>1, <1>2, <1>3 DEF FollowInv, SpanInv
  <1>16. LeftInv'
    <2> SUFFICES ASSUME NEW v \in Left
                 PROVE  /\ Crm.first[v] \in Committed' /\ Crm.from < Crm.first[v] /\ Crm.first[v] <= Crm.last
                        /\ Ver(Crm.first[v], v)' > 0
                        /\ Crm.pc = "call" =>
                              /\ Crm.loaded[v] <= data'[v] /\ contact[v].ver <= Crm.loaded[v] /\ skipped[v] <= Crm.loaded[v]
                              /\ \A j \in Committed' : j <= Crm.last => Ver(j, v)' <= Crm.loaded[v]
      BY <1>2, <1>3 DEF LeftInv, Ver
    <2>1. /\ Crm.first[v] \in Committed /\ Crm.from < Crm.first[v] /\ Crm.first[v] <= Crm.last
          /\ Ver(Crm.first[v], v) > 0
          /\ Crm.pc = "call" =>
                /\ Crm.loaded[v] <= data[v] /\ contact[v].ver <= Crm.loaded[v] /\ skipped[v] <= Crm.loaded[v]
                /\ \A j \in Committed : j <= Crm.last => Ver(j, v) <= Crm.loaded[v]
      BY DEF FollowInv, LeftInv
    <2>2. v \in Users /\ Working
      BY FollowTypes DEF Left, Working
    <2>3. Ver(Crm.first[v], v)' > 0
      <3>1. PICK j \in Committed : j = Crm.first[v]
        BY <2>1
      <3>2. Ver(j, v)' > 0
        BY <1>5, <2>1, <2>2, <3>1
      <3> QED BY <1>2, <3>1, <3>2 DEF Ver
    <2>4. Crm.pc = "call" => Crm.loaded[v] <= data'[v]
      <3>1. Crm.loaded[v] \in Nat
        BY <2>2, FollowTypes
      <3> QED BY <1>6, <2>1, <2>2, <3>1
    <2>5. ~(i <= Crm.last)
      BY <1>4, <1>12, <2>2, FollowTypes
    <2>6. Crm.pc = "call" => \A j \in Committed' : j <= Crm.last => Ver(j, v)' <= Crm.loaded[v]
      BY <1>1, <1>5, <2>1, <2>2, <2>5
    <2> QED BY <1>1, <2>1, <2>3, <2>4, <2>6
  <1> QED BY <1>1, <1>8, <1>9, <1>13, <1>14, <1>15, <1>16 DEF FollowInv

\* The steps of billing and of Brevo, and the end of a pass.
LEMMA OtherFollow ==
    ASSUME TypeInv, TypeInv', FollowInv,
           BillingStep \/ (\E u \in Users : Unsubscribe(u)) \/ (\E c \in Consumers : PassEnds(c))
    PROVE  FollowInv'
PROOF
  <1>0. "crm" \in Consumers /\ "crm" # "billing" /\ task \in [Consumers -> Passes]
        /\ cursor \in [Consumers -> {None} \union Nat]
    BY CrmPass DEF TypeInv, TypeOK
  <1>1. CASE BillingStep
    <2>1. \E r : Set("billing", r)
      BY <1>1 DEF BillingStep, Consume, ReadCursor, ReadEvents, Advance, Scan, CancelOk, CancelFails
    <2>2. UNCHANGED <<events, members, data, contact, skipped>>
      BY <1>1 DEF BillingStep, Consume, ReadCursor, ReadEvents, Advance, Scan, CancelOk, CancelFails, App, Web
    <2>3. cursor'["crm"] = cursor["crm"]
      BY <1>0, <1>1 DEF BillingStep, Consume, ReadCursor, ReadEvents, Advance, Scan, CancelOk, CancelFails, App, Web
    <2>4. Crm' = Crm
      BY <1>0, <2>1 DEF Set, Crm
    <2> QED BY <2>2, <2>3, <2>4, FollowKept
  <1>2. ASSUME NEW u \in Users, Unsubscribe(u) PROVE FollowInv'
    <2>1. \A v \in Users : contact'[v].ver = contact[v].ver
      BY <1>2 DEF Unsubscribe, TypeInv, TypeOK
    <2>2. Crm' = Crm /\ UNCHANGED <<events, members, data, skipped, cursor>>
      BY <1>2 DEF Unsubscribe, App, Web, Crm
    <2> QED BY <2>1, <2>2, FollowKept
  <1>3. ASSUME NEW c \in Consumers, PassEnds(c) PROVE FollowInv'
    <2>1. Set(c, Idle) /\ UNCHANGED <<events, members, data, contact, skipped, cursor>>
      BY <1>3 DEF PassEnds
    <2>2. CASE c = "crm"
      <3>1. Crm' = Idle
        BY <2>1, <2>2, CrmSetIs
      <3> QED BY <2>1, <3>1, EndFollow
    <2>3. CASE c # "crm"
      <3>1. Crm' = Crm
        BY <1>0, <2>1, <2>3 DEF Set, Crm
      <3> QED BY <2>1, <3>1, FollowKept
    <2> QED BY <2>2, <2>3
  <1> QED BY <1>1, <1>2, <1>3

LEMMA FollowStep == ASSUME InOrder PROVE TypeInv /\ FollowInv /\ [Next]_vars => FollowInv'
PROOF
  <1> SUFFICES ASSUME TypeInv, FollowInv, [Next]_vars PROVE FollowInv'
    OBVIOUS
  <1>0. TypeInv'
    BY TypeStep
  <1>1. CASE \E i \in Ids, type \in Types, u \in Users : Commit(i, type, u)
    BY <1>0, <1>1, CommitFollow
  <1>2. CASE Consume("crm")
    BY <1>0, <1>2, ReadCursorFollow, ReadEventsFollow, AdvanceFollow DEF Consume
  <1>3. CASE Touch \/ Load \/ AllCalled
    BY <1>0, <1>3, TouchFollow, LoadFollow, AllCalledFollow
  <1>4. CASE \E u \in Users : CallOk(u) \/ CallRefused(u) \/ CallFails(u)
    BY <1>0, <1>4, CallOkFollow, CallRefusedFollow, CallFailsFollow
  <1>5. CASE BillingStep \/ (\E u \in Users : Unsubscribe(u)) \/ (\E c \in Consumers : PassEnds(c))
    BY <1>0, <1>5, OtherFollow
  <1>6. CASE UNCHANGED vars
    BY <1>6, FollowKept DEF vars, Crm
  <1> QED BY <1>1, <1>2, <1>3, <1>4, <1>5, <1>6 DEF Next, CrmStep

LEMMA FollowInit == Init => FollowInv
PROOF
  <1> SUFFICES ASSUME Init PROVE FollowInv
    OBVIOUS
  <1>1. Committed = {}
    BY DEF Init, Committed, NoEvent
  <1>2. 0 \in 0 .. MaxEvents /\ 1 .. 0 = {}
    BY OutboxAssumption
  <1>3. Crm = Idle /\ cursor["crm"] = None
    BY DEF Init, Crm, Consumers
  <1>4. Left = {} /\ ~Working
    BY <1>3, IdleFields DEF Left, Working
  <1>5. DataInv
    BY DEF Init, DataInv
  <1>6. SpanInv
    BY <1>3, <1>4, IdleFields DEF SpanInv, None
  <1> QED BY <1>1, <1>2, <1>4, <1>5, <1>6 DEF FollowInv, Prefix, EventInv, LeftInv, DoneInv, ContactsFollow

\* Where transactions commit in the order of their ids: every event the CRM's cursor has
\* passed is with Brevo, or refused, or an event still to come names the contact again,
\* for any number of users and events and any size of a batch, when members leave between
\* two passes, calls fail in the middle of one, their answers are lost or a pass ends
\* anywhere.
THEOREM Followed == ASSUME InOrder PROVE Spec => []ContactsFollow
PROOF
  <1>1. TypeInv /\ FollowInv /\ [Next]_vars => FollowInv'
    BY FollowStep
  <1>2. FollowInv => ContactsFollow
    BY DEF FollowInv
  <1> QED BY <1>1, <1>2, FollowInit, TypeInit, TypeStep, PTL DEF Spec

-----------------------------------------------------------------------------
(* Statements: the invariant. *)

SqlPcs == {"idle", "text", "explain", "check", "body", "fetch", "commit", "described"}
Statuses == {"none", "ok", "refused", "capped", "timeout", "error", "unknown", "empty"}
Tables == Statements!Every \union {"first"}
StmtsOf(w) == w.stmts \union {Statements!NoStmt}
FactsOf == [rels : SUBSET Tables, calls : BOOLEAN, modifies : BOOLEAN, root : BOOLEAN, unfiltered : BOOLEAN]
CallsOf(w) == [pc : SqlPcs, stmt : StmtsOf(w), page : Nat, facts : FactsOf, snap : Nat, count : Nat]
Replies == [status : Statuses, count : Nat]
WalksOf(w) == [stmt : StmtsOf(w), seen : SUBSET (Tables \union Nat), page : Nat, more : BOOLEAN, quiet : BOOLEAN]
Bases == {"orders", "other", "calls"}
Dbs == [view : Bases, attached : BOOLEAN, rels : SUBSET Statements!Every, rows : Nat]

SqlTypes ==
    /\ sql \in SqlWorlds /\ db \in Dbs /\ db.rows <= sql.most
    /\ sqlCall \in [SqlCallers -> CallsOf(sql)] /\ walk \in [SqlCallers -> WalksOf(sql)]
    /\ locks \in [SqlCallers -> SUBSET Tables] /\ read \in [SqlCallers -> SUBSET Tables]
    /\ session \in [SqlCallers -> {{}}]
    /\ reply \in [SqlCallers -> Replies] /\ changed \in [SqlCallers -> Nat]

Holding == {"check", "body", "fetch", "commit"}
Executing == {"body", "fetch", "commit"}
Running == {"text", "explain"} \union Holding

\* Of the call of one caller, k, with the tables that were read for it and the relations
\* that are locked: what it was checked for still is so when it runs, because it holds
\* what it names and what that is over.
CallFact(k, held, reads) ==
    LET name == k.stmt.names
        base == Statements!Base(name)
    IN
    /\ k.pc \in {"explain"} \union Holding => Statements!Safe(k.stmt.fn)
    /\ k.pc \in {"text", "explain", "check"} => reads = {}
    /\ k.pc \in Holding => name \in Statements!Every /\ name \in held /\ base \in held
    /\ k.pc \notin Holding => held = {}
    /\ k.pc = "check" =>
        /\ k.facts.calls = Statements!Calls(name)
        /\ IF base = "orders" THEN "first" \in k.facts.rels ELSE k.facts.rels = {base}
    /\ k.pc \in Executing =>
        /\ Statements!Resolved(name) \subseteq Statements!Allowed /\ ~Statements!Calls(name)
        /\ reads \subseteq Statements!Resolved(name)

\* What a call that runs has changed is nothing yet, and it answers nothing.
ToldFact(k, r, n) ==
    /\ k.pc \in Running => k.stmt.tool \in {"read", "explain", "write"} /\ n = 0 /\ r.status = "none"
    /\ k.pc = "described" => k.stmt.tool = "describe" /\ r.status = "none"
    /\ k.pc = "fetch" => k.stmt.tool = "read"
    /\ k.pc = "commit" /\ k.stmt.tool = "write" => k.count <= k.stmt.max
    /\ k.pc = "idle" /\ k.stmt.tool = "write" =>
        /\ r.status \in {"ok", "refused", "capped", "timeout"} => n = r.count
        /\ n <= k.stmt.max

\* Who follows pages while nothing changes has seen the rows, or tables, up to the last page.
Upto(m) == {k \in 1 .. db.rows : k <= m}
ListedUpto(m) == {Statements!Relations[i] : i \in {j \in Statements!Found : Statements!Before(j) < m}}
WalkFact(k, w) ==
    LET m == w.page * w.stmt.max IN
    /\ w.stmt.tool \in {"none", "read", "list"} /\ (w.stmt.tool = "none" => w.page = 0)
    /\ w.stmt.tool = "read" /\ w.quiet => w.seen = Upto(m) /\ (w.page > 0 => (w.more <=> db.rows > m))
    /\ w.stmt.tool = "list" /\ w.quiet =>
        w.seen = ListedUpto(m) /\ (w.page > 0 => (w.more <=> Statements!Cardinality(Statements!Found) > m))
    /\ k.pc \in Running /\ k.stmt.tool = "read" => w.stmt = k.stmt /\ k.page = w.page + 1
    /\ k.pc \in {"fetch", "commit"} /\ k.stmt.tool = "read" /\ w.quiet => k.snap = db.rows

\* What was not found is not there, while nothing changes.
FoundFact(k, r, w) ==
    k.stmt.tool = "describe" /\ r.status = "unknown" /\ w.quiet =>
        k.stmt.names \notin (db.rels \intersect sql.scope) \ sql.hidden

SqlInv ==
    /\ SqlTypes
    /\ \A c \in SqlCallers :
        /\ CallFact(sqlCall[c], locks[c], read[c]) /\ ToldFact(sqlCall[c], reply[c], changed[c])
        /\ WalkFact(sqlCall[c], walk[c]) /\ FoundFact(sqlCall[c], reply[c], walk[c])

-----------------------------------------------------------------------------
(* Statements: what its operators are. *)

\* An instance's own cardinality is the cardinality; the relations, by name.
LEMMA SqlCounts == \A S : Statements!Cardinality(S) = Cardinality(S)
  BY DEF Statements!Cardinality, Cardinality

LEMMA EveryIs ==
    /\ Statements!Every = {"orders", "other", "part", "view"}
    /\ DOMAIN Statements!Relations = 1 .. 4
    /\ \A i, j \in 1 .. 4 : Statements!Relations[i] = Statements!Relations[j] => i = j
  BY DEF Statements!Every, Statements!Relations

LEMMA SmallerOf ==
    ASSUME NEW a \in Nat, NEW b \in Nat
    PROVE  Statements!Min({a, b}) = IF a <= b THEN a ELSE b
PROOF
  <1> DEFINE m == IF a <= b THEN a ELSE b
  <1>1. m \in {a, b} /\ \A y \in {a, b} : m <= y
    OBVIOUS
  <1>2. \A x \in {a, b} : (\A y \in {a, b} : x <= y) => x = m
    OBVIOUS
  <1> HIDE DEF m
  <1>3. Statements!Min({a, b}) = m
    BY <1>1, <1>2 DEF Statements!Min
  <1> QED BY <1>3 DEF m

\* What a name is over, and what the plan of it names.
LEMMA BaseIs ==
    ASSUME db \in Dbs, NEW name \in Statements!Every
    PROVE  /\ Statements!Base(name) \in {"orders", "other", "part"}
           /\ name # "view" => Statements!Base(name) = name /\ ~Statements!Calls(name)
           /\ Statements!Resolved(name) \subseteq Tables
           /\ Statements!Base(name) = "orders" => Statements!Resolved(name) = Statements!Partitions
           /\ Statements!Base(name) # "orders" => Statements!Resolved(name) = {Statements!Base(name)}
           /\ Statements!Locked(name) \subseteq Tables /\ name \in Statements!Locked(name)
           /\ Statements!Base(name) \in Statements!Locked(name)
PROOF
  <1>1. db.view \in {"orders", "other", "calls"}
    BY DEF Dbs, Bases
  <1>2. Statements!Base(name) \in {"orders", "other", "part"}
    BY <1>1, EveryIs DEF Statements!Base
  <1>3. name # "view" => Statements!Base(name) = name /\ ~Statements!Calls(name)
    BY DEF Statements!Base, Statements!Calls
  <1>4. /\ Statements!Base(name) = "orders" => Statements!Resolved(name) = Statements!Partitions
        /\ Statements!Base(name) # "orders" => Statements!Resolved(name) = {Statements!Base(name)}
    BY DEF Statements!Resolved
  <1>5. Statements!Partitions \subseteq Tables
    BY EveryIs DEF Statements!Partitions, Tables
  <1>6. Statements!Resolved(name) \subseteq Tables
    BY <1>2, <1>4, <1>5, EveryIs DEF Tables
  <1>7. /\ Statements!Locked(name) \subseteq Tables /\ name \in Statements!Locked(name)
        /\ Statements!Base(name) \in Statements!Locked(name)
    BY <1>2, <1>6, EveryIs DEF Statements!Locked, Tables
  <1> QED BY <1>2, <1>3, <1>4, <1>6, <1>7

LEMMA StmtIs ==
    ASSUME sql \in SqlWorlds
    PROVE  /\ \A s \in StmtsOf(sql) : s.max \in Nat
           /\ \A s \in sql.stmts : s.tool \in Statements!Tools
           /\ Statements!NoStmt.tool = "none" /\ Statements!NoStmt.max = 0
           /\ "first" \notin sql.scope
PROOF
  <1>1. Statements!NoStmt.tool = "none" /\ Statements!NoStmt.max = 0
    BY DEF Statements!NoStmt
  <1>2. /\ \A s \in sql.stmts : s.tool \in Statements!Tools /\ s.max \in Nat
        /\ "first" \notin sql.scope
    BY SqlAssumed DEF Statements!Assumption
  <1>3. \A s \in StmtsOf(sql) : s.max \in Nat
    BY <1>1, <1>2 DEF StmtsOf
  <1> QED BY <1>1, <1>2, <1>3

\* What is listed while nothing changes.
LEMMA ListedKept ==
    ASSUME UNCHANGED <<sql, db>>
    PROVE  /\ Statements!Found' = Statements!Found
           /\ \A m : ListedUpto(m)' = ListedUpto(m) /\ Upto(m)' = Upto(m)
PROOF
  <1>1. Statements!Found' = Statements!Found
    BY DEF Statements!Found, Statements!Listed
  <1>2. ASSUME NEW i PROVE Statements!Before(i)' = Statements!Before(i)
    <2>1. {j \in Statements!Found : j < i}' = {j \in Statements!Found : j < i}
      BY <1>1
    <2> QED BY <2>1 DEF Statements!Before
  <1>3. \A m : ListedUpto(m)' = ListedUpto(m)
    BY <1>1, <1>2 DEF ListedUpto
  <1> QED BY <1>1, <1>3 DEF Upto

\* No call, no answer and no walk.
LEMMA NothingIs ==
    /\ Statements!NoCall.pc = "idle" /\ Statements!NoCall.stmt = Statements!NoStmt
    /\ \A w : Statements!NoCall \in CallsOf(w) /\ Statements!NoWalk \in WalksOf(w)
    /\ Statements!NoReply \in Replies /\ Statements!NoReply.status = "none" /\ Statements!NoReply.count = 0
    /\ Statements!NoWalk.stmt = Statements!NoStmt /\ Statements!NoWalk.page = 0 /\ Statements!NoWalk.seen = {}
    /\ Statements!NoWalk.quiet
PROOF
  <1>1. Statements!NoFacts \in FactsOf
    BY DEF Statements!NoFacts, FactsOf
  <1>2. \A w : Statements!NoStmt \in StmtsOf(w)
    BY DEF StmtsOf
  <1>3. \A w : Statements!NoCall \in CallsOf(w)
    BY <1>1, <1>2 DEF Statements!NoCall, CallsOf, SqlPcs
  <1>4. \A w : Statements!NoWalk \in WalksOf(w)
    BY <1>2 DEF Statements!NoWalk, WalksOf
  <1>5. Statements!NoReply \in Replies
    BY DEF Statements!NoReply, Replies, Statuses
  <1>6. Statements!NoCall.pc = "idle" /\ Statements!NoCall.stmt = Statements!NoStmt
    BY DEF Statements!NoCall
  <1>7. /\ Statements!NoWalk.stmt = Statements!NoStmt /\ Statements!NoWalk.page = 0 /\ Statements!NoWalk.seen = {}
        /\ Statements!NoWalk.quiet
    BY DEF Statements!NoWalk
  <1>8. Statements!NoReply.status = "none" /\ Statements!NoReply.count = 0
    BY DEF Statements!NoReply
  <1> QED BY <1>3, <1>4, <1>5, <1>6, <1>7, <1>8

\* The call of a statement that has ended, and its answer.
LEMMA EndedIs ==
    ASSUME NEW s \in StmtsOf(sql), NEW status \in Statuses, NEW n \in Nat
    PROVE  /\ [Statements!NoCall EXCEPT !.stmt = s] \in CallsOf(sql)
           /\ [Statements!NoCall EXCEPT !.stmt = s].pc = "idle" /\ [Statements!NoCall EXCEPT !.stmt = s].stmt = s
           /\ [Statements!NoReply EXCEPT !.status = status] \in Replies
           /\ [Statements!NoReply EXCEPT !.status = status].status = status
           /\ [Statements!NoReply EXCEPT !.status = status].count = 0
           /\ [status |-> status, count |-> n] \in Replies
PROOF
  <1>1. Statements!NoCall \in CallsOf(sql) /\ Statements!NoCall.pc = "idle"
    BY NothingIs
  <1>2. Statements!NoReply \in Replies /\ Statements!NoReply.count = 0
    BY NothingIs
  <1>3. /\ [Statements!NoCall EXCEPT !.stmt = s] \in CallsOf(sql)
        /\ [Statements!NoCall EXCEPT !.stmt = s].pc = "idle" /\ [Statements!NoCall EXCEPT !.stmt = s].stmt = s
    BY <1>1 DEF CallsOf
  <1>4. /\ [Statements!NoReply EXCEPT !.status = status] \in Replies
        /\ [Statements!NoReply EXCEPT !.status = status].status = status
        /\ [Statements!NoReply EXCEPT !.status = status].count = 0
    BY <1>2 DEF Replies
  <1>5. [status |-> status, count |-> n] \in Replies
    BY DEF Replies
  <1> QED BY <1>3, <1>4, <1>5

-----------------------------------------------------------------------------
(* Statements: the steps. *)

\* A step of one caller, which changes neither the database nor what a connection keeps.
LEMMA OneCaller ==
    ASSUME SqlInv, NEW c \in SqlCallers,
           NEW k \in CallsOf(sql), NEW held \in SUBSET Tables, NEW reads \in SUBSET Tables,
           NEW r \in Replies, NEW n \in Nat, NEW w \in WalksOf(sql), UNCHANGED <<sql, db, session>>,
           sqlCall' = [sqlCall EXCEPT ![c] = k], locks' = [locks EXCEPT ![c] = held],
           read' = [read EXCEPT ![c] = reads], reply' = [reply EXCEPT ![c] = r],
           changed' = [changed EXCEPT ![c] = n], walk' = [walk EXCEPT ![c] = w],
           CallFact(k, held, reads), ToldFact(k, r, n), WalkFact(k, w), FoundFact(k, r, w)
    PROVE  SqlInv'
PROOF
  <1>1. SqlTypes
    BY DEF SqlInv
  <1>2. SqlTypes'
    BY <1>1 DEF SqlTypes
  <1>3. ASSUME NEW d \in SqlCallers
        PROVE  /\ sqlCall'[d] = (IF d = c THEN k ELSE sqlCall[d]) /\ locks'[d] = (IF d = c THEN held ELSE locks[d])
               /\ read'[d] = (IF d = c THEN reads ELSE read[d]) /\ reply'[d] = (IF d = c THEN r ELSE reply[d])
               /\ changed'[d] = (IF d = c THEN n ELSE changed[d]) /\ walk'[d] = (IF d = c THEN w ELSE walk[d])
    BY <1>1 DEF SqlTypes
  <1>4. ASSUME NEW d \in SqlCallers
        PROVE  \E k1, held1, reads1, r1, n1, w1 :
                  /\ sqlCall'[d] = k1 /\ locks'[d] = held1 /\ read'[d] = reads1 /\ reply'[d] = r1
                  /\ changed'[d] = n1 /\ walk'[d] = w1
                  /\ CallFact(k1, held1, reads1) /\ ToldFact(k1, r1, n1) /\ WalkFact(k1, w1) /\ FoundFact(k1, r1, w1)
    <2>1. CASE d = c
      BY <1>3, <2>1
    <2>2. CASE d # c
      BY <1>3, <2>2 DEF SqlInv
    <2> QED BY <2>1, <2>2
  <1>5. ASSUME NEW d \in SqlCallers
        PROVE  /\ CallFact(sqlCall[d], locks[d], read[d])' /\ ToldFact(sqlCall[d], reply[d], changed[d])'
               /\ WalkFact(sqlCall[d], walk[d])' /\ FoundFact(sqlCall[d], reply[d], walk[d])'
    <2>1. PICK k1, held1, reads1, r1, n1, w1 :
                  /\ sqlCall'[d] = k1 /\ locks'[d] = held1 /\ read'[d] = reads1 /\ reply'[d] = r1
                  /\ changed'[d] = n1 /\ walk'[d] = w1
                  /\ CallFact(k1, held1, reads1) /\ ToldFact(k1, r1, n1) /\ WalkFact(k1, w1) /\ FoundFact(k1, r1, w1)
      BY <1>4
    <2>2. CallFact(sqlCall[d], locks[d], read[d])'
      BY <2>1 DEF CallFact, Statements!Base, Statements!Calls, Statements!Resolved, Statements!Allowed,
                  Statements!Partitions, Statements!Safe
    <2>3. ToldFact(sqlCall[d], reply[d], changed[d])'
      BY <2>1 DEF ToldFact
    <2>4. WalkFact(sqlCall[d], walk[d])'
      <3> DEFINE m == w1.page * w1.stmt.max
      <3>1. /\ ListedUpto(m)' = ListedUpto(m) /\ Upto(m)' = Upto(m)
            /\ (Statements!Cardinality(Statements!Found))' = Statements!Cardinality(Statements!Found)
        BY ListedKept
      <3>2. PICK upto, listed, most : upto = Upto(m) /\ listed = ListedUpto(m) /\ most = Statements!Cardinality(Statements!Found)
        OBVIOUS
      <3>3. m = (walk[d].page * walk[d].stmt.max)'
        BY <2>1
      <3>4. Upto(walk[d].page * walk[d].stmt.max)' = upto /\ ListedUpto(walk[d].page * walk[d].stmt.max)' = listed
            /\ (Statements!Cardinality(Statements!Found))' = most
        BY <3>1, <3>2, <3>3 DEF Upto, ListedUpto
      <3> QED BY <2>1, <3>2, <3>3, <3>4 DEF WalkFact
    <2>5. FoundFact(sqlCall[d], reply[d], walk[d])'
      BY <2>1 DEF FoundFact
    <2> QED BY <2>2, <2>3, <2>4, <2>5
  <1> QED BY <1>2, <1>5 DEF SqlInv

\* What is known of a caller whose step it is.
LEMMA CallerIs ==
    ASSUME SqlInv, NEW c \in SqlCallers
    PROVE  /\ sql \in SqlWorlds /\ db \in Dbs
           /\ sqlCall[c] \in CallsOf(sql) /\ sqlCall[c].stmt \in StmtsOf(sql) /\ sqlCall[c].stmt.max \in Nat
           /\ locks[c] \in SUBSET Tables /\ read[c] \in SUBSET Tables /\ session[c] = {}
           /\ reply[c] \in Replies /\ changed[c] \in Nat /\ walk[c] \in WalksOf(sql)
           /\ Statements!Stmt(c) = sqlCall[c].stmt
           /\ \A pc : Statements!At(c, pc) <=> sqlCall[c].pc = pc
           /\ sqlCall = [sqlCall EXCEPT ![c] = sqlCall[c]] /\ locks = [locks EXCEPT ![c] = locks[c]]
           /\ read = [read EXCEPT ![c] = read[c]] /\ reply = [reply EXCEPT ![c] = reply[c]]
           /\ changed = [changed EXCEPT ![c] = changed[c]] /\ walk = [walk EXCEPT ![c] = walk[c]]
           /\ CallFact(sqlCall[c], locks[c], read[c]) /\ ToldFact(sqlCall[c], reply[c], changed[c])
           /\ WalkFact(sqlCall[c], walk[c]) /\ FoundFact(sqlCall[c], reply[c], walk[c])
PROOF
  <1>1. SqlTypes
    BY DEF SqlInv
  <1>2. sqlCall[c] \in CallsOf(sql) /\ sql \in SqlWorlds
    BY <1>1 DEF SqlTypes
  <1>3. sqlCall[c].stmt \in StmtsOf(sql) /\ sqlCall[c].stmt.max \in Nat
    <2>1. sqlCall[c].stmt \in StmtsOf(sql)
      BY <1>2 DEF CallsOf
    <2> QED BY <1>2, <2>1, StmtIs
  <1>4. /\ locks[c] \in SUBSET Tables /\ read[c] \in SUBSET Tables /\ session[c] = {} /\ db \in Dbs
        /\ reply[c] \in Replies /\ changed[c] \in Nat /\ walk[c] \in WalksOf(sql)
    BY <1>1 DEF SqlTypes
  <1>5. /\ sqlCall = [sqlCall EXCEPT ![c] = sqlCall[c]] /\ locks = [locks EXCEPT ![c] = locks[c]]
        /\ read = [read EXCEPT ![c] = read[c]] /\ reply = [reply EXCEPT ![c] = reply[c]]
        /\ changed = [changed EXCEPT ![c] = changed[c]] /\ walk = [walk EXCEPT ![c] = walk[c]]
    BY <1>1 DEF SqlTypes
  <1>6. Statements!Stmt(c) = sqlCall[c].stmt /\ \A pc : Statements!At(c, pc) <=> sqlCall[c].pc = pc
    BY DEF Statements!Stmt, Statements!At
  <1> QED BY <1>2, <1>3, <1>4, <1>5, <1>6 DEF SqlInv

\* The call ends with an answer, having changed n rows.
LEMMA EndKeeps ==
    ASSUME SqlInv, NEW c \in SqlCallers, NEW status \in Statuses, status # "unknown", Statements!Ends(c, status),
           NEW reads \in SUBSET Tables, NEW n \in Nat, UNCHANGED <<sql, db, session, walk>>,
           read' = [read EXCEPT ![c] = reads], changed' = [changed EXCEPT ![c] = n],
           sqlCall[c].stmt.tool = "write" =>
                /\ status \in {"ok", "refused", "capped", "timeout"} => n = 0
                /\ n <= sqlCall[c].stmt.max
    PROVE  SqlInv'
PROOF
  <1> DEFINE s == sqlCall[c].stmt
             k == [Statements!NoCall EXCEPT !.stmt = s]
             r == [Statements!NoReply EXCEPT !.status = status]
  <1>1. /\ sqlCall' = [sqlCall EXCEPT ![c] = k] /\ locks' = [locks EXCEPT ![c] = {}]
        /\ reply' = [reply EXCEPT ![c] = r]
    BY DEF Statements!Ends, Statements!Stmt
  <1>2. s \in StmtsOf(sql) /\ WalkFact(sqlCall[c], walk[c]) /\ walk[c] \in WalksOf(sql) /\ walk' = [walk EXCEPT ![c] = walk[c]]
    BY CallerIs
  <1> HIDE DEF s
  <1>3. k \in CallsOf(sql) /\ k.pc = "idle" /\ k.stmt = s /\ r \in Replies /\ r.status = status /\ r.count = 0
    BY <1>2, EndedIs
  <1> HIDE DEF k, r
  <1>4. CallFact(k, {}, reads)
    BY <1>3 DEF CallFact, Holding, Executing
  <1>5. ToldFact(k, r, n)
    BY <1>3 DEF ToldFact, Running, Holding, s
  <1>6. WalkFact(k, walk[c])
    BY <1>2, <1>3 DEF WalkFact, Running, Holding
  <1>7. FoundFact(k, r, walk[c])
    BY <1>3 DEF FoundFact
  <1> QED BY <1>1, <1>2, <1>3, <1>4, <1>5, <1>6, <1>7, OneCaller

\* A call that ends before it has run has changed nothing.
LEMMA StopKeeps ==
    ASSUME SqlInv, NEW c \in SqlCallers, NEW status \in Statuses, status # "unknown", Statements!Ends(c, status),
           UNCHANGED <<sql, db, session, walk, read, changed>>,
           sqlCall[c].pc \in Running \union {"described"}
    PROVE  SqlInv'
PROOF
  <1>1. /\ changed[c] \in Nat /\ read[c] \in SUBSET Tables /\ read' = [read EXCEPT ![c] = read[c]]
        /\ changed' = [changed EXCEPT ![c] = changed[c]] /\ ToldFact(sqlCall[c], reply[c], changed[c])
        /\ sqlCall[c].stmt.max \in Nat
    BY CallerIs
  <1>2. sqlCall[c].stmt.tool = "write" => changed[c] = 0
    BY <1>1 DEF ToldFact
  <1>3. sqlCall[c].stmt.tool = "write" =>
            /\ status \in {"ok", "refused", "capped", "timeout"} => changed[c] = 0
            /\ changed[c] <= sqlCall[c].stmt.max
    BY <1>1, <1>2
  <1> QED BY <1>1, <1>3, EndKeeps

\* The call goes on at pc.
LEMMA GoesIs ==
    ASSUME SqlInv, NEW c \in SqlCallers, NEW pc \in SqlPcs, Statements!Goes(c, pc)
    PROVE  \E k \in CallsOf(sql) :
              /\ sqlCall' = [sqlCall EXCEPT ![c] = k]
              /\ k.pc = pc /\ k.stmt = sqlCall[c].stmt /\ k.page = sqlCall[c].page /\ k.facts = sqlCall[c].facts
              /\ k.snap = sqlCall[c].snap /\ k.count = sqlCall[c].count
PROOF
  <1> DEFINE k == [sqlCall[c] EXCEPT !.pc = pc]
  <1>1. sqlCall[c] \in CallsOf(sql)
    BY CallerIs
  <1>2. sqlCall' = [sqlCall EXCEPT ![c] = k]
    BY DEF Statements!Goes
  <1>3. /\ k \in CallsOf(sql)
        /\ k.pc = pc /\ k.stmt = sqlCall[c].stmt /\ k.page = sqlCall[c].page /\ k.facts = sqlCall[c].facts
        /\ k.snap = sqlCall[c].snap /\ k.count = sqlCall[c].count
    BY <1>1 DEF CallsOf
  <1> HIDE DEF k
  <1> QED BY <1>2, <1>3

LEMMA CheckTextKeeps == ASSUME SqlInv, NEW c \in SqlCallers, Statements!CheckText(c) PROVE SqlInv'
PROOF
  <1>1. /\ sqlCall[c].pc = "text" /\ UNCHANGED <<sql, db, session, read, changed, walk>>
        /\ Statements!Stmt(c) = sqlCall[c].stmt
    BY CallerIs DEF Statements!CheckText
  <1>2. CASE Statements!Safe(sqlCall[c].stmt.fn)
    <2>1. Statements!Goes(c, "explain") /\ UNCHANGED <<locks, reply>>
      BY <1>1, <1>2 DEF Statements!CheckText
    <2>2. PICK k \in CallsOf(sql) :
              /\ sqlCall' = [sqlCall EXCEPT ![c] = k]
              /\ k.pc = "explain" /\ k.stmt = sqlCall[c].stmt /\ k.page = sqlCall[c].page /\ k.facts = sqlCall[c].facts
              /\ k.snap = sqlCall[c].snap /\ k.count = sqlCall[c].count
      BY <2>1, GoesIs DEF SqlPcs
    <2>3. CallFact(k, locks[c], read[c])
      BY <1>1, <1>2, <2>2, CallerIs DEF CallFact, Holding, Executing
    <2>4. ToldFact(k, reply[c], changed[c])
      BY <1>1, <2>2, CallerIs DEF ToldFact, Running
    <2>5. WalkFact(k, walk[c]) /\ FoundFact(k, reply[c], walk[c])
      BY <1>1, <2>2, CallerIs DEF WalkFact, FoundFact, Running
    <2> QED BY <1>1, <2>1, <2>2, <2>3, <2>4, <2>5, CallerIs, OneCaller
  <1>3. CASE ~Statements!Safe(sqlCall[c].stmt.fn)
    <2>1. Statements!Ends(c, "refused")
      BY <1>1, <1>3 DEF Statements!CheckText, Statements!Refuse
    <2> QED BY <1>1, <2>1, StopKeeps DEF Statuses, Running
  <1> QED BY <1>2, <1>3

LEMMA ExplainKeeps == ASSUME SqlInv, NEW c \in SqlCallers, Statements!Explain(c) PROVE SqlInv'
PROOF
  <1> DEFINE s == sqlCall[c].stmt
  <1>1. /\ sqlCall[c].pc = "explain" /\ UNCHANGED <<sql, db, session, changed, walk>>
        /\ Statements!Stmt(c) = s /\ s \in StmtsOf(sql)
    BY CallerIs DEF Statements!Explain
  <1>2. CASE s.names \notin db.rels \ sql.hidden
    <2>1. Statements!Ends(c, "error") /\ UNCHANGED read
      BY <1>1, <1>2 DEF Statements!Explain
    <2> QED BY <1>1, <2>1, StopKeeps DEF Statuses, Running
  <1>3. CASE s.names \in db.rels \ sql.hidden /\ s.kind = "utility"
    <2>1. Statements!Ends(c, "refused") /\ UNCHANGED read
      BY <1>1, <1>3 DEF Statements!Explain, Statements!Refuse
    <2> QED BY <1>1, <2>1, StopKeeps DEF Statuses, Running
  <1>4. CASE s.names \in db.rels \ sql.hidden /\ s.kind # "utility"
    <2> DEFINE facts == Statements!Facts(s)
               k == [sqlCall[c] EXCEPT !.pc = "check", !.facts = facts]
               held == Statements!Locked(s.names)
    <2>1. /\ sqlCall' = [sqlCall EXCEPT ![c] = k] /\ locks' = [locks EXCEPT ![c] = held] /\ UNCHANGED reply
          /\ read' = [read EXCEPT ![c] = @ \union (IF s.fn = "own" THEN {"other"} ELSE {})]
      BY <1>1, <1>4 DEF Statements!Explain
    <2>2. s.names \in Statements!Every /\ db \in Dbs
      BY <1>4, CallerIs DEF Dbs
    <2>3. read[c] = {} /\ s.fn # "own" /\ Statements!Safe(s.fn)
      BY <1>1, CallerIs DEF CallFact, Statements!Safe
    <2>4. read' = [read EXCEPT ![c] = read[c]]
      BY <2>1, <2>3
    <2>5. facts \in FactsOf /\ facts.rels = Statements!Resolved(s.names) /\ facts.calls = Statements!Calls(s.names)
      <3>1. Statements!Resolved(s.names) \subseteq Tables /\ Statements!Calls(s.names) \in BOOLEAN
        BY <2>2, BaseIs DEF Statements!Calls
      <3> QED BY <3>1 DEF Statements!Facts, FactsOf
    <2> HIDE DEF facts
    <2>6. /\ k \in CallsOf(sql) /\ k.pc = "check" /\ k.stmt = s /\ k.page = sqlCall[c].page /\ k.facts = facts
          /\ k.snap = sqlCall[c].snap /\ k.count = sqlCall[c].count
      <3>1. sqlCall[c] \in CallsOf(sql)
        BY CallerIs
      <3> QED BY <2>5, <3>1 DEF CallsOf, SqlPcs
    <2>7. held \subseteq Tables /\ s.names \in held /\ Statements!Base(s.names) \in held
      BY <2>2, BaseIs
    <2> HIDE DEF k, held, s
    <2>8. CallFact(k, held, read[c])
      <3>1. IF Statements!Base(s.names) = "orders" THEN "first" \in k.facts.rels ELSE k.facts.rels = {Statements!Base(s.names)}
        BY <2>2, <2>5, <2>6, BaseIs DEF Statements!Partitions
      <3> QED BY <2>2, <2>3, <2>5, <2>6, <2>7, <3>1 DEF CallFact, Holding, Executing
    <2>9. ToldFact(k, reply[c], changed[c])
      BY <1>1, <2>6, CallerIs DEF ToldFact, Running, Holding, s
    <2>10. WalkFact(k, walk[c]) /\ FoundFact(k, reply[c], walk[c])
      BY <1>1, <2>6, CallerIs DEF WalkFact, FoundFact, Running, Holding, s
    <2> QED BY <1>1, <2>1, <2>4, <2>6, <2>7, <2>8, <2>9, <2>10, CallerIs, OneCaller
  <1> QED BY <1>2, <1>3, <1>4

LEMMA CheckKeeps == ASSUME SqlInv, NEW c \in SqlCallers, Statements!Check(c) PROVE SqlInv'
PROOF
  <1> DEFINE s == sqlCall[c].stmt
             facts == sqlCall[c].facts
             ok == Statements!KindAllowed(s, facts) /\ ~facts.calls /\ facts.rels \subseteq Statements!Allowed
  <1>1. /\ sqlCall[c].pc = "check" /\ UNCHANGED <<sql, db, session, read, changed, walk>>
        /\ Statements!Stmt(c) = s
    BY CallerIs DEF Statements!Check
  <1>2. CASE ok
    <2>1. Statements!Goes(c, "body") /\ UNCHANGED <<locks, reply>>
      BY <1>1, <1>2 DEF Statements!Check
    <2>2. PICK k \in CallsOf(sql) :
              /\ sqlCall' = [sqlCall EXCEPT ![c] = k]
              /\ k.pc = "body" /\ k.stmt = s /\ k.page = sqlCall[c].page /\ k.facts = facts
              /\ k.snap = sqlCall[c].snap /\ k.count = sqlCall[c].count
      BY <2>1, GoesIs DEF SqlPcs
    <2>3. /\ s.names \in Statements!Every /\ s.names \in locks[c] /\ Statements!Base(s.names) \in locks[c]
          /\ facts.calls = Statements!Calls(s.names) /\ read[c] = {} /\ Statements!Safe(s.fn)
          /\ IF Statements!Base(s.names) = "orders" THEN "first" \in facts.rels ELSE facts.rels = {Statements!Base(s.names)}
      BY <1>1, CallerIs DEF CallFact, Holding
    <2>4. Statements!Resolved(s.names) \subseteq Statements!Allowed
      <3>1. CASE Statements!Base(s.names) = "orders"
        <4>1. "first" \in Statements!Allowed /\ "first" \notin sql.scope
          BY <1>2, <2>3, <3>1, CallerIs, StmtIs
        <4>2. Statements!Partitions \subseteq Statements!Allowed
          BY <4>1 DEF Statements!Allowed
        <4> QED BY <2>3, <3>1, <4>2, CallerIs, BaseIs
      <3>2. CASE Statements!Base(s.names) # "orders"
        BY <1>2, <2>3, <3>2, CallerIs, BaseIs
      <3> QED BY <3>1, <3>2
    <2>5. CallFact(k, locks[c], read[c])
      BY <1>2, <2>2, <2>3, <2>4 DEF CallFact, Holding, Executing
    <2>6. ToldFact(k, reply[c], changed[c])
      BY <1>1, <2>2, CallerIs DEF ToldFact, Running, Holding
    <2>7. WalkFact(k, walk[c]) /\ FoundFact(k, reply[c], walk[c])
      BY <1>1, <2>2, CallerIs DEF WalkFact, FoundFact, Running, Holding
    <2> QED BY <1>1, <2>1, <2>2, <2>5, <2>6, <2>7, CallerIs, OneCaller
  <1>3. CASE ~ok
    <2>1. Statements!Ends(c, "refused")
      BY <1>1, <1>3 DEF Statements!Check, Statements!Refuse
    <2> QED BY <1>1, <2>1, StopKeeps DEF Statuses, Running, Holding
  <1> QED BY <1>2, <1>3

\* The walk of a call that begins.
LEMMA WalkingIs ==
    ASSUME SqlInv, NEW c \in SqlCallers, NEW s \in sql.stmts, s.tool \in {"read", "list"},
           NEW page \in Statements!Pages(c, s)
    PROVE  /\ page \in Nat
           /\ \E w \in WalksOf(sql) :
                /\ Statements!Walking(c, s, page) = w
                /\ w.stmt = s /\ page = w.page + 1 /\ w.page \in Nat
                /\ \A k : k.pc = "idle" => WalkFact(k, w)
PROOF
  <1>1. walk[c] \in WalksOf(sql) /\ WalkFact(sqlCall[c], walk[c]) /\ sql \in SqlWorlds /\ db \in Dbs
    BY CallerIs
  <1>2. walk[c].page \in Nat
    BY <1>1 DEF WalksOf
  <1>3. page = 1 \/ (walk[c].stmt = s /\ page = walk[c].page + 1)
    BY DEF Statements!Pages
  <1>4. page \in Nat
    BY <1>2, <1>3
  <1>5. CASE page = 1
    <2> DEFINE w == [Statements!NoWalk EXCEPT !.stmt = s]
    <2>1. Statements!Walking(c, s, page) = w
      BY <1>5 DEF Statements!Walking
    <2>2. w \in WalksOf(sql)
      <3>1. s \in StmtsOf(sql)
        BY DEF StmtsOf
      <3> QED BY <3>1, NothingIs DEF WalksOf
    <2>3. w.stmt = s /\ w.page = 0 /\ w.seen = {} /\ w.quiet
      BY NothingIs DEF Statements!NoWalk
    <2> HIDE DEF w
    <2>4. w.page * w.stmt.max = 0
      BY <1>1, <2>3, StmtIs DEF StmtsOf
    <2>5. Upto(0) = {}
      BY DEF Upto
    <2>6. ListedUpto(0) = {}
      <3>1. \A j \in Statements!Found : Statements!Before(j) \in Nat
        <4> SUFFICES ASSUME NEW j \in Statements!Found PROVE Statements!Before(j) \in Nat
          OBVIOUS
        <4>1. {i \in Statements!Found : i < j} \subseteq 1 .. 4
          BY EveryIs DEF Statements!Found
        <4>2. IsFiniteSet(1 .. 4)
          <5>1. 1 \in Int /\ 4 \in Int
            OBVIOUS
          <5> QED BY <5>1, FS_Interval
        <4>3. IsFiniteSet({i \in Statements!Found : i < j})
          BY <4>1, <4>2, FS_Subset
        <4> QED BY <4>3, FS_CardinalityType, SqlCounts DEF Statements!Before
      <3>2. \A j \in Statements!Found : ~(Statements!Before(j) < 0)
        BY <3>1
      <3> QED BY <3>2 DEF ListedUpto
    <2>7. \A k : k.pc = "idle" => WalkFact(k, w)
      BY <2>3, <2>4, <2>5, <2>6 DEF WalkFact, Running, Holding
    <2> QED BY <1>4, <1>5, <2>1, <2>2, <2>3, <2>7
  <1>6. CASE page # 1
    <2>1. Statements!Walking(c, s, page) = walk[c] /\ walk[c].stmt = s /\ page = walk[c].page + 1
      BY <1>3, <1>6 DEF Statements!Walking
    <2>2. \A k : k.pc = "idle" => WalkFact(k, walk[c])
      BY <1>1 DEF WalkFact, Running, Holding
    <2> QED BY <1>1, <1>2, <1>4, <2>1, <2>2
  <1> QED BY <1>5, <1>6

LEMMA BeginKeeps ==
    ASSUME SqlInv, NEW c \in SqlCallers, NEW s \in sql.stmts, NEW page \in Statements!Pages(c, s),
           Statements!Begin(c, s, page)
    PROVE  SqlInv'
PROOF
  <1> DEFINE k == [Statements!NoCall EXCEPT !.pc = "text", !.stmt = s, !.page = page]
  <1>1. /\ sqlCall[c].pc = "idle" /\ s.tool \in {"read", "explain", "write"} /\ UNCHANGED <<sql, db, locks>>
        /\ sqlCall' = [sqlCall EXCEPT ![c] = k] /\ read' = [read EXCEPT ![c] = {}]
        /\ changed' = [changed EXCEPT ![c] = 0] /\ reply' = [reply EXCEPT ![c] = Statements!NoReply]
        /\ page \in (IF s.tool = "read" THEN Statements!Pages(c, s) ELSE {1})
    BY CallerIs DEF Statements!Begin
  <1>2. UNCHANGED session
    <2>1. session' = [session EXCEPT ![c] = @ \union {}] /\ session \in [SqlCallers -> {{}}]
      BY DEF Statements!Begin, Statements!Guards, SqlInv, SqlTypes
    <2> QED BY <2>1
  <1>3. locks[c] = {} /\ locks' = [locks EXCEPT ![c] = {}]
    BY <1>1, CallerIs DEF CallFact, Holding
  <1>4. page \in Nat
    <2>1. walk[c].page \in Nat
      BY CallerIs DEF WalksOf
    <2> QED BY <2>1 DEF Statements!Pages
  <1>5. k \in CallsOf(sql) /\ k.pc = "text" /\ k.stmt = s /\ k.page = page
    <2>1. Statements!NoCall \in CallsOf(sql) /\ s \in StmtsOf(sql)
      BY NothingIs DEF StmtsOf
    <2> QED BY <1>4, <2>1 DEF CallsOf, SqlPcs
  <1> HIDE DEF k
  <1>6. CallFact(k, {}, {})
    BY <1>5 DEF CallFact, Holding, Executing
  <1>7. ToldFact(k, Statements!NoReply, 0)
    BY <1>1, <1>5, NothingIs DEF ToldFact, Running, Holding
  <1>8. \A w : FoundFact(k, Statements!NoReply, w)
    BY NothingIs DEF FoundFact
  <1>9. CASE s.tool = "read"
    <2>1. walk' = [walk EXCEPT ![c] = Statements!Walking(c, s, page)]
      BY <1>9 DEF Statements!Begin
    <2>2. PICK w \in WalksOf(sql) :
                /\ Statements!Walking(c, s, page) = w
                /\ w.stmt = s /\ page = w.page + 1 /\ w.page \in Nat
                /\ \A k1 : k1.pc = "idle" => WalkFact(k1, w)
      BY <1>9, WalkingIs
    <2>3. WalkFact(Statements!NoCall, w)
      BY <2>2, NothingIs
    <2>4. WalkFact(k, w)
      BY <1>5, <2>2, <2>3 DEF WalkFact
    <2> QED BY <1>1, <1>2, <1>3, <1>5, <1>6, <1>7, <1>8, <2>1, <2>2, <2>4, NothingIs, OneCaller
  <1>10. CASE s.tool # "read"
    <2>1. walk' = walk
      BY <1>10 DEF Statements!Begin
    <2>2. WalkFact(k, walk[c])
      BY <1>5, <1>10, CallerIs DEF WalkFact
    <2> QED BY <1>1, <1>2, <1>3, <1>5, <1>6, <1>7, <1>8, <2>1, <2>2, CallerIs, NothingIs, OneCaller
  <1> QED BY <1>9, <1>10

-----------------------------------------------------------------------------
(* Statements: what a call runs. *)

\* What runs reads what it was checked for, and leaves nothing on the connection.
LEMMA ExecutesIs ==
    ASSUME SqlInv, NEW c \in SqlCallers, sqlCall[c].pc = "body"
    PROVE  /\ Statements!Resolved(sqlCall[c].stmt.names) \subseteq Tables
           /\ read[c] \union Statements!Resolved(sqlCall[c].stmt.names) = Statements!Resolved(sqlCall[c].stmt.names)
           /\ Statements!Executes(c) =>
                /\ UNCHANGED session
                /\ read' = [read EXCEPT ![c] = Statements!Resolved(sqlCall[c].stmt.names)]
PROOF
  <1> DEFINE s == sqlCall[c].stmt
             reads == Statements!Resolved(s.names)
  <1>1. /\ s.names \in Statements!Every /\ ~Statements!Calls(s.names) /\ read[c] \subseteq reads
        /\ s.fn # "denied"
    BY CallerIs DEF CallFact, Holding, Executing, Statements!Safe
  <1>2. reads \subseteq Tables
    BY <1>1, CallerIs, BaseIs
  <1>3. ASSUME Statements!Executes(c)
        PROVE  UNCHANGED session /\ read' = [read EXCEPT ![c] = reads]
    <2>1. /\ read' = [read EXCEPT ![c] = @ \union reads \union (IF Statements!Calls(s.names) THEN {"other"} ELSE {})]
          /\ session' = [session EXCEPT ![c] = @ \union (IF s.fn = "denied" THEN {"lock"} ELSE {})]
      BY <1>3 DEF Statements!Executes, Statements!Stmt
    <2>2. session \in [SqlCallers -> {{}}] /\ read \in [SqlCallers -> SUBSET Tables]
      BY DEF SqlInv, SqlTypes
    <2> HIDE DEF reads
    <2>3. session' = session
      BY <1>1, <2>1, <2>2
    <2>4. read' = [read EXCEPT ![c] = reads]
      BY <1>1, <2>1, <2>2
    <2> QED BY <2>3, <2>4
  <1> QED BY <1>1, <1>2, <1>3

\* A call at its body that goes on to pc, with what it has read.
LEMMA BodyFact ==
    ASSUME SqlInv, NEW c \in SqlCallers, sqlCall[c].pc = "body", NEW k, k.pc \in Executing, k.stmt = sqlCall[c].stmt
    PROVE  CallFact(k, locks[c], Statements!Resolved(sqlCall[c].stmt.names))
  BY CallerIs DEF CallFact, Holding, Executing

LEMMA DeclareKeeps == ASSUME SqlInv, NEW c \in SqlCallers, Statements!Declare(c) PROVE SqlInv'
PROOF
  <1>1. /\ sqlCall[c].pc = "body" /\ sqlCall[c].stmt.tool = "read" /\ UNCHANGED <<sql, db, changed, walk>>
        /\ Statements!Stmt(c) = sqlCall[c].stmt
    BY CallerIs DEF Statements!Declare
  <1>2. CASE sqlCall[c].stmt.kind = "into"
    <2>1. Statements!Ends(c, "error") /\ UNCHANGED <<session, read>>
      BY <1>1, <1>2 DEF Statements!Declare
    <2> QED BY <1>1, <2>1, StopKeeps DEF Statuses, Running, Holding
  <1>3. CASE sqlCall[c].stmt.kind # "into"
    <2> DEFINE k == [sqlCall[c] EXCEPT !.pc = "fetch", !.snap = db.rows]
               reads == Statements!Resolved(sqlCall[c].stmt.names)
    <2>1. sqlCall' = [sqlCall EXCEPT ![c] = k] /\ Statements!Executes(c) /\ UNCHANGED <<locks, reply>>
      BY <1>1, <1>3 DEF Statements!Declare
    <2>2. UNCHANGED session /\ read' = [read EXCEPT ![c] = reads] /\ reads \in SUBSET Tables
      BY <1>1, <2>1, ExecutesIs
    <2>3. db.rows \in Nat /\ sqlCall[c] \in CallsOf(sql)
      BY CallerIs DEF Dbs
    <2>4. k \in CallsOf(sql) /\ k.pc = "fetch" /\ k.stmt = sqlCall[c].stmt /\ k.page = sqlCall[c].page /\ k.snap = db.rows
      BY <2>3 DEF CallsOf, SqlPcs
    <2> HIDE DEF k
    <2>5. CallFact(k, locks[c], reads)
      BY <1>1, <2>4, BodyFact DEF Executing
    <2>6. ToldFact(k, reply[c], changed[c])
      BY <1>1, <2>4, CallerIs DEF ToldFact, Running, Holding
    <2>7. WalkFact(k, walk[c]) /\ FoundFact(k, reply[c], walk[c])
      BY <1>1, <2>4, CallerIs DEF WalkFact, FoundFact, Running, Holding
    <2> HIDE DEF reads
    <2> QED BY <1>1, <2>1, <2>2, <2>4, <2>5, <2>6, <2>7, CallerIs, OneCaller
  <1> QED BY <1>2, <1>3

LEMMA ShowPlanKeeps == ASSUME SqlInv, NEW c \in SqlCallers, Statements!ShowPlan(c) PROVE SqlInv'
PROOF
  <1>1. /\ sqlCall[c].pc = "body" /\ sqlCall[c].stmt.tool = "explain" /\ UNCHANGED <<sql, db, session, changed, walk>>
        /\ Statements!Stmt(c) = sqlCall[c].stmt
    BY CallerIs DEF Statements!ShowPlan
  <1>2. CASE sqlCall[c].stmt.kind = "into"
    <2>1. Statements!Ends(c, "error") /\ UNCHANGED read
      BY <1>1, <1>2 DEF Statements!ShowPlan
    <2> QED BY <1>1, <2>1, StopKeeps DEF Statuses, Running, Holding
  <1>3. CASE sqlCall[c].stmt.kind # "into"
    <2> DEFINE reads == Statements!Resolved(sqlCall[c].stmt.names)
    <2>1. /\ Statements!Goes(c, "commit") /\ UNCHANGED <<locks, reply>>
          /\ read' = [read EXCEPT ![c] = @ \union reads]
      BY <1>1, <1>3 DEF Statements!ShowPlan
    <2>2. read' = [read EXCEPT ![c] = reads] /\ reads \in SUBSET Tables
      <3>1. read[c] \union reads = reads /\ reads \in SUBSET Tables
        BY <1>1, ExecutesIs
      <3> HIDE DEF reads
      <3> QED BY <2>1, <3>1
    <2>3. PICK k \in CallsOf(sql) :
              /\ sqlCall' = [sqlCall EXCEPT ![c] = k]
              /\ k.pc = "commit" /\ k.stmt = sqlCall[c].stmt /\ k.page = sqlCall[c].page /\ k.facts = sqlCall[c].facts
              /\ k.snap = sqlCall[c].snap /\ k.count = sqlCall[c].count
      BY <2>1, GoesIs DEF SqlPcs
    <2>4. CallFact(k, locks[c], reads)
      BY <1>1, <2>3, BodyFact DEF Executing
    <2>5. ToldFact(k, reply[c], changed[c])
      BY <1>1, <2>3, CallerIs DEF ToldFact, Running, Holding
    <2>6. WalkFact(k, walk[c]) /\ FoundFact(k, reply[c], walk[c])
      BY <1>1, <2>3, CallerIs DEF WalkFact, FoundFact, Running, Holding
    <2> HIDE DEF reads
    <2> QED BY <1>1, <2>1, <2>2, <2>3, <2>4, <2>5, <2>6, CallerIs, OneCaller
  <1> QED BY <1>2, <1>3

LEMMA FetchKeeps == ASSUME SqlInv, NEW c \in SqlCallers, Statements!Fetch(c) PROVE SqlInv'
PROOF
  <1>1. /\ sqlCall[c].pc = "fetch" /\ Statements!Goes(c, "commit")
        /\ UNCHANGED <<sql, db, locks, session, read, reply, changed, walk>>
    BY CallerIs DEF Statements!Fetch
  <1>2. PICK k \in CallsOf(sql) :
              /\ sqlCall' = [sqlCall EXCEPT ![c] = k]
              /\ k.pc = "commit" /\ k.stmt = sqlCall[c].stmt /\ k.page = sqlCall[c].page /\ k.facts = sqlCall[c].facts
              /\ k.snap = sqlCall[c].snap /\ k.count = sqlCall[c].count
    BY <1>1, GoesIs DEF SqlPcs
  <1>3. CallFact(k, locks[c], read[c])
    BY <1>1, <1>2, CallerIs DEF CallFact, Holding, Executing
  <1>4. ToldFact(k, reply[c], changed[c])
    BY <1>1, <1>2, CallerIs DEF ToldFact, Running, Holding
  <1>5. WalkFact(k, walk[c]) /\ FoundFact(k, reply[c], walk[c])
    BY <1>1, <1>2, CallerIs DEF WalkFact, FoundFact, Running, Holding
  <1> QED BY <1>1, <1>2, <1>3, <1>4, <1>5, CallerIs, OneCaller

LEMMA RunKeeps == ASSUME SqlInv, NEW c \in SqlCallers, Statements!Run(c) PROVE SqlInv'
PROOF
  <1> DEFINE reads == Statements!Resolved(sqlCall[c].stmt.names)
  <1>1. /\ sqlCall[c].pc = "body" /\ sqlCall[c].stmt.tool = "write" /\ UNCHANGED <<sql, db, changed, walk>>
        /\ Statements!Executes(c) /\ Statements!Stmt(c) = sqlCall[c].stmt
    BY CallerIs DEF Statements!Run
  <1>2. UNCHANGED session /\ read' = [read EXCEPT ![c] = reads] /\ reads \in SUBSET Tables
    BY <1>1, ExecutesIs
  <1>3. changed[c] = 0 /\ reply[c].status = "none" /\ changed' = [changed EXCEPT ![c] = 0]
    BY <1>1, CallerIs DEF ToldFact, Running, Holding
  <1>4. db.rows \in Nat /\ sqlCall[c].stmt.max \in Nat
    BY CallerIs DEF Dbs
  <1>5. CASE db.rows > sqlCall[c].stmt.max
    <2>1. Statements!Ends(c, "capped")
      BY <1>1, <1>5 DEF Statements!Run
    <2>2. "capped" \in Statuses /\ "capped" # "unknown" /\ 0 \in Nat /\ 0 <= sqlCall[c].stmt.max
      BY <1>4 DEF Statuses
    <2> HIDE DEF reads
    <2> QED BY <1>1, <1>2, <1>3, <2>1, <2>2, EndKeeps
  <1>6. CASE ~(db.rows > sqlCall[c].stmt.max)
    <2> DEFINE k == [sqlCall[c] EXCEPT !.pc = "commit", !.count = db.rows]
    <2>1. sqlCall' = [sqlCall EXCEPT ![c] = k] /\ UNCHANGED <<locks, reply>>
      BY <1>1, <1>6 DEF Statements!Run
    <2>2. k \in CallsOf(sql) /\ k.pc = "commit" /\ k.stmt = sqlCall[c].stmt /\ k.count = db.rows
      <3>1. sqlCall[c] \in CallsOf(sql)
        BY CallerIs
      <3> QED BY <1>4, <3>1 DEF CallsOf, SqlPcs
    <2> HIDE DEF k
    <2>3. k.count <= k.stmt.max
      BY <1>4, <1>6, <2>2
    <2>4. CallFact(k, locks[c], reads)
      BY <1>1, <2>2, BodyFact DEF Executing
    <2>5. ToldFact(k, reply[c], 0)
      BY <1>1, <1>3, <2>2, <2>3 DEF ToldFact, Running, Holding
    <2>6. WalkFact(k, walk[c]) /\ FoundFact(k, reply[c], walk[c])
      BY <1>1, <2>2, CallerIs DEF WalkFact, FoundFact, Running, Holding
    <2> HIDE DEF reads
    <2> QED BY <1>1, <1>2, <1>3, <2>1, <2>2, <2>4, <2>5, <2>6, CallerIs, OneCaller
  <1> QED BY <1>5, <1>6

-----------------------------------------------------------------------------
(* Statements: what pages add up to. *)

\* Of the relations found there are more than m, just when one of them has m before it.
LEMMA MoreFound ==
    ASSUME NEW m \in Nat
    PROVE  /\ \A i \in Statements!Found : Statements!Before(i) \in Nat
           /\ Statements!Cardinality(Statements!Found) > m <=> \E i \in Statements!Found : Statements!Before(i) >= m
PROOF
  <1> DEFINE F == Statements!Found
             B(i) == {j \in F : j < i}
  <1>1. F \subseteq 1 .. 4
    BY EveryIs DEF Statements!Found
  <1>2. IsFiniteSet(F)
    <2>1. 1 \in Int /\ 4 \in Int
      OBVIOUS
    <2>2. IsFiniteSet(1 .. 4)
      BY <2>1, FS_Interval
    <2> QED BY <1>1, <2>2, FS_Subset
  <1>3. \A i \in F : Statements!Before(i) = Cardinality(B(i))
    BY SqlCounts DEF Statements!Before
  <1>4. Statements!Cardinality(F) = Cardinality(F) /\ Cardinality(F) \in Nat
    BY <1>2, SqlCounts, FS_CardinalityType
  <1> HIDE DEF F
  <1>5. ASSUME NEW i \in F
        PROVE  /\ Cardinality(F \ {i}) = Cardinality(F) - 1 /\ IsFiniteSet(F \ {i})
               /\ B(i) \subseteq F \ {i} /\ Cardinality(B(i)) \in Nat /\ Cardinality(B(i)) <= Cardinality(F) - 1
    <2>1. Cardinality(F \ {i}) = Cardinality(F) - 1 /\ IsFiniteSet(F \ {i})
      BY <1>2, FS_RemoveElement
    <2>2. B(i) \subseteq F \ {i}
      BY <1>1
    <2>3. IsFiniteSet(B(i)) /\ Cardinality(B(i)) <= Cardinality(F \ {i})
      BY <2>1, <2>2, FS_Subset
    <2>4. Cardinality(B(i)) \in Nat
      BY <2>3, FS_CardinalityType
    <2> QED BY <2>1, <2>2, <2>3, <2>4
  <1>6. ASSUME Cardinality(F) > m PROVE \E i \in F : Cardinality(B(i)) >= m
    <2>1. F # {}
      BY <1>6, FS_EmptySet
    <2>2. PICK i \in F : \A j \in F : j <= i
      <3>1. \A j \in F : j = 1 \/ j = 2 \/ j = 3 \/ j = 4
        BY <1>1
      <3>2. CASE 4 \in F
        BY <3>1, <3>2
      <3>3. CASE 4 \notin F /\ 3 \in F
        BY <3>1, <3>3
      <3>4. CASE 4 \notin F /\ 3 \notin F /\ 2 \in F
        BY <3>1, <3>4
      <3>5. CASE 4 \notin F /\ 3 \notin F /\ 2 \notin F
        BY <2>1, <3>1, <3>5
      <3> QED BY <3>2, <3>3, <3>4, <3>5
    <2>3. B(i) = F \ {i}
      <3>1. \A j \in F : j < i <=> j # i
        BY <1>1, <2>2
      <3> QED BY <3>1
    <2>4. Cardinality(B(i)) = Cardinality(F) - 1
      BY <1>5, <2>3
    <2> HIDE DEF B
    <2> QED BY <1>4, <1>6, <2>4
  <1>7. ASSUME NEW i \in F, Cardinality(B(i)) >= m PROVE Cardinality(F) > m
    <2>1. Cardinality(B(i)) \in Nat /\ Cardinality(B(i)) <= Cardinality(F) - 1
      BY <1>5
    <2> HIDE DEF B
    <2> QED BY <1>4, <1>7, <2>1
  <1>8. Cardinality(F) > m <=> \E i \in F : Cardinality(B(i)) >= m
    BY <1>6, <1>7
  <1> HIDE DEF B
  <1> QED BY <1>3, <1>4, <1>5, <1>8 DEF F

\* Then something that is found has not been listed.
LEMMA ListedAll ==
    ASSUME NEW m \in Nat
    PROVE  /\ ListedUpto(m) \subseteq {Statements!Relations[i] : i \in Statements!Found}
           /\ Statements!Cardinality(Statements!Found) > m
                <=> ListedUpto(m) # {Statements!Relations[i] : i \in Statements!Found}
PROOF
  <1> DEFINE all == {Statements!Relations[i] : i \in Statements!Found}
  <1>1. /\ \A i \in Statements!Found : Statements!Before(i) \in Nat
        /\ Statements!Cardinality(Statements!Found) > m <=> \E i \in Statements!Found : Statements!Before(i) >= m
    BY MoreFound
  <1>2. Statements!Found \subseteq 1 .. 4
    BY EveryIs DEF Statements!Found
  <1>3. \A x : x \in ListedUpto(m) <=> \E i \in Statements!Found : Statements!Before(i) < m /\ x = Statements!Relations[i]
    BY DEF ListedUpto
  <1>4. \A x : x \in all <=> \E i \in Statements!Found : x = Statements!Relations[i]
    OBVIOUS
  <1>5. ListedUpto(m) \subseteq all
    BY <1>3, <1>4
  <1>6. ASSUME NEW i \in Statements!Found, Statements!Before(i) >= m
        PROVE  Statements!Relations[i] \in all /\ Statements!Relations[i] \notin ListedUpto(m)
    <2>1. ASSUME NEW j \in Statements!Found, Statements!Before(j) < m, Statements!Relations[i] = Statements!Relations[j] PROVE FALSE
      <3>1. i = j
        BY <1>2, <2>1, EveryIs
      <3>2. Statements!Before(i) \in Nat
        BY <1>1
      <3> QED BY <1>6, <2>1, <3>1, <3>2
    <2> QED BY <1>3, <2>1
  <1>7. ASSUME \A i \in Statements!Found : ~(Statements!Before(i) >= m) PROVE all \subseteq ListedUpto(m)
    <2>1. \A i \in Statements!Found : Statements!Before(i) < m
      BY <1>1, <1>7
    <2> QED BY <1>3, <1>4, <2>1
  <1> HIDE DEF all
  <1>8. ListedUpto(m) # all <=> \E i \in Statements!Found : Statements!Before(i) >= m
    BY <1>5, <1>6, <1>7
  <1> QED BY <1>1, <1>5, <1>8 DEF all

\* What a page shows of the listing, after the pages before it.
LEMMA ListedNext ==
    ASSUME NEW from \in Nat, NEW max \in Nat
    PROVE  ListedUpto(from) \union {Statements!Relations[i] : i \in {j \in Statements!Found :
                from <= Statements!Before(j) /\ Statements!Before(j) < from + max}} = ListedUpto(from + max)
PROOF
  <1>1. \A i \in Statements!Found : Statements!Before(i) \in Nat
    BY MoreFound
  <1>2. \A i \in Statements!Found :
            Statements!Before(i) < from + max <=>
                Statements!Before(i) < from \/ (from <= Statements!Before(i) /\ Statements!Before(i) < from + max)
    BY <1>1
  <1> QED BY <1>2 DEF ListedUpto

\* What a page reads of the rows, after the pages before it, and whether there are more.
LEMMA PagesAdd ==
    ASSUME NEW c \in SqlCallers, NEW page \in Nat, NEW max \in Nat, db.rows \in Nat,
           sqlCall[c].page = page + 1, sqlCall[c].snap = db.rows, sqlCall[c].stmt.max = max,
           sqlCall[c].stmt.tool = "read"
    PROVE  /\ Upto(page * max) \union Statements!Page(c) = Upto((page + 1) * max)
           /\ Statements!More(c) <=> db.rows > (page + 1) * max
PROOF
  <1> DEFINE from == page * max
             skipped1 == IF db.rows <= from THEN db.rows ELSE from
             left == db.rows - skipped1
             fetched == IF left <= max + 1 THEN left ELSE max + 1
             kept == IF fetched <= max THEN fetched ELSE max
  <1>1. from \in Nat /\ (page + 1) * max = from + max
    OBVIOUS
  <1>2. Statements!Moved(sqlCall[c].page, max) = from
    <2>1. (page + 1) - 1 = page
      OBVIOUS
    <2> QED BY <2>1 DEF Statements!Moved
  <1> HIDE DEF from
  <1>3. Statements!Min({db.rows, from}) = skipped1 /\ left \in Nat
    BY <1>1, SmallerOf
  <1>4. Statements!Fetched(c) = Statements!Min({left, max + 1})
    BY <1>2, <1>3 DEF Statements!Fetched, Statements!Stmt
  <1>5. Statements!Fetched(c) = fetched /\ fetched \in Nat
    <2>1. max + 1 \in Nat
      OBVIOUS
    <2> HIDE DEF left
    <2> QED BY <1>3, <1>4, <2>1, SmallerOf
  <1>6. Statements!Min({fetched, max}) = kept
    <2> HIDE DEF fetched
    <2> QED BY <1>5, SmallerOf
  <1>7. Statements!Page(c) = {from + i : i \in 1 .. kept}
    <2> HIDE DEF kept, fetched
    <2> QED BY <1>2, <1>5, <1>6 DEF Statements!Page, Statements!Stmt
  <1>8. Statements!More(c) <=> db.rows > from + max
    <2>1. Statements!More(c) <=> fetched > max
      BY <1>5 DEF Statements!More, Statements!Stmt
    <2> QED BY <1>1, <2>1
  <1>9. ASSUME NEW x
        PROVE  x \in Upto(from) \union {from + i : i \in 1 .. kept} <=> x \in Upto(from + max)
    <2>1. x \in Upto(from) <=> x \in 1 .. db.rows /\ x <= from
      BY DEF Upto
    <2>2. x \in Upto(from + max) <=> x \in 1 .. db.rows /\ x <= from + max
      BY DEF Upto
    <2>3. kept \in Nat
      BY <1>1
    <2>4. x \in {from + i : i \in 1 .. kept} <=> x \in Int /\ x > from /\ x <= from + kept
      <3>1. ASSUME x \in Int, x > from, x <= from + kept PROVE x \in {from + i : i \in 1 .. kept}
        <4> HIDE DEF kept
        <4>1. x - from \in 1 .. kept /\ x = from + (x - from)
          BY <1>1, <2>3, <3>1
        <4> QED BY <4>1
      <3>2. ASSUME x \in {from + i : i \in 1 .. kept} PROVE x \in Int /\ x > from /\ x <= from + kept
        <4> HIDE DEF kept
        <4> QED BY <1>1, <2>3, <3>2
      <3> QED BY <3>1, <3>2
    <2>5. CASE db.rows <= from
      BY <1>1, <2>1, <2>2, <2>4, <2>5
    <2>6. CASE ~(db.rows <= from)
      <3>1. left = db.rows - from
        BY <2>6
      <3>2. CASE left <= max
        <4>1. kept = left
          BY <1>3, <3>2
        <4>2. from + kept = db.rows
          BY <1>1, <3>1, <4>1
        <4> HIDE DEF kept, left
        <4> QED BY <1>1, <2>1, <2>2, <2>4, <2>6, <3>1, <3>2, <4>2
      <3>3. CASE ~(left <= max)
        <4>1. kept = max
          BY <1>3, <3>3
        <4> HIDE DEF kept, left
        <4> QED BY <1>1, <1>3, <2>1, <2>2, <2>4, <2>6, <3>1, <3>3, <4>1
      <3> QED BY <3>2, <3>3
    <2> QED BY <2>5, <2>6
  <1> HIDE DEF kept
  <1>10. Upto(from) \union Statements!Page(c) = Upto(from + max)
    <2>1. Upto(from) \union {from + i : i \in 1 .. kept} = Upto(from + max)
      BY <1>9
    <2> QED BY <1>7, <2>1
  <1> QED BY <1>1, <1>8, <1>10 DEF from

-----------------------------------------------------------------------------
(* Statements: how a call ends, and the listing. *)

LEMMA CommitKeeps == ASSUME SqlInv, NEW c \in SqlCallers, Statements!Commit(c) PROVE SqlInv'
PROOF
  <1> DEFINE s == sqlCall[c].stmt
             n == sqlCall[c].count
             k == [Statements!NoCall EXCEPT !.stmt = s]
             r == [status |-> "ok", count |-> n]
  <1>1. /\ sqlCall[c].pc = "commit" /\ UNCHANGED <<sql, db, session, read>> /\ Statements!Stmt(c) = s
        /\ s \in StmtsOf(sql) /\ sqlCall[c] \in CallsOf(sql)
    BY CallerIs DEF Statements!Commit
  <1>2. /\ sqlCall' = [sqlCall EXCEPT ![c] = k] /\ locks' = [locks EXCEPT ![c] = {}]
        /\ reply' = [reply EXCEPT ![c] = r] /\ changed' = [changed EXCEPT ![c] = n]
    BY <1>1 DEF Statements!Commit
  <1>3. n \in Nat /\ sqlCall[c].page \in Nat
    BY <1>1 DEF CallsOf
  <1>4. k \in CallsOf(sql) /\ k.pc = "idle" /\ k.stmt = s /\ r \in Replies /\ r.status = "ok" /\ r.count = n
    BY <1>1, <1>3, EndedIs DEF Statuses
  <1> HIDE DEF k, r
  <1>5. CallFact(k, {}, read[c])
    BY <1>4 DEF CallFact, Holding, Executing
  <1>6. ToldFact(k, r, n)
    <2>1. s.tool = "write" => n <= s.max
      BY <1>1, CallerIs DEF ToldFact
    <2> QED BY <1>4, <2>1 DEF ToldFact, Running, Holding
  <1>7. \A w : FoundFact(k, r, w)
    BY <1>4 DEF FoundFact
  <1>8. CASE s.tool # "read"
    <2>1. walk' = walk
      BY <1>1, <1>8 DEF Statements!Commit
    <2>2. WalkFact(k, walk[c])
      BY <1>4, CallerIs DEF WalkFact, Running, Holding
    <2> QED BY <1>1, <1>2, <1>3, <1>4, <1>5, <1>6, <1>7, <2>1, <2>2, CallerIs, OneCaller
  <1>9. CASE s.tool = "read"
    <2> DEFINE w == walk[c]
               seen == w.seen \union Statements!Page(c)
               page == sqlCall[c].page
               more == Statements!More(c)
    <2>1. walk' = [walk EXCEPT ![c] = [w EXCEPT !.seen = seen, !.page = page, !.more = more]]
      <3>1. walk' = [walk EXCEPT ![c].seen = @ \union Statements!Page(c), ![c].page = sqlCall[c].page,
                                 ![c].more = Statements!More(c)]
        BY <1>1, <1>9 DEF Statements!Commit
      <3>2. walk \in [SqlCallers -> WalksOf(sql)] /\ walk[c] \in WalksOf(sql)
        BY CallerIs DEF SqlInv, SqlTypes
      <3> QED BY <3>1, <3>2 DEF WalksOf
    <2>2. /\ w \in WalksOf(sql) /\ w.stmt = s /\ page = w.page + 1 /\ w.page \in Nat
          /\ w.quiet => sqlCall[c].snap = db.rows /\ w.seen = Upto(w.page * s.max)
          /\ s.max \in Nat /\ db.rows \in Nat
      <3>1. w \in WalksOf(sql) /\ WalkFact(sqlCall[c], w) /\ s.max \in Nat /\ db.rows \in Nat
        BY CallerIs DEF Dbs
      <3> QED BY <1>1, <1>9, <3>1 DEF WalkFact, Running, Holding, WalksOf
    <2>3. seen \in SUBSET (Tables \union Nat) /\ more \in BOOLEAN
      <3>1. Statements!Moved(page, s.max) \in Nat
        <4>1. (page - 1) * s.max = w.page * s.max
          BY <2>2
        <4>2. w.page * s.max \in Nat
          BY <2>2
        <4> QED BY <4>1, <4>2 DEF Statements!Moved
      <3>2. Statements!Page(c) \subseteq Nat
        <4> DEFINE kept == Statements!Min({Statements!Fetched(c), s.max})
                   from == Statements!Moved(page, s.max)
        <4>1. Statements!Page(c) = {from + i : i \in 1 .. kept}
          BY DEF Statements!Page, Statements!Stmt
        <4> HIDE DEF kept, from
        <4>2. from \in Nat
          BY <3>1 DEF from
        <4>3. \A i \in 1 .. kept : from + i \in Nat
          BY <4>2
        <4> QED BY <4>1, <4>3
      <3>3. w.seen \subseteq Tables \union Nat
        BY <2>2 DEF WalksOf
      <3> QED BY <3>2, <3>3 DEF Statements!More
    <2> HIDE DEF seen, more, w, page
    <2>4. PICK w1 : w1 = [w EXCEPT !.seen = seen, !.page = page, !.more = more]
      OBVIOUS
    <2>5. /\ w1 \in WalksOf(sql)
          /\ w1.stmt = w.stmt /\ w1.seen = seen /\ w1.page = page /\ w1.more = more /\ w1.quiet = w.quiet
      <3>1. page \in Nat
        BY <1>3 DEF page
      <3> QED BY <2>2, <2>3, <2>4, <3>1 DEF WalksOf
    <2>6. w.quiet => seen = Upto(page * s.max) /\ (more <=> db.rows > page * s.max)
      <3>1. CASE w.quiet
        <4>1. PICK before, max : before = w.page /\ max = s.max
          OBVIOUS
        <4>2. before \in Nat /\ max \in Nat /\ page = before + 1 /\ db.rows \in Nat
          BY <2>2, <4>1
        <4>3. /\ sqlCall[c].page = before + 1 /\ sqlCall[c].snap = db.rows /\ sqlCall[c].stmt.max = max
              /\ sqlCall[c].stmt.tool = "read"
          BY <1>9, <2>2, <3>1, <4>1, <4>2 DEF page
        <4>4. /\ Upto(before * max) \union Statements!Page(c) = Upto((before + 1) * max)
              /\ Statements!More(c) <=> db.rows > (before + 1) * max
          BY <4>2, <4>3, PagesAdd
        <4>5. w.seen = Upto(before * max)
          BY <2>2, <3>1, <4>1
        <4> QED BY <4>1, <4>2, <4>4, <4>5 DEF seen, more
      <3>2. CASE ~w.quiet
        BY <3>2
      <3> QED BY <3>1, <3>2
    <2>7. WalkFact(k, w1)
      BY <1>4, <1>9, <2>2, <2>5, <2>6 DEF WalkFact, Running, Holding
    <2>8. walk' = [walk EXCEPT ![c] = w1]
      BY <2>1, <2>4
    <2> QED BY <1>1, <1>2, <1>3, <1>4, <1>5, <1>6, <1>7, <2>5, <2>7, <2>8, CallerIs, OneCaller
  <1> QED BY <1>8, <1>9

LEMMA FailsKeeps == ASSUME SqlInv, NEW c \in SqlCallers, NEW timeout, Statements!Fails(c, timeout) PROVE SqlInv'
PROOF
  <1>1. sqlCall[c].pc \notin {"idle", "described"} /\ UNCHANGED <<sql, db, session, read, changed, walk>>
    BY DEF Statements!Fails
  <1>2. sqlCall[c].pc \in Running
    <2>1. sqlCall[c].pc \in SqlPcs
      BY CallerIs DEF CallsOf
    <2> QED BY <1>1, <2>1 DEF SqlPcs, Running, Holding
  <1>3. PICK status \in {"timeout", "error"} : Statements!Ends(c, status)
    BY DEF Statements!Fails
  <1> QED BY <1>1, <1>2, <1>3, StopKeeps DEF Statuses

LEMMA CommitLostKeeps == ASSUME SqlInv, NEW c \in SqlCallers, Statements!CommitLost(c) PROVE SqlInv'
PROOF
  <1>1. /\ sqlCall[c].pc = "commit" /\ UNCHANGED <<sql, db, session, read, walk>> /\ Statements!Ends(c, "error")
        /\ changed' = [changed EXCEPT ![c] = sqlCall[c].count]
    BY CallerIs DEF Statements!CommitLost
  <1>2. sqlCall[c].count \in Nat
    BY CallerIs DEF CallsOf
  <1>3. sqlCall[c].stmt.tool = "write" => sqlCall[c].count <= sqlCall[c].stmt.max
    BY <1>1, CallerIs DEF ToldFact
  <1>4. read' = [read EXCEPT ![c] = read[c]] /\ read[c] \in SUBSET Tables
    BY <1>1, CallerIs
  <1>5. "error" \in Statuses /\ "error" # "unknown" /\ "error" \notin {"ok", "refused", "capped", "timeout"}
    BY DEF Statuses
  <1> QED BY <1>1, <1>2, <1>3, <1>4, <1>5, EndKeeps

LEMMA ListKeeps ==
    ASSUME SqlInv, NEW c \in SqlCallers, NEW s \in sql.stmts, NEW page \in Statements!Pages(c, s),
           Statements!List(c, s, page)
    PROVE  SqlInv'
PROOF
  <1> DEFINE from == (page - 1) * s.max
             more == Statements!Cardinality(Statements!Found) > from + s.max
             shown == {Statements!Relations[i] : i \in {j \in Statements!Found :
                            from <= Statements!Before(j) /\ Statements!Before(j) < from + s.max}}
             k == [Statements!NoCall EXCEPT !.stmt = s]
             r == [Statements!NoReply EXCEPT !.status = "ok"]
  <1>1. /\ sqlCall[c].pc = "idle" /\ s.tool = "list" /\ UNCHANGED <<sql, db, locks, session, read, changed>>
        /\ sqlCall' = [sqlCall EXCEPT ![c] = k] /\ reply' = [reply EXCEPT ![c] = r]
    BY CallerIs DEF Statements!List
  <1>2. walk' = [walk EXCEPT ![c] = [Statements!Walking(c, s, page) EXCEPT !.seen = @ \union shown, !.page = page, !.more = more]]
    BY DEF Statements!List
  <1>3. k \in CallsOf(sql) /\ k.pc = "idle" /\ k.stmt = s /\ r \in Replies /\ r.status = "ok"
    <2>1. s \in StmtsOf(sql) /\ "ok" \in Statuses /\ 0 \in Nat
      BY DEF StmtsOf, Statuses
    <2> QED BY <2>1, EndedIs
  <1>4. s.max \in Nat
    BY CallerIs, StmtIs DEF StmtsOf
  <1>5. page \in Nat
    BY <1>1, WalkingIs
  <1>6. PICK w \in WalksOf(sql) :
                /\ Statements!Walking(c, s, page) = w
                /\ w.stmt = s /\ page = w.page + 1 /\ w.page \in Nat
                /\ \A k1 : k1.pc = "idle" => WalkFact(k1, w)
    BY <1>1, WalkingIs
  <1>7. from = w.page * s.max /\ from \in Nat /\ from + s.max = page * s.max
    <2>1. page - 1 = w.page
      BY <1>6
    <2>2. w.page * s.max \in Nat /\ w.page * s.max + s.max = (w.page + 1) * s.max
      BY <1>4, <1>6
    <2> QED BY <1>6, <2>1, <2>2
  <1>8. w.quiet => w.seen = ListedUpto(from)
    <2>1. WalkFact(k, w)
      BY <1>3, <1>6
    <2> QED BY <1>1, <1>6, <1>7, <2>1 DEF WalkFact
  <1>9. ListedUpto(from) \union shown = ListedUpto(page * s.max)
    <2> HIDE DEF from
    <2>1. ListedUpto(from) \union shown = ListedUpto(from + s.max)
      BY <1>4, <1>7, ListedNext
    <2> QED BY <1>7, <2>1
  <1>10. more <=> Statements!Cardinality(Statements!Found) > page * s.max
    BY <1>7
  <1>11. w.seen \union shown \in SUBSET (Tables \union Nat) /\ more \in BOOLEAN
    <2>1. w.seen \subseteq Tables \union Nat
      BY DEF WalksOf
    <2>2. shown \subseteq Tables
      BY EveryIs DEF Statements!Every, Statements!Found, Tables
    <2> QED BY <2>1, <2>2
  <1> HIDE DEF k, r, shown, more, from
  <1>12. PICK w1 : w1 = [w EXCEPT !.seen = w.seen \union shown, !.page = page, !.more = more]
    OBVIOUS
  <1>13. /\ w1 \in WalksOf(sql) /\ walk' = [walk EXCEPT ![c] = w1]
         /\ w1.stmt = w.stmt /\ w1.seen = w.seen \union shown /\ w1.page = page /\ w1.more = more /\ w1.quiet = w.quiet
    <2>1. walk' = [walk EXCEPT ![c] = w1]
      BY <1>2, <1>6, <1>12
    <2>2. /\ w1 \in WalksOf(sql)
          /\ w1.stmt = w.stmt /\ w1.seen = w.seen \union shown /\ w1.page = page /\ w1.more = more /\ w1.quiet = w.quiet
      BY <1>5, <1>11, <1>12 DEF WalksOf
    <2> QED BY <2>1, <2>2
  <1>14. CallFact(k, locks[c], read[c])
    BY <1>1, <1>3, CallerIs DEF CallFact, Holding, Executing
  <1>15. ToldFact(k, r, changed[c])
    BY <1>1, <1>3 DEF ToldFact, Running, Holding
  <1>16. WalkFact(k, w1)
    BY <1>1, <1>3, <1>6, <1>8, <1>9, <1>10, <1>13 DEF WalkFact, Running, Holding
  <1>17. FoundFact(k, r, w1)
    BY <1>3 DEF FoundFact
  <1> QED BY <1>1, <1>3, <1>13, <1>14, <1>15, <1>16, <1>17, CallerIs, OneCaller

LEMMA DescribeKeeps ==
    ASSUME SqlInv, NEW c \in SqlCallers, NEW s \in sql.stmts, Statements!Describe(c, s)
    PROVE  SqlInv'
PROOF
  <1> DEFINE found == s.names \in (db.rels \intersect sql.scope) \ sql.hidden
             pc == IF found THEN "described" ELSE "idle"
             status == IF found THEN "none" ELSE "unknown"
             k == [Statements!NoCall EXCEPT !.pc = pc, !.stmt = s]
             r == [Statements!NoReply EXCEPT !.status = status]
  <1>1. /\ sqlCall[c].pc = "idle" /\ s.tool = "describe" /\ UNCHANGED <<sql, db, locks, session, read, changed, walk>>
        /\ sqlCall' = [sqlCall EXCEPT ![c] = k] /\ reply' = [reply EXCEPT ![c] = r]
    BY CallerIs DEF Statements!Describe
  <1> HIDE DEF found
  <1>2. k \in CallsOf(sql) /\ k.pc = pc /\ k.stmt = s
    <2>1. Statements!NoCall \in CallsOf(sql) /\ s \in StmtsOf(sql) /\ pc \in SqlPcs
      BY NothingIs DEF StmtsOf, SqlPcs
    <2> HIDE DEF pc
    <2> QED BY <2>1 DEF CallsOf
  <1>3. r \in Replies /\ r.status = status
    <2>1. status \in Statuses
      BY DEF Statuses
    <2>2. 0 \in Nat /\ Statements!NoStmt \in StmtsOf(sql)
      BY DEF StmtsOf
    <2> HIDE DEF status
    <2> QED BY <2>1, <2>2, EndedIs
  <1> HIDE DEF k, r
  <1>4. CallFact(k, locks[c], read[c])
    BY <1>1, <1>2, CallerIs DEF CallFact, Holding, Executing
  <1>5. ToldFact(k, r, changed[c])
    BY <1>1, <1>2, <1>3 DEF ToldFact, Running, Holding
  <1>6. WalkFact(k, walk[c])
    BY <1>1, <1>2, CallerIs DEF WalkFact, Running, Holding
  <1>7. FoundFact(k, r, walk[c])
    BY <1>2, <1>3 DEF FoundFact, found
  <1> QED BY <1>1, <1>2, <1>3, <1>4, <1>5, <1>6, <1>7, CallerIs, OneCaller

LEMMA DescribedKeeps == ASSUME SqlInv, NEW c \in SqlCallers, Statements!Described(c) PROVE SqlInv'
PROOF
  <1>1. sqlCall[c].pc = "described" /\ UNCHANGED <<sql, db, session, read, changed, walk>>
    BY CallerIs DEF Statements!Described
  <1>2. PICK status \in {"ok", "empty"} : Statements!Ends(c, status)
    BY DEF Statements!Described
  <1> QED BY <1>1, <1>2, StopKeeps DEF Statuses

-----------------------------------------------------------------------------
(* Statements: migrations and inserts. *)

\* What a call was checked for still is so after a migration, when what it names is over
\* the same, and resolves to no less, of what is allowed.
LEMMA CallKept ==
    ASSUME NEW k, NEW held, NEW reads, CallFact(k, held, reads),
           k.pc \in Holding =>
                /\ Statements!Base(k.stmt.names)' = Statements!Base(k.stmt.names)
                /\ Statements!Calls(k.stmt.names)' = Statements!Calls(k.stmt.names),
           k.pc \in Executing =>
                /\ Statements!Resolved(k.stmt.names)' \subseteq Statements!Allowed'
                /\ Statements!Resolved(k.stmt.names) \subseteq Statements!Resolved(k.stmt.names)'
    PROVE  CallFact(k, held, reads)'
PROOF
  <1> DEFINE name == k.stmt.names
  <1>1. PICK base, calls, resolved, allowed :
            base = Statements!Base(name)' /\ calls = Statements!Calls(name)'
            /\ resolved = Statements!Resolved(name)' /\ allowed = Statements!Allowed'
    OBVIOUS
  <1>2. Executing \subseteq Holding
    BY DEF Executing, Holding
  <1>3. /\ k.pc \in {"explain"} \union Holding => Statements!Safe(k.stmt.fn)
        /\ k.pc \in {"text", "explain", "check"} => reads = {}
        /\ k.pc \in Holding => name \in Statements!Every /\ name \in held /\ base \in held
        /\ k.pc \notin Holding => held = {}
        /\ k.pc = "check" =>
            /\ k.facts.calls = calls
            /\ IF base = "orders" THEN "first" \in k.facts.rels ELSE k.facts.rels = {base}
        /\ k.pc \in Executing => resolved \subseteq allowed /\ ~calls /\ reads \subseteq resolved
    <2>1. k.pc = "check" => k.pc \in Holding
      BY DEF Holding
    <2> QED BY <1>1, <1>2, <2>1 DEF CallFact
  <1>4. (k.pc \in {"explain"} \union Holding => Statements!Safe(k.stmt.fn))'
    BY <1>3 DEF Holding, Statements!Safe
  <1> QED BY <1>1, <1>3, <1>4 DEF CallFact

\* A change of the database ends every quiet walk, and keeps the rest.
LEMMA BecomesKeeps ==
    ASSUME SqlInv, NEW d \in Dbs, d.rows <= sql.most, Statements!Becomes(d),
           \A c \in SqlCallers : CallFact(sqlCall[c], locks[c], read[c]) => CallFact(sqlCall[c], locks[c], read[c])'
    PROVE  SqlInv'
PROOF
  <1>1. /\ db' = d /\ walk' = [c \in SqlCallers |-> [walk[c] EXCEPT !.quiet = FALSE]]
        /\ UNCHANGED <<sql, sqlCall, locks, session, read, reply, changed>>
    BY DEF Statements!Becomes
  <1>2. SqlTypes
    BY DEF SqlInv
  <1>3. ASSUME NEW c \in SqlCallers
        PROVE  /\ walk'[c] \in WalksOf(sql) /\ walk'[c].stmt = walk[c].stmt /\ walk'[c].page = walk[c].page
               /\ walk'[c].quiet = FALSE
    <2>1. walk[c] \in WalksOf(sql) /\ walk'[c] = [walk[c] EXCEPT !.quiet = FALSE]
      BY <1>1, <1>2 DEF SqlTypes
    <2> QED BY <2>1 DEF WalksOf
  <1>4. walk' \in [SqlCallers -> WalksOf(sql)]
    BY <1>1, <1>3
  <1>5. SqlTypes'
    BY <1>1, <1>2, <1>4 DEF SqlTypes
  <1>6. ASSUME NEW c \in SqlCallers
        PROVE  /\ CallFact(sqlCall[c], locks[c], read[c])' /\ ToldFact(sqlCall[c], reply[c], changed[c])'
               /\ WalkFact(sqlCall[c], walk[c])' /\ FoundFact(sqlCall[c], reply[c], walk[c])'
    <2>1. /\ CallFact(sqlCall[c], locks[c], read[c]) /\ ToldFact(sqlCall[c], reply[c], changed[c])
          /\ WalkFact(sqlCall[c], walk[c]) /\ sqlCall'[c] = sqlCall[c] /\ reply'[c] = reply[c] /\ changed'[c] = changed[c]
      BY <1>1 DEF SqlInv
    <2>2. CallFact(sqlCall[c], locks[c], read[c])'
      BY <2>1
    <2>3. ToldFact(sqlCall[c], reply[c], changed[c])'
      BY <2>1 DEF ToldFact
    <2>4. WalkFact(sqlCall[c], walk[c])'
      BY <1>3, <2>1 DEF WalkFact
    <2>5. FoundFact(sqlCall[c], reply[c], walk[c])'
      BY <1>3 DEF FoundFact
    <2> QED BY <2>2, <2>3, <2>4, <2>5
  <1> QED BY <1>5, <1>6 DEF SqlInv

\* A caller holds nothing that a migration which runs has waited for.
LEMMA HeldIs ==
    ASSUME SqlInv, NEW c \in SqlCallers, NEW rels, Statements!Free(rels), sqlCall[c].pc \in Holding
    PROVE  /\ sqlCall[c].stmt.names \in Statements!Every /\ sqlCall[c].stmt.names \notin rels
           /\ Statements!Base(sqlCall[c].stmt.names) \notin rels
  BY CallerIs DEF CallFact, Statements!Free

LEMMA RepointKeeps ==
    ASSUME SqlInv, NEW over \in Bases, Statements!Repoint(over)
    PROVE  SqlInv'
PROOF
  <1> DEFINE d == [db EXCEPT !.view = over]
  <1>1. Statements!Free({"view"}) /\ Statements!Becomes(d)
    BY DEF Statements!Repoint
  <1>2. db \in Dbs /\ db.rows <= sql.most
    BY DEF SqlInv, SqlTypes
  <1>3. d \in Dbs /\ d.rows = db.rows /\ d.attached = db.attached
    BY <1>2 DEF Dbs
  <1>4. UNCHANGED <<sql, sqlCall, locks, read>> /\ db' = d
    BY <1>1 DEF Statements!Becomes
  <1> HIDE DEF d
  <1>5. ASSUME NEW c \in SqlCallers, CallFact(sqlCall[c], locks[c], read[c])
        PROVE  CallFact(sqlCall[c], locks[c], read[c])'
    <2>1. PICK k, held, reads : k = sqlCall[c] /\ held = locks[c] /\ reads = read[c]
      OBVIOUS
    <2>2. k.pc \in Holding => k.stmt.names # "view"
      BY <1>1, <2>1, HeldIs
    <2>3. k.stmt.names # "view" =>
            /\ Statements!Base(k.stmt.names)' = Statements!Base(k.stmt.names)
            /\ Statements!Calls(k.stmt.names)' = Statements!Calls(k.stmt.names)
            /\ Statements!Resolved(k.stmt.names)' = Statements!Resolved(k.stmt.names)
      BY <1>3, <1>4 DEF Statements!Base, Statements!Calls, Statements!Resolved, Statements!Partitions
    <2>4. Statements!Allowed' = Statements!Allowed
      BY <1>3, <1>4 DEF Statements!Allowed, Statements!Partitions
    <2>5. k.pc \in Executing => k.pc \in Holding /\ Statements!Resolved(k.stmt.names) \subseteq Statements!Allowed
      BY <1>5, <2>1 DEF CallFact, Executing, Holding
    <2>6. CallFact(k, held, reads)'
      BY <1>5, <2>1, <2>2, <2>3, <2>4, <2>5, CallKept
    <2>7. k = sqlCall'[c] /\ held = locks'[c] /\ reads = read'[c]
      BY <1>4, <2>1
    <2> QED BY <2>6, <2>7
  <1> QED BY <1>1, <1>2, <1>3, <1>5, BecomesKeeps

LEMMA AttachKeeps == ASSUME SqlInv, Statements!Attach PROVE SqlInv'
PROOF
  <1> DEFINE d == [db EXCEPT !.attached = TRUE]
  <1>1. Statements!Free({"part"}) /\ Statements!Becomes(d)
    BY DEF Statements!Attach
  <1>2. db \in Dbs /\ db.rows <= sql.most /\ sql \in SqlWorlds
    BY DEF SqlInv, SqlTypes
  <1>3. d \in Dbs /\ d.rows = db.rows /\ d.view = db.view /\ d.attached
    BY <1>2 DEF Dbs
  <1>4. UNCHANGED <<sql, sqlCall, locks, read>> /\ db' = d
    BY <1>1 DEF Statements!Becomes
  <1> HIDE DEF d
  <1>5. Statements!Partitions \subseteq Statements!Partitions'
    BY <1>3, <1>4 DEF Statements!Partitions
  <1>6. Statements!Allowed \subseteq Statements!Allowed'
    BY <1>4, <1>5 DEF Statements!Allowed
  <1>7. ASSUME NEW c \in SqlCallers, CallFact(sqlCall[c], locks[c], read[c])
        PROVE  CallFact(sqlCall[c], locks[c], read[c])'
    <2>1. PICK k, held, reads : k = sqlCall[c] /\ held = locks[c] /\ reads = read[c]
      OBVIOUS
    <2>2. /\ Statements!Base(k.stmt.names)' = Statements!Base(k.stmt.names)
          /\ Statements!Calls(k.stmt.names)' = Statements!Calls(k.stmt.names)
      BY <1>3, <1>4 DEF Statements!Base, Statements!Calls
    <2>3. Statements!Resolved(k.stmt.names) \subseteq Statements!Resolved(k.stmt.names)'
      BY <1>5, <2>2 DEF Statements!Resolved
    <2>4. ASSUME k.pc \in Executing PROVE Statements!Resolved(k.stmt.names)' \subseteq Statements!Allowed'
      <3>1. Statements!Resolved(k.stmt.names) \subseteq Statements!Allowed
        BY <1>7, <2>1, <2>4 DEF CallFact
      <3>2. CASE Statements!Base(k.stmt.names) = "orders"
        <4>1. "first" \in Statements!Resolved(k.stmt.names)
          BY <3>2 DEF Statements!Resolved, Statements!Partitions
        <4>2. "first" \notin sql.scope
          BY <1>2, StmtIs
        <4>3. "orders" \in sql.scope
          BY <3>1, <4>1, <4>2 DEF Statements!Allowed
        <4>4. Statements!Partitions' \subseteq Statements!Allowed'
          BY <1>4, <4>3 DEF Statements!Allowed
        <4> QED BY <2>2, <3>2, <4>4 DEF Statements!Resolved
      <3>3. CASE Statements!Base(k.stmt.names) # "orders"
        <4>1. Statements!Resolved(k.stmt.names)' = Statements!Resolved(k.stmt.names)
          BY <2>2, <3>3 DEF Statements!Resolved
        <4> QED BY <1>6, <3>1, <4>1
      <3> QED BY <3>2, <3>3
    <2>5. CallFact(k, held, reads)'
      BY <1>7, <2>1, <2>2, <2>3, <2>4, CallKept
    <2>6. k = sqlCall'[c] /\ held = locks'[c] /\ reads = read'[c]
      BY <1>4, <2>1
    <2> QED BY <2>5, <2>6
  <1> QED BY <1>1, <1>2, <1>3, <1>7, BecomesKeeps

LEMMA DetachKeeps == ASSUME SqlInv, Statements!Detach PROVE SqlInv'
PROOF
  <1> DEFINE d == [db EXCEPT !.attached = FALSE]
  <1>1. Statements!Free({"part", "orders"}) /\ Statements!Becomes(d)
    BY DEF Statements!Detach
  <1>2. db \in Dbs /\ db.rows <= sql.most /\ sql \in SqlWorlds
    BY DEF SqlInv, SqlTypes
  <1>3. d \in Dbs /\ d.rows = db.rows /\ d.view = db.view
    BY <1>2 DEF Dbs
  <1>4. UNCHANGED <<sql, sqlCall, locks, read>> /\ db' = d
    BY <1>1 DEF Statements!Becomes
  <1> HIDE DEF d
  <1>5. ASSUME NEW c \in SqlCallers, CallFact(sqlCall[c], locks[c], read[c])
        PROVE  CallFact(sqlCall[c], locks[c], read[c])'
    <2>1. PICK k, held, reads : k = sqlCall[c] /\ held = locks[c] /\ reads = read[c]
      OBVIOUS
    <2>2. /\ Statements!Base(k.stmt.names)' = Statements!Base(k.stmt.names)
          /\ Statements!Calls(k.stmt.names)' = Statements!Calls(k.stmt.names)
      BY <1>3, <1>4 DEF Statements!Base, Statements!Calls
    <2>3. ASSUME k.pc \in Executing
          PROVE  /\ Statements!Resolved(k.stmt.names)' \subseteq Statements!Allowed'
                 /\ Statements!Resolved(k.stmt.names) \subseteq Statements!Resolved(k.stmt.names)'
      <3>1. Statements!Resolved(k.stmt.names) \subseteq Statements!Allowed
        BY <1>5, <2>1, <2>3 DEF CallFact
      <3>2. k.stmt.names \in Statements!Every /\ Statements!Base(k.stmt.names) \notin {"part", "orders"}
        BY <1>1, <2>1, <2>3, HeldIs DEF Executing, Holding
      <3>3. Statements!Base(k.stmt.names) = "other"
        BY <1>2, <3>2, BaseIs
      <3>4. Statements!Resolved(k.stmt.names)' = {"other"} /\ Statements!Resolved(k.stmt.names) = {"other"}
        BY <2>2, <3>3 DEF Statements!Resolved
      <3>5. "other" \in sql.scope
        BY <3>1, <3>4 DEF Statements!Allowed, Statements!Partitions
      <3>6. "other" \in Statements!Allowed'
        BY <1>4, <3>5 DEF Statements!Allowed
      <3> QED BY <3>4, <3>6
    <2>4. CallFact(k, held, reads)'
      BY <1>5, <2>1, <2>2, <2>3, CallKept
    <2>5. k = sqlCall'[c] /\ held = locks'[c] /\ reads = read'[c]
      BY <1>4, <2>1
    <2> QED BY <2>4, <2>5
  <1> QED BY <1>1, <1>2, <1>3, <1>5, BecomesKeeps

\* A change that keeps what the view is over and whether "part" is a partition.
LEMMA SamePlace ==
    ASSUME SqlInv, NEW d \in Dbs, d.rows <= sql.most, d.view = db.view, d.attached = db.attached, Statements!Becomes(d)
    PROVE  SqlInv'
PROOF
  <1>1. UNCHANGED <<sql, sqlCall, locks, read>> /\ db' = d
    BY DEF Statements!Becomes
  <1>2. ASSUME NEW c \in SqlCallers, CallFact(sqlCall[c], locks[c], read[c])
        PROVE  CallFact(sqlCall[c], locks[c], read[c])'
    <2>1. PICK k, held, reads : k = sqlCall[c] /\ held = locks[c] /\ reads = read[c]
      OBVIOUS
    <2>2. /\ Statements!Base(k.stmt.names)' = Statements!Base(k.stmt.names)
          /\ Statements!Calls(k.stmt.names)' = Statements!Calls(k.stmt.names)
          /\ Statements!Resolved(k.stmt.names)' = Statements!Resolved(k.stmt.names)
          /\ Statements!Allowed' = Statements!Allowed
      BY <1>1 DEF Statements!Base, Statements!Calls, Statements!Resolved, Statements!Partitions, Statements!Allowed
    <2>3. k.pc \in Executing => Statements!Resolved(k.stmt.names) \subseteq Statements!Allowed
      BY <1>2, <2>1 DEF CallFact
    <2>4. CallFact(k, held, reads)'
      BY <1>2, <2>1, <2>2, <2>3, CallKept
    <2>5. k = sqlCall'[c] /\ held = locks'[c] /\ reads = read'[c]
      BY <1>1, <2>1
    <2> QED BY <2>4, <2>5
  <1> QED BY <1>2, BecomesKeeps

LEMMA DropKeeps == ASSUME SqlInv, NEW name, Statements!Drop(name) PROVE SqlInv'
PROOF
  <1> DEFINE d == [db EXCEPT !.rels = @ \ {name}]
  <1>1. db \in Dbs /\ db.rows <= sql.most
    BY DEF SqlInv, SqlTypes
  <1>2. d \in Dbs /\ d.rows = db.rows /\ d.view = db.view /\ d.attached = db.attached
    BY <1>1 DEF Dbs
  <1>3. Statements!Becomes(d)
    BY DEF Statements!Drop
  <1> HIDE DEF d
  <1> QED BY <1>1, <1>2, <1>3, SamePlace

LEMMA InsertKeeps == ASSUME SqlInv, Statements!Insert PROVE SqlInv'
PROOF
  <1> DEFINE d == [db EXCEPT !.rows = @ + 1]
  <1>1. db \in Dbs /\ sql.most \in Nat /\ db.rows < sql.most
    BY SqlAssumed DEF SqlInv, SqlTypes, Statements!Insert, Statements!Assumption
  <1>2. d \in Dbs /\ d.rows = db.rows + 1 /\ d.view = db.view /\ d.attached = db.attached
    BY <1>1 DEF Dbs
  <1>3. Statements!Becomes(d)
    BY DEF Statements!Insert
  <1> HIDE DEF d
  <1>4. db.rows \in Nat
    BY <1>1 DEF Dbs
  <1>5. d.rows <= sql.most
    BY <1>1, <1>2, <1>4
  <1> QED BY <1>2, <1>3, <1>5, SamePlace

-----------------------------------------------------------------------------
(* Statements: the specification. *)

LEMMA SqlStarts == ASSUME Statements!Init PROVE SqlInv
PROOF
  <1>1. /\ sql \in SqlWorlds /\ sql.rows \in Nat /\ sql.rows <= sql.most
    BY SqlAssumed DEF Statements!Init, Statements!Assumption
  <1>2. db \in Dbs /\ db.rows <= sql.most
    BY <1>1 DEF Statements!Init, Dbs, Bases
  <1>3. /\ sqlCall = [c \in SqlCallers |-> Statements!NoCall] /\ locks = [c \in SqlCallers |-> {}]
        /\ session = [c \in SqlCallers |-> {}] /\ read = [c \in SqlCallers |-> {}]
        /\ reply = [c \in SqlCallers |-> Statements!NoReply] /\ changed = [c \in SqlCallers |-> 0]
        /\ walk = [c \in SqlCallers |-> Statements!NoWalk]
    BY DEF Statements!Init
  <1>4. SqlTypes
    BY <1>1, <1>2, <1>3, NothingIs DEF SqlTypes
  <1>5. Statements!NoStmt.tool = "none" /\ Statements!NoStmt.max = 0
    BY DEF Statements!NoStmt
  <1>6. CallFact(Statements!NoCall, {}, {}) /\ ToldFact(Statements!NoCall, Statements!NoReply, 0)
    BY <1>5, NothingIs DEF CallFact, ToldFact, Holding, Executing, Running
  <1>7. WalkFact(Statements!NoCall, Statements!NoWalk) /\ FoundFact(Statements!NoCall, Statements!NoReply, Statements!NoWalk)
    BY <1>5, NothingIs DEF WalkFact, FoundFact, Holding, Running
  <1> QED BY <1>3, <1>4, <1>6, <1>7 DEF SqlInv

LEMMA SqlStep == ASSUME SqlInv, [Statements!Next]_(Statements!vars) PROVE SqlInv'
PROOF
  <1>1. CASE UNCHANGED Statements!vars
    <2>1. UNCHANGED <<sql, db, sqlCall, locks, session, read, reply, changed, walk>>
      BY <1>1 DEF Statements!vars
    <2>2. SqlTypes'
      BY <2>1 DEF SqlInv, SqlTypes
    <2>3. CASE SqlCallers = {}
      BY <2>2, <2>3 DEF SqlInv
    <2>4. CASE SqlCallers # {}
      <3>1. PICK c \in SqlCallers : TRUE
        BY <2>4
      <3> QED BY <2>1, CallerIs, OneCaller
    <2> QED BY <2>3, <2>4
  <1>2. CASE \E c \in SqlCallers :
        \/ \E s \in sql.stmts : Statements!Describe(c, s) \/ \E page \in Statements!Pages(c, s) :
                Statements!Begin(c, s, page) \/ Statements!List(c, s, page)
        \/ Statements!CheckText(c) \/ Statements!Explain(c) \/ Statements!Check(c) \/ Statements!Declare(c)
        \/ Statements!ShowPlan(c) \/ Statements!Fetch(c) \/ Statements!Run(c) \/ Statements!Commit(c)
        \/ Statements!CommitLost(c) \/ Statements!Described(c) \/ \E timeout \in BOOLEAN : Statements!Fails(c, timeout)
    <2>1. PICK c \in SqlCallers :
        \/ \E s \in sql.stmts : Statements!Describe(c, s) \/ \E page \in Statements!Pages(c, s) :
                Statements!Begin(c, s, page) \/ Statements!List(c, s, page)
        \/ Statements!CheckText(c) \/ Statements!Explain(c) \/ Statements!Check(c) \/ Statements!Declare(c)
        \/ Statements!ShowPlan(c) \/ Statements!Fetch(c) \/ Statements!Run(c) \/ Statements!Commit(c)
        \/ Statements!CommitLost(c) \/ Statements!Described(c) \/ \E timeout \in BOOLEAN : Statements!Fails(c, timeout)
      BY <1>2
    <2>2. CASE \E s \in sql.stmts : Statements!Describe(c, s)
      BY <2>2, DescribeKeeps
    <2>3. CASE \E s \in sql.stmts : \E page \in Statements!Pages(c, s) : Statements!Begin(c, s, page)
      BY <2>3, BeginKeeps
    <2>4. CASE \E s \in sql.stmts : \E page \in Statements!Pages(c, s) : Statements!List(c, s, page)
      BY <2>4, ListKeeps
    <2>5. CASE Statements!CheckText(c) \/ Statements!Explain(c) \/ Statements!Check(c)
      BY <2>5, CheckTextKeeps, ExplainKeeps, CheckKeeps
    <2>6. CASE Statements!Declare(c) \/ Statements!ShowPlan(c) \/ Statements!Fetch(c) \/ Statements!Run(c)
      BY <2>6, DeclareKeeps, ShowPlanKeeps, FetchKeeps, RunKeeps
    <2>7. CASE Statements!Commit(c) \/ Statements!CommitLost(c) \/ Statements!Described(c)
      BY <2>7, CommitKeeps, CommitLostKeeps, DescribedKeeps
    <2>8. CASE \E timeout \in BOOLEAN : Statements!Fails(c, timeout)
      BY <2>8, FailsKeeps
    <2> QED BY <2>1, <2>2, <2>3, <2>4, <2>5, <2>6, <2>7, <2>8
  <1>3. CASE \E over \in {"orders", "other", "calls"} : Statements!Repoint(over)
    BY <1>3, RepointKeeps DEF Bases
  <1>4. CASE \E name \in {"other", "view"} : Statements!Drop(name)
    BY <1>4, DropKeeps
  <1>5. CASE Statements!Attach \/ Statements!Detach \/ Statements!Insert
    BY <1>5, AttachKeeps, DetachKeeps, InsertKeeps
  <1> QED BY <1>1, <1>2, <1>3, <1>4, <1>5 DEF Statements!Next

LEMMA SqlHolds == Statements!Spec => []SqlInv
PROOF
  <1>1. Statements!Init => SqlInv
    BY SqlStarts
  <1>2. SqlInv /\ [Statements!Next]_(Statements!vars) => SqlInv'
    BY SqlStep
  <1> QED BY <1>1, <1>2, PTL DEF Statements!Spec

\* What the invariant says of the properties.
LEMMA SqlTrue ==
    ASSUME SqlInv
    PROVE  /\ Statements!TypeOK /\ Statements!AnswersAreTrue /\ Statements!NothingIsLeft
PROOF
  <1>1. ASSUME NEW c \in SqlCallers
        PROVE  /\ sqlCall[c].pc \in {"idle", "text", "explain", "check", "body", "fetch", "commit", "described"}
               /\ read[c] \subseteq Statements!Every \union {"first"}
               /\ reply[c].status \in {"none", "ok", "refused", "capped", "timeout", "error", "unknown", "empty"}
               /\ locks[c] # {} => sqlCall[c].pc \in {"check", "body", "fetch", "commit"}
    <2>1. sqlCall[c].pc \in SqlPcs /\ read[c] \subseteq Tables /\ reply[c].status \in Statuses
      BY CallerIs DEF CallsOf, Replies
    <2>2. locks[c] # {} => sqlCall[c].pc \in Holding
      BY CallerIs DEF CallFact
    <2> QED BY <2>1, <2>2 DEF SqlPcs, Statuses, Tables, Holding
  <1>2. Statements!TypeOK
    BY <1>1 DEF Statements!TypeOK, SqlInv, SqlTypes
  <1>3. Statements!ReadsAreChecked
    <2> SUFFICES ASSUME NEW c \in SqlCallers, sqlCall[c].pc \in {"check", "body", "fetch", "commit"}
                 PROVE  read[c] \subseteq Statements!Allowed
      BY DEF Statements!ReadsAreChecked
    <2>1. CASE sqlCall[c].pc = "check"
      BY <2>1, CallerIs DEF CallFact
    <2>2. CASE sqlCall[c].pc \in Executing
      BY <2>2, CallerIs DEF CallFact
    <2> QED BY <2>1, <2>2 DEF Executing
  <1>4. Statements!ChangesAreTold
    <2> SUFFICES ASSUME NEW c \in SqlCallers, Statements!Stmt(c).tool = "write"
                 PROVE  /\ reply[c].status \in {"ok", "refused", "capped", "timeout"} => changed[c] = reply[c].count
                        /\ changed[c] <= Statements!Stmt(c).max
      BY DEF Statements!ChangesAreTold
    <2>1. /\ Statements!Stmt(c) = sqlCall[c].stmt /\ sqlCall[c].stmt.max \in Nat /\ sqlCall[c].pc \in SqlPcs
          /\ ToldFact(sqlCall[c], reply[c], changed[c])
      BY CallerIs DEF CallsOf
    <2>2. CASE sqlCall[c].pc \in Running
      BY <2>1, <2>2 DEF ToldFact
    <2>3. CASE sqlCall[c].pc = "idle"
      BY <2>1, <2>3 DEF ToldFact
    <2>4. CASE sqlCall[c].pc = "described"
      BY <2>1, <2>4 DEF ToldFact
    <2> QED BY <2>1, <2>2, <2>3, <2>4 DEF SqlPcs, Running, Holding
  <1>5. Statements!WalksAreWhole
    <2> SUFFICES ASSUME NEW c \in SqlCallers, walk[c].quiet, walk[c].page > 0
                 PROVE  walk[c].more <=> walk[c].seen # (IF walk[c].stmt.tool = "list"
                            THEN {Statements!Relations[i] : i \in Statements!Found} ELSE 1 .. db.rows)
      BY DEF Statements!WalksAreWhole
    <2> DEFINE w == walk[c]
               m == w.page * w.stmt.max
    <2>1. /\ w \in WalksOf(sql) /\ WalkFact(sqlCall[c], w) /\ sql \in SqlWorlds /\ db \in Dbs
      BY CallerIs
    <2>2. w.page \in Nat /\ w.stmt \in StmtsOf(sql) /\ db.rows \in Nat
      BY <2>1 DEF WalksOf, Dbs
    <2>3. m \in Nat
      <3>1. w.stmt.max \in Nat
        BY <2>1, <2>2, StmtIs
      <3> QED BY <2>2, <3>1
    <2>4. w.page # 0
      BY <2>2
    <2>5. CASE w.stmt.tool = "list"
      <3>1. w.seen = ListedUpto(m) /\ (w.more <=> Statements!Cardinality(Statements!Found) > m)
        BY <2>1, <2>5 DEF WalkFact
      <3> HIDE DEF m
      <3>2. Statements!Cardinality(Statements!Found) > m
                <=> ListedUpto(m) # {Statements!Relations[i] : i \in Statements!Found}
        BY <2>3, ListedAll
      <3> QED BY <2>5, <3>1, <3>2
    <2>6. CASE w.stmt.tool # "list"
      <3>1. w.seen = Upto(m) /\ (w.more <=> db.rows > m)
        BY <2>1, <2>4, <2>6 DEF WalkFact
      <3> HIDE DEF m
      <3>2. db.rows > m <=> Upto(m) # 1 .. db.rows
        <4>1. ASSUME db.rows > m PROVE Upto(m) # 1 .. db.rows
          <5>1. db.rows \in 1 .. db.rows /\ ~(db.rows <= m)
            BY <2>2, <2>3, <4>1
          <5> QED BY <5>1 DEF Upto
        <4>2. ASSUME ~(db.rows > m) PROVE Upto(m) = 1 .. db.rows
          BY <2>2, <2>3, <4>2 DEF Upto
        <4> QED BY <4>1, <4>2
      <3> QED BY <2>6, <3>1, <3>2
    <2> QED BY <2>5, <2>6
  <1>6. Statements!ListedIsFound
    <2> SUFFICES ASSUME NEW c \in SqlCallers, Statements!Stmt(c).tool = "describe", reply[c].status = "unknown",
                        walk[c].stmt.tool = "list", walk[c].quiet
                 PROVE  Statements!Stmt(c).names \notin walk[c].seen
      BY DEF Statements!ListedIsFound
    <2> DEFINE w == walk[c]
               m == w.page * w.stmt.max
    <2>1. /\ Statements!Stmt(c) = sqlCall[c].stmt /\ FoundFact(sqlCall[c], reply[c], w) /\ WalkFact(sqlCall[c], w)
      BY CallerIs
    <2>2. sqlCall[c].stmt.names \notin (db.rels \intersect sql.scope) \ sql.hidden
      BY <2>1 DEF FoundFact
    <2>3. w.seen = ListedUpto(m)
      BY <2>1 DEF WalkFact
    <2>4. ListedUpto(m) \subseteq {Statements!Relations[i] : i \in Statements!Found}
      BY DEF ListedUpto
    <2>5. {Statements!Relations[i] : i \in Statements!Found} \subseteq (db.rels \intersect sql.scope) \ sql.hidden
      BY DEF Statements!Found, Statements!Listed
    <2> QED BY <2>1, <2>2, <2>3, <2>4, <2>5
  <1>7. Statements!NothingIsLeft
    BY CallerIs DEF Statements!NothingIsLeft
  <1> QED BY <1>2, <1>3, <1>4, <1>5, <1>6, <1>7 DEF Statements!AnswersAreTrue

\* A call keeps its shape, and holds a lock only from its EXPLAIN to the end of its transaction.
THEOREM StatementTypes == Statements!Spec => []Statements!TypeOK
PROOF
  <1>1. SqlInv => Statements!TypeOK
    BY SqlTrue
  <1> QED BY <1>1, SqlHolds, PTL

\* Whatever is migrated and written meanwhile, a call reads what it was checked for and no
\* more, changes what it says, and leaves nothing on its connection; who follows pages while
\* nothing changes sees all: for any number of callers, any statements, rows and sizes of a
\* page, and any scope that names no standing partition.
THEOREM AnswersHold == Statements!Spec => [](Statements!AnswersAreTrue /\ Statements!NothingIsLeft)
PROOF
  <1>1. SqlInv => Statements!AnswersAreTrue /\ Statements!NothingIsLeft
    BY SqlTrue
  <1> QED BY <1>1, SqlHolds, PTL

-----------------------------------------------------------------------------
(* Both. *)

\* The two side by side, as they are model-checked.
LEMMA PartsRun == MCSpec => Spec /\ Statements!Spec
PROOF
  <1>1. MCInit => Init /\ Statements!Init
    BY DEF MCInit
  <1>2. [MCNext]_<<vars, sqlVars>> => [Next]_vars /\ [Statements!Next]_(Statements!vars)
    <2>1. UNCHANGED sqlVars <=> UNCHANGED Statements!vars
      BY DEF sqlVars, Statements!vars
    <2> QED BY <2>1 DEF MCNext
  <1> QED BY <1>1, <1>2, PTL DEF MCSpec, Spec, Statements!Spec

\* The states of both have their shape.
THEOREM AllTypesHold == MCSpec => []AllTypeOK
PROOF
  <1>1. TypeOK /\ Statements!TypeOK => AllTypeOK
    BY DEF AllTypeOK
  <1> QED BY <1>1, PartsRun, TypeCorrect, StatementTypes, PTL

\* When events are committed in the order of their ids, what both make of rows that change
\* under them is so: a contact is as its user's events say, and an answer as the database was.
THEOREM NothingMisread == ASSUME InOrder PROVE MCSpec => []NothingIsMisread
PROOF
  <1>1. ContactsFollow /\ Statements!AnswersAreTrue /\ Statements!NothingIsLeft => NothingIsMisread
    BY DEF NothingIsMisread
  <1>2. Spec => []ContactsFollow
    BY Followed
  <1> QED BY <1>1, <1>2, PartsRun, AnswersHold, PTL
=============================================================================

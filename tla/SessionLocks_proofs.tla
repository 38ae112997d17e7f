------------------------- MODULE SessionLocks_proofs -------------------------
(* Proofs of the properties of SessionLocks, for any number of processes,    *)
(* sessions, concurrent tasks and lost connections.                          *)
EXTENDS SessionLocks, FiniteSetTheorems, TLAPS

\* Unfolding a primed call or queue of one process and task.
LEMMA ProceedEffect ==
    ASSUME NEW p \in Procs, NEW t \in Tasks, NEW op \in Ops, NEW s \in Sessions,
           TypeOK, Proceed(p, t, op, s)
    PROVE  /\ call' \in [Procs -> [Tasks -> Calls]]
           /\ ahead' \in [Procs -> [Tasks -> SUBSET Tasks]]
           /\ call'[p][t] = IF op = "idle" THEN Idle ELSE [op |-> op, s |-> s]
           /\ \A q \in Procs, u \in Tasks : q # p \/ u # t => call'[q][u] = call[q][u]
           /\ \A q \in Procs : q # p => ahead'[q] = ahead[q]
           /\ \A u \in Tasks : u # t => ahead'[p][u] = ahead[p][u] \ {t}
           /\ op \in Waiting => ahead'[p][t] = Outstanding(p) \ {t}
PROOF
  <1>1. Idle \in Calls
    BY SessionsAssumption DEF Idle, Calls, Ops
  <1>2. Outstanding(p) \subseteq Tasks
    BY DEF Outstanding
  <1> QED
    BY <1>1, <1>2 DEF Proceed, TypeOK, Calls

\* Idle is no query.
LEMMA IdleIsIdle == Idle \in Calls /\ Idle.op = "idle"
  BY SessionsAssumption DEF Idle, Calls, Ops

\* A check leaves the pid, `held` and the count of failed checks in their types.
LEMMA VerifyType ==
    ASSUME NEW p \in Procs, TypeOK, Verify(p)
    PROVE  /\ pid' \in [Procs -> Nat] /\ held' \in [Procs -> SUBSET Sessions]
           /\ fails' \in [Procs -> Nat]
PROOF
  <1>1. CASE VerifyOk(p)
    BY <1>1 DEF VerifyOk, TypeOK
  <1>2. CASE VerifyFails(p)
    BY <1>2 DEF VerifyFails, TypeOK
  <1> QED BY <1>1, <1>2 DEF Verify

-----------------------------------------------------------------------------
\* The type invariant is inductive.
\* (A lock that is taken is counted at least once, so the count stays a number.)
LEMMA TypeStep == TypeOK /\ LockState /\ [Next]_lockVars => TypeOK'
  <1> SUFFICES ASSUME TypeOK, LockState, [Next]_lockVars PROVE TypeOK'
    OBVIOUS
  <1>1. ASSUME NEW p \in Procs, TimerVerify(p) PROVE TypeOK'
    BY <1>1, VerifyType DEF TimerVerify, TypeOK
  <1>2. ASSUME NEW p \in Procs, Drop(p) PROVE TypeOK'
    <2>1. conn' \in [Procs -> Nat \ {0}]
      BY <1>2 DEF Drop, TypeOK
    <2>2. call' \in [Procs -> [Tasks -> Calls]]
      <3>1. \A t \in Tasks : call[p][t] \in Calls
        BY DEF TypeOK
      <3>2. \A t \in Tasks : [call[p][t] EXCEPT !.op = "error"] \in Calls
        BY <3>1 DEF Calls, Ops
      <3> QED BY <1>2, <3>1, <3>2, IdleIsIdle DEF Drop, TypeOK
    <2>3. ahead' \in [Procs -> [Tasks -> SUBSET Tasks]]
      BY <1>2 DEF Drop, TypeOK
    <2> QED BY <1>2, <2>1, <2>2, <2>3 DEF Drop, TypeOK
  <1>3. ASSUME NEW p \in Procs, Restart(p) PROVE TypeOK'
    BY <1>3, IdleIsIdle DEF Restart, TypeOK
  <1>4. ASSUME NEW p \in Procs, NEW t \in Tasks, TaskStep(p, t) PROVE TypeOK'
    <2>1. ASSUME NEW s \in Sessions, Acquire(p, t, s) PROVE TypeOK'
      BY <2>1, ProceedEffect, "check" \in Ops DEF Acquire, TypeOK, Ops
    <2>2. ASSUME NEW s \in Sessions, Release(p, t, s) PROVE TypeOK'
      BY <2>2, ProceedEffect, "unlock" \in Ops DEF Release, TypeOK, Ops
    <2>3. CASE AcquireChecked(p, t)
      <3> DEFINE s == call[p][t].s
                 op == IF s \in held'[p] THEN "yes" ELSE "try"
      <3>1. s \in Sessions /\ op \in Ops
        BY DEF TypeOK, Calls, Ops
      <3>2. Proceed(p, t, op, s) /\ Verify(p)
        BY <2>3 DEF AcquireChecked
      <3> HIDE DEF s, op
      <3> QED BY <2>3, <3>1, <3>2, ProceedEffect, VerifyType DEF AcquireChecked, TypeOK
    <2>4. CASE TryLock(p, t)
      <3> DEFINE s == call[p][t].s
      <3>1. s \in Sessions /\ "yes" \in Ops /\ "no" \in Ops /\ Backend(p) \in Procs \X Nat
        BY DEF TypeOK, Calls, Ops, Backend
      <3>2. Proceed(p, t, "yes", s) \/ Proceed(p, t, "no", s)
        BY <2>4 DEF TryLock
      <3>3. call' \in [Procs -> [Tasks -> Calls]] /\ ahead' \in [Procs -> [Tasks -> SUBSET Tasks]]
        <4> HIDE DEF s
        <4> QED BY <3>1, <3>2, ProceedEffect
      <3>4. CASE UNCHANGED <<owner, depth, held>>
        BY <2>4, <3>3, <3>4 DEF TryLock, TypeOK
      <3>5. CASE /\ owner' = [owner EXCEPT ![s] = Backend(p)]
                 /\ depth' = [depth EXCEPT ![s] = @ + 1]
                 /\ held' = [held EXCEPT ![p] = @ \union {s}]
        BY <2>4, <3>1, <3>3, <3>5 DEF TryLock, TypeOK
      <3> QED BY <2>4, <3>4, <3>5 DEF TryLock
    <2>5. CASE Return(p, t)
      <3>1. call[p][t].s \in Sessions /\ "idle" \in Ops
        BY DEF TypeOK, Calls, Ops
      <3> QED BY <2>5, <3>1, ProceedEffect DEF Return, TypeOK
    <2>6. CASE Unlock(p, t)
      <3>1. call[p][t].s \in Sessions /\ "idle" \in Ops
        BY DEF TypeOK, Calls, Ops
      <3>2. CASE owner[call[p][t].s] = Backend(p)
        <4>1. Backend(p) # NoBackend
          BY NoBackendAssumption DEF Backend, TypeOK
        <4>2. depth[call[p][t].s] \in Nat \ {0}
          BY <3>1, <3>2, <4>1 DEF LockState, TypeOK
        <4> DEFINE s == call[p][t].s
        <4>3. /\ depth' = [depth EXCEPT ![s] = @ - 1]
              /\ owner' = [owner EXCEPT ![s] = IF depth[s] = 1 THEN NoBackend ELSE @]
          BY <2>6, <3>2 DEF Unlock
        <4>4. s \in Sessions /\ depth[s] \in Nat \ {0}
          BY <3>1, <4>2
        <4>5. depth' \in [Sessions -> Nat]
          <5>1. depth[s] - 1 \in Nat
            BY <4>4
          <5>2. depth' = [depth EXCEPT ![s] = depth[s] - 1]
            BY <4>3
          <5> HIDE DEF s
          <5> QED BY <5>1, <5>2, <4>4 DEF TypeOK
        <4>6. owner' \in [Sessions -> (Procs \X Nat) \union {NoBackend}]
          <5> DEFINE b == IF depth[s] = 1 THEN NoBackend ELSE owner[s]
          <5>1. b \in (Procs \X Nat) \union {NoBackend}
            BY <4>4 DEF TypeOK
          <5>2. owner' = [owner EXCEPT ![s] = b]
            BY <4>3
          <5> HIDE DEF s, b
          <5> QED BY <5>1, <5>2, <4>4 DEF TypeOK
        <4> QED BY <2>6, <3>1, <4>5, <4>6, ProceedEffect DEF Unlock, TypeOK
      <3>3. CASE owner[call[p][t].s] # Backend(p)
        BY <2>6, <3>1, <3>3, ProceedEffect DEF Unlock, TypeOK
      <3> QED BY <3>2, <3>3
    <2> QED BY <1>4, <2>1, <2>2, <2>3, <2>4, <2>5, <2>6 DEF TaskStep
  <1>5. ASSUME NEW s \in Sessions, Reap(s) PROVE TypeOK'
    BY <1>5 DEF Reap, TypeOK
  <1>6. CASE UNCHANGED lockVars
    BY <1>6 DEF lockVars, TypeOK
  <1> QED BY <1>1, <1>2, <1>3, <1>4, <1>5, <1>6 DEF Next, ProcStep

-----------------------------------------------------------------------------
\* What a step of one task does to the requests and unlocks on the wire.
LEMMA WireEffect ==
    ASSUME NEW p \in Procs, NEW t \in Tasks, NEW op \in Ops, NEW s \in Sessions,
           TypeOK, Proceed(p, t, op, s), NEW r \in Sessions
    PROVE  /\ \A q \in Procs : q # p => /\ Unlocking(q, r)' = Unlocking(q, r)
                                       /\ Trying(q, r)' = Trying(q, r)
           /\ Unlocking(p, r)' = IF op = "unlock" /\ r = s
                                 THEN Unlocking(p, r) \union {t} ELSE Unlocking(p, r) \ {t}
           /\ Trying(p, r)' = IF op = "try" /\ r = s
                              THEN Trying(p, r) \union {t} ELSE Trying(p, r) \ {t}
PROOF
  <1>1. call'[p][t] = IF op = "idle" THEN Idle ELSE [op |-> op, s |-> s]
    BY ProceedEffect
  <1>2. \A q \in Procs, u \in Tasks : q # p \/ u # t => call'[q][u] = call[q][u]
    BY ProceedEffect
  <1>3. call'[p][t] = [op |-> "unlock", s |-> r] <=> op = "unlock" /\ r = s
    BY <1>1, IdleIsIdle
  <1>4. call'[p][t] = [op |-> "try", s |-> r] <=> op = "try" /\ r = s
    BY <1>1, IdleIsIdle
  <1> QED BY <1>2, <1>3, <1>4 DEF Unlocking, Trying

\* The unlocks of a session on the wire can be counted.
LEMMA UnlockingFinite ==
    ASSUME NEW p \in Procs, NEW r \in Sessions
    PROVE  IsFiniteSet(Unlocking(p, r)) /\ Cardinality(Unlocking(p, r)) \in Nat
  BY TasksAssumption, FS_Subset, FS_CardinalityType DEF Unlocking

\* The order of the wire is kept: unlocks sent before a request stay before it,
\* and a new request is behind every unlock already sent.
LEMMA UnlocksFirstStep ==
    ASSUME NEW p \in Procs, NEW t \in Tasks, NEW op \in Ops, NEW s \in Sessions,
           TypeOK, Proceed(p, t, op, s), NEW r \in Sessions,
           UnlocksFirst(p, r), op # "unlock" \/ s # r
    PROVE  UnlocksFirst(p, r)'
PROOF
  <1>1. /\ Unlocking(p, r)' = Unlocking(p, r) \ {t}
        /\ Trying(p, r)' \subseteq Trying(p, r) \union {t}
    BY WireEffect
  <1>2. SUFFICES ASSUME NEW u \in Unlocking(p, r)', NEW v \in Trying(p, r)'
                 PROVE  u \in ahead'[p][v]
    BY DEF UnlocksFirst
  <1>3. u \in Tasks /\ u # t /\ u \in Unlocking(p, r) /\ v \in Tasks
    BY <1>1 DEF Unlocking, Trying
  <1>4. CASE v # t
    <2>1. \A w \in Tasks : w # t => ahead'[p][w] = ahead[p][w] \ {t}
      BY ProceedEffect
    <2>2. ahead'[p][v] = ahead[p][v] \ {t}
      BY <1>3, <1>4, <2>1
    <2>3. v \in Trying(p, r)
      BY <1>1, <1>4
    <2>4. u \in ahead[p][v]
      BY <1>3, <2>3 DEF UnlocksFirst
    <2> QED BY <1>3, <2>2, <2>4
  <1>5. CASE v = t
    <2>1. op = "try"
      <3>1. op # "try" => Trying(p, r)' = Trying(p, r) \ {t}
        BY WireEffect
      <3> QED BY <1>5, <3>1
    <2>2. ahead'[p][t] = Outstanding(p) \ {t}
      BY <2>1, ProceedEffect DEF Waiting
    <2>3. u \in Outstanding(p)
      BY <1>3 DEF Unlocking, Outstanding, Waiting
    <2> QED BY <1>3, <1>5, <2>2, <2>3
  <1> QED BY <1>4, <1>5

\* The owner of a lock nobody has is no process's backend.
LEMMA NoBackendIsNone == TypeOK => \A p \in Procs : Backend(p) # NoBackend
  BY NoBackendAssumption DEF Backend, TypeOK

-----------------------------------------------------------------------------
\* The other parts of the invariant, one lemma each.

\* Postgres counts a lock exactly while a backend that exists has it.
LEMMA LockStateStep == IInv /\ [Next]_lockVars => LockState'
  <1> SUFFICES ASSUME TypeOK, LockState, [Next]_lockVars PROVE LockState'
    BY DEF IInv
  <1>1. ASSUME UNCHANGED <<owner, depth, conn>> PROVE LockState'
    BY <1>1 DEF LockState
  <1>2. ASSUME NEW p \in Procs, conn' = [conn EXCEPT ![p] = @ + 1], UNCHANGED <<owner, depth>>
        PROVE  LockState'
    <2>1. \A q \in Procs : conn[q] \in Nat /\ conn'[q] \in Nat /\ conn[q] <= conn'[q]
      BY <1>2 DEF TypeOK
    <2>2. \A s \in Sessions : owner[s] # NoBackend => owner[s][1] \in Procs /\ owner[s][2] \in Nat
      BY DEF TypeOK
    <2> QED BY <1>2, <2>1, <2>2 DEF LockState
  <1>3. ASSUME NEW p \in Procs, NEW t \in Tasks, TryLock(p, t) PROVE LockState'
    <2> DEFINE s == call[p][t].s
    <2>1. s \in Sessions /\ conn' = conn /\ Backend(p) = <<p, conn[p]>> /\ conn[p] \in Nat
      BY <1>3 DEF TryLock, TypeOK, Calls, Backend
    <2>2. CASE UNCHANGED <<owner, depth>>
      BY <1>1, <2>1, <2>2
    <2>3. CASE owner' = [owner EXCEPT ![s] = Backend(p)] /\ depth' = [depth EXCEPT ![s] = @ + 1]
      <3> HIDE DEF s
      <3>1. \A r \in Sessions : r # s => owner'[r] = owner[r] /\ depth'[r] = depth[r]
        BY <2>3 DEF TypeOK
      <3>2. owner'[s] = Backend(p) /\ depth'[s] # 0
        BY <2>1, <2>3 DEF TypeOK
      <3> QED BY <2>1, <3>1, <3>2, NoBackendIsNone DEF LockState
    <2> QED BY <1>3, <2>2, <2>3 DEF TryLock
  <1>4. ASSUME NEW p \in Procs, NEW t \in Tasks, Unlock(p, t) PROVE LockState'
    <2> DEFINE s == call[p][t].s
    <2>1. s \in Sessions /\ conn' = conn
      BY <1>4 DEF Unlock, TypeOK, Calls
    <2>2. CASE owner[s] # Backend(p)
      BY <1>1, <1>4, <2>1, <2>2 DEF Unlock
    <2>3. CASE owner[s] = Backend(p)
      <3>1. /\ depth' = [depth EXCEPT ![s] = depth[s] - 1]
            /\ owner' = [owner EXCEPT ![s] = IF depth[s] = 1 THEN NoBackend ELSE owner[s]]
        BY <1>4, <2>3 DEF Unlock
      <3> HIDE DEF s
      <3>2. \A r \in Sessions : r # s => owner'[r] = owner[r] /\ depth'[r] = depth[r]
        BY <3>1 DEF TypeOK
      <3>3. depth[s] \in Nat \ {0}
        BY <2>1, <2>3, NoBackendIsNone DEF LockState, TypeOK
      <3>4. owner'[s] = (IF depth[s] = 1 THEN NoBackend ELSE owner[s]) /\ depth'[s] = depth[s] - 1
        BY <2>1, <3>1 DEF TypeOK
      <3> QED BY <2>1, <2>3, <3>2, <3>3, <3>4, NoBackendIsNone DEF LockState
    <2> QED BY <2>2, <2>3
  <1>5. ASSUME NEW s \in Sessions, Reap(s) PROVE LockState'
    <2>1. \A r \in Sessions : r # s => owner'[r] = owner[r] /\ depth'[r] = depth[r]
      BY <1>5 DEF Reap, TypeOK
    <2>2. owner'[s] = NoBackend /\ depth'[s] = 0 /\ conn' = conn
      BY <1>5 DEF Reap, TypeOK
    <2> QED BY <2>1, <2>2 DEF LockState
  <1>6. ASSUME NEW p \in Procs, ProcStep(p) PROVE LockState'
    BY <1>1, <1>2, <1>6 DEF ProcStep, TimerVerify, Drop, Restart
  <1>7. ASSUME NEW p \in Procs, NEW t \in Tasks, TaskStep(p, t) PROVE LockState'
    BY <1>1, <1>3, <1>4, <1>7 DEF TaskStep, Acquire, Release, AcquireChecked, Return
  <1> QED BY <1>1, <1>5, <1>6, <1>7 DEF Next, lockVars

\* verify() never invents a pid, and holds nothing before the first.
LEMMA PidStateStep == IInv /\ [Next]_lockVars => PidState'
  <1> SUFFICES ASSUME TypeOK, PidState, NothingUnchecked, [Next]_lockVars PROVE PidState'
    BY DEF IInv
  <1>1. ASSUME UNCHANGED <<pid, conn, fails>>, \A p \in Procs : held'[p] \subseteq held[p]
        PROVE  PidState'
    BY <1>1 DEF PidState
  <1>2. ASSUME NEW p \in Procs, Verify(p), conn' = conn PROVE PidState'
    <2>1. \A q \in Procs : q # p => pid'[q] = pid[q] /\ fails'[q] = fails[q] /\ held'[q] = held[q]
      BY <1>2 DEF Verify, VerifyOk, VerifyFails, TypeOK
    <2>2. pid'[p] <= conn[p] /\ (fails'[p] # 0 \/ pid'[p] # 0)
      <3>1. CASE VerifyOk(p)
        BY <3>1 DEF VerifyOk, TypeOK
      <3>2. CASE VerifyFails(p)
        BY <3>2 DEF VerifyFails, TypeOK
      <3> QED BY <1>2, <3>1, <3>2 DEF Verify
    <2> QED BY <1>2, <2>1, <2>2 DEF PidState
  <1>3. ASSUME NEW p \in Procs, NEW t \in Tasks, TryLock(p, t) PROVE PidState'
    <2>1. fails[p] = 0 => pid[p] # 0
      BY <1>3 DEF TryLock, Answered, NothingUnchecked, TypeOK
    <2>2. \A q \in Procs : q # p => held'[q] = held[q]
      BY <1>3 DEF TryLock, TypeOK
    <2> QED BY <1>3, <2>1, <2>2 DEF TryLock, PidState
  <1>4. ASSUME NEW p \in Procs, Drop(p) PROVE PidState'
    BY <1>4 DEF Drop, PidState, TypeOK
  <1>5. ASSUME NEW p \in Procs, Restart(p) PROVE PidState'
    BY <1>5 DEF Restart, PidState, TypeOK
  <1>6. ASSUME NEW p \in Procs, NEW t \in Tasks, NEW s \in Sessions, Release(p, t, s) PROVE PidState'
    <2>1. \A q \in Procs : held'[q] \subseteq held[q]
      BY <1>6 DEF Release, TypeOK
    <2> QED BY <1>1, <1>6, <2>1 DEF Release
  <1>7. ASSUME NEW p \in Procs, NEW t \in Tasks, TaskStep(p, t) PROVE PidState'
    BY <1>1, <1>2, <1>3, <1>6, <1>7 DEF TaskStep, Acquire, AcquireChecked, Return, Unlock
  <1> QED BY <1>1, <1>2, <1>4, <1>5, <1>7 DEF Next, ProcStep, TimerVerify, Reap, lockVars

\* A lock request is sent only right after a check on the same connection.
LEMMA NothingUncheckedStep == IInv /\ [Next]_lockVars => NothingUnchecked'
  <1> SUFFICES ASSUME TypeOK, LockState, PidState, NothingUnchecked, [Next]_lockVars
               PROVE  NothingUnchecked'
    BY DEF IInv
  <1> DEFINE Clean(q) == /\ \A s \in Sessions : owner[s] # Backend(q)
                         /\ \A t \in Tasks : call[q][t].op # "try"
  <1>1. \A p, q \in Procs : p # q => Backend(p) # Backend(q)
    BY DEF Backend
  <1>2. ASSUME NEW q \in Procs, Clean(q), conn'[q] = conn[q],
               \A s \in Sessions : owner'[s] = owner[s] \/ owner'[s] # Backend(q),
               \A t \in Tasks : call'[q][t] = call[q][t] \/ call'[q][t].op # "try"
        PROVE  Clean(q)'
    BY <1>2 DEF Backend
  <1>3. ASSUME NEW p \in Procs, NEW q \in Procs, q # p, Verify(p)
        PROVE  pid'[q] = pid[q] /\ fails'[q] = fails[q]
    BY <1>3 DEF Verify, VerifyOk, VerifyFails, TypeOK
  <1>4. ASSUME NEW p \in Procs, Verify(p), fails'[p] = 0 PROVE pid'[p] = conn[p]
    <2>1. CASE VerifyOk(p)
      BY <2>1 DEF VerifyOk, TypeOK
    <2>2. CASE VerifyFails(p)
      BY <1>4, <2>2 DEF VerifyFails, TypeOK
    <2> QED BY <1>4, <2>1, <2>2 DEF Verify
  <1>5. SUFFICES ASSUME NEW q \in Procs, fails'[q] = 0, pid'[q] # conn'[q] PROVE Clean(q)'
    BY DEF NothingUnchecked
  <1>6. fails[q] = 0 /\ pid[q] # conn[q] => Clean(q)
    BY DEF NothingUnchecked
  <1> HIDE DEF Clean
  <1>7. ASSUME NEW p \in Procs, TimerVerify(p) PROVE Clean(q)'
    <2>1. q # p
      BY <1>4, <1>5, <1>7 DEF TimerVerify
    <2> QED BY <1>2, <1>3, <1>5, <1>6, <1>7, <2>1 DEF TimerVerify
  <1>8. ASSUME NEW p \in Procs, Drop(p) \/ Restart(p) PROVE Clean(q)'
    <2>1. CASE q # p
      <3>1. conn'[q] = conn[q] /\ pid'[q] = pid[q] /\ fails'[q] = fails[q] /\ call'[q] = call[q] /\ owner' = owner
        BY <1>8, <2>1 DEF Drop, Restart, TypeOK
      <3> QED BY <1>2, <1>5, <1>6, <3>1
    <2>2. CASE q = p
      <3>1. ASSUME NEW s \in Sessions PROVE owner[s] # <<q, conn[q] + 1>>
        <4>1. conn[q] \in Nat /\ <<q, conn[q] + 1>> \in Procs \X Nat
          BY DEF TypeOK
        <4>2. SUFFICES ASSUME owner[s] = <<q, conn[q] + 1>> PROVE FALSE
          OBVIOUS
        <4>3. owner[s][1] = q /\ owner[s][2] = conn[q] + 1 /\ owner[s] # NoBackend
          BY <4>1, <4>2, NoBackendAssumption
        <4> QED BY <4>1, <4>3 DEF LockState
      <3>2. conn'[q] = conn[q] + 1 /\ owner' = owner
        BY <1>8, <2>2 DEF Drop, Restart, TypeOK
      <3>3. ASSUME NEW t \in Tasks PROVE call'[q][t].op # "try"
        <4>1. call[q][t] \in Calls
          BY DEF TypeOK
        <4>2. [call[q][t] EXCEPT !.op = "error"].op = "error"
          BY <4>1 DEF Calls
        <4>3. CASE Drop(p)
          <5>1. call'[q][t] = CASE call[q][t].op = "try"    -> [call[q][t] EXCEPT !.op = "error"]
                                [] call[q][t].op = "unlock" -> Idle
                                [] OTHER                    -> call[q][t]
            BY <2>2, <4>3 DEF Drop, TypeOK
          <5> QED BY <4>2, <5>1, IdleIsIdle
        <4>4. CASE Restart(p)
          BY <2>2, <4>4, IdleIsIdle DEF Restart, TypeOK
        <4> QED BY <1>8, <4>3, <4>4
      <3> QED BY <3>1, <3>2, <3>3 DEF Clean, Backend
    <2> QED BY <2>1, <2>2
  <1>9. ASSUME NEW s \in Sessions, Reap(s) PROVE Clean(q)'
    <2>1. \A r \in Sessions : owner'[r] = owner[r] \/ owner'[r] = NoBackend
      BY <1>9 DEF Reap, TypeOK
    <2> QED BY <1>2, <1>5, <1>6, <1>9, <2>1, NoBackendIsNone DEF Reap
  <1>10. ASSUME NEW p \in Procs, NEW t \in Tasks, TaskStep(p, t) PROVE Clean(q)'
    <2>1. ASSUME NEW op \in Ops, NEW s \in Sessions, Proceed(p, t, op, s),
                 op # "try" \/ q # p, conn' = conn,
                 pid'[q] = pid[q], fails'[q] = fails[q],
                 \A r \in Sessions : owner'[r] = owner[r] \/ owner'[r] # Backend(q)
          PROVE  Clean(q)'
      <3>1. \A u \in Tasks : call'[q][u] = call[q][u] \/ call'[q][u].op # "try"
        <4>1. \A r \in Procs, u \in Tasks : r # p \/ u # t => call'[r][u] = call[r][u]
          BY <2>1, ProceedEffect
        <4>2. call'[p][t] = IF op = "idle" THEN Idle ELSE [op |-> op, s |-> s]
          BY <2>1, ProceedEffect
        <4>3. op # "try" => call'[p][t].op # "try"
          BY <4>2, IdleIsIdle
        <4> QED BY <2>1, <4>1, <4>3
      <3> QED BY <1>2, <1>5, <1>6, <2>1, <3>1
    <2>2. \A u \in Tasks : call[p][u].s \in Sessions
      BY DEF TypeOK, Calls
    <2>3. ASSUME NEW s \in Sessions, Acquire(p, t, s) PROVE Clean(q)'
      BY <2>1, <2>3 DEF Acquire, Ops
    <2>4. ASSUME NEW s \in Sessions, Release(p, t, s) PROVE Clean(q)'
      BY <2>1, <2>4 DEF Release, Ops
    <2>5. CASE AcquireChecked(p, t)
      <3>1. q # p
        BY <1>4, <1>5, <2>5 DEF AcquireChecked
      <3>2. PICK op \in {"yes", "try"} : Proceed(p, t, op, call[p][t].s)
        BY <2>5 DEF AcquireChecked
      <3> QED BY <1>3, <2>1, <2>2, <2>5, <3>1, <3>2 DEF AcquireChecked, Ops
    <2>6. CASE TryLock(p, t)
      <3>1. PICK op \in {"yes", "no"} : Proceed(p, t, op, call[p][t].s)
        BY <2>6 DEF TryLock
      <3>2. pid' = pid /\ fails' = fails /\ conn' = conn
        BY <2>6 DEF TryLock
      <3>3. q # p
        BY <1>5, <2>6, <3>2 DEF TryLock, Answered, NothingUnchecked
      <3>4. \A r \in Sessions : owner'[r] = owner[r] \/ owner'[r] = Backend(p)
        BY <2>2, <2>6 DEF TryLock, TypeOK
      <3> QED BY <1>1, <2>1, <2>2, <3>1, <3>2, <3>3, <3>4 DEF Ops
    <2>7. CASE Return(p, t)
      BY <2>1, <2>2, <2>7 DEF Return, Ops
    <2>8. CASE Unlock(p, t)
      <3>1. \A r \in Sessions : owner'[r] = owner[r] \/ owner'[r] = NoBackend
        <4> DEFINE s == call[p][t].s
                   b == IF depth[s] = 1 THEN NoBackend ELSE owner[s]
        <4>1. owner' = owner \/ owner' = [owner EXCEPT ![s] = b]
          BY <2>8 DEF Unlock
        <4>2. b = NoBackend \/ b = owner[s]
          OBVIOUS
        <4> HIDE DEF s, b
        <4> QED BY <4>1, <4>2 DEF TypeOK
      <3> QED BY <2>1, <2>2, <2>8, <3>1, NoBackendIsNone DEF Unlock, Ops
    <2> QED BY <1>10, <2>3, <2>4, <2>5, <2>6, <2>7, <2>8 DEF TaskStep
  <1>11. CASE UNCHANGED lockVars
    BY <1>2, <1>5, <1>6, <1>11 DEF lockVars
  <1> QED BY <1>7, <1>8, <1>9, <1>10, <1>11 DEF Next, ProcStep
-----------------------------------------------------------------------------
\* The accounting.  What does not touch a process's share of it keeps it.
Kept(q, r) == Balanced(q, r) \/ Drained(q, r)

LEMMA FrameStep ==
    ASSUME NEW q \in Procs, NEW r \in Sessions, Kept(q, r),
           Unlocking(q, r)' = Unlocking(q, r), Trying(q, r)' = Trying(q, r),
           ahead'[q] = ahead[q], held'[q] = held[q], conn'[q] = conn[q],
           owner'[r] = Backend(q) <=> owner[r] = Backend(q),
           owner[r] = Backend(q) => depth'[r] = depth[r]
    PROVE  Kept(q, r)'
PROOF
  <1>1. Backend(q)' = Backend(q)
    BY DEF Backend
  <1>2. Balanced(q, r) => Balanced(q, r)'
    BY <1>1 DEF Balanced
  <1>3. Drained(q, r) => Drained(q, r)'
    BY <1>1 DEF Drained, UnlocksFirst
  <1> QED BY <1>2, <1>3 DEF Kept

\* A step of task t that neither sends nor answers an unlock of r keeps r's account.
LEMMA QuietStep ==
    ASSUME NEW p \in Procs, NEW t \in Tasks, NEW op \in Ops, NEW s \in Sessions,
           TypeOK, Proceed(p, t, op, s), NEW r \in Sessions, Kept(p, r),
           op # "unlock" \/ s # r, t \notin Unlocking(p, r),
           r \in held'[p] <=> r \in held[p],
           owner'[r] = owner[r], depth'[r] = depth[r], conn' = conn
    PROVE  Kept(p, r)'
PROOF
  <1>1. Unlocking(p, r)' = Unlocking(p, r)
    BY WireEffect
  <1>2. Backend(p)' = Backend(p)
    BY DEF Backend
  <1>3. Balanced(p, r) => Balanced(p, r)'
    BY <1>1, <1>2 DEF Balanced
  <1>4. Drained(p, r) => Drained(p, r)'
    BY <1>2, UnlocksFirstStep DEF Drained
  <1> QED BY <1>3, <1>4 DEF Kept

\* A step of another process keeps it as long as the lock is not q's before or after.
LEMMA OtherStep ==
    ASSUME NEW p \in Procs, NEW q \in Procs, q # p, NEW t \in Tasks, NEW op \in Ops,
           NEW s \in Sessions, TypeOK, Proceed(p, t, op, s), NEW r \in Sessions,
           Kept(q, r), held'[q] = held[q], conn' = conn,
           owner'[r] = Backend(q) <=> owner[r] = Backend(q),
           owner[r] = Backend(q) => depth'[r] = depth[r]
    PROVE  Kept(q, r)'
PROOF
  <1>1. Unlocking(q, r)' = Unlocking(q, r) /\ Trying(q, r)' = Trying(q, r)
    BY WireEffect
  <1>2. ahead'[q] = ahead[q]
    BY ProceedEffect
  <1> QED BY <1>1, <1>2, FrameStep

\* The answer to pg_try_advisory_lock keeps every account: what is granted is
\* counted and put into `held`, what is refused was not asked for as a lock held.
LEMMA TryLockAccount ==
    ASSUME IInv, NEW p \in Procs, NEW t \in Tasks, TryLock(p, t),
           NEW q \in Procs, NEW r \in Sessions, Kept(q, r)
    PROVE  Kept(q, r)'
PROOF
  <1> DEFINE s == call[p][t].s
  <1>1. s \in Sessions /\ TypeOK /\ LockState /\ "yes" \in Ops /\ "no" \in Ops /\ conn' = conn
    BY DEF IInv, TypeOK, Calls, Ops, TryLock
  <1>2. call[p][t] = [op |-> "try", s |-> s] /\ ahead[p][t] = {}
    BY DEF TryLock, Answered, IInv, TypeOK, Calls
  <1>3. \A x \in Sessions : t \notin Unlocking(p, x)
    BY <1>2 DEF Unlocking
  <1>4. CASE Proceed(p, t, "no", s) /\ UNCHANGED <<owner, depth, held>>
    <2> HIDE DEF s
    <2>1. CASE q = p
      BY <1>1, <1>3, <1>4, <2>1, QuietStep
    <2>2. CASE q # p
      BY <1>1, <1>4, <2>2, OtherStep
    <2> QED BY <2>1, <2>2
  <1>5. CASE /\ owner[s] \in {NoBackend, Backend(p)}
             /\ owner' = [owner EXCEPT ![s] = Backend(p)]
             /\ depth' = [depth EXCEPT ![s] = @ + 1]
             /\ held' = [held EXCEPT ![p] = @ \union {s}]
             /\ Proceed(p, t, "yes", s)
    <2> HIDE DEF s
    <2>1. \A x \in Sessions : x # s => owner'[x] = owner[x] /\ depth'[x] = depth[x]
      BY <1>1, <1>5 DEF TypeOK
    <2>2. held'[p] = held[p] \union {s} /\ \A x \in Procs : x # p => held'[x] = held[x]
      BY <1>1, <1>5 DEF TypeOK
    <2>3. owner'[s] = Backend(p) /\ depth'[s] = depth[s] + 1 /\ depth[s] \in Nat
      BY <1>1, <1>5 DEF TypeOK
    <2>4. Backend(p)' = Backend(p)
      BY <1>1 DEF Backend
    <2>5. CASE q # p
      <3>1. Backend(q) # Backend(p) /\ Backend(q) # NoBackend
        BY <1>1, <2>5, NoBackendIsNone DEF Backend
      <3>2. owner'[r] = Backend(q) <=> owner[r] = Backend(q)
        BY <1>5, <2>1, <2>3, <3>1
      <3>3. owner[r] = Backend(q) => depth'[r] = depth[r]
        BY <1>5, <2>1, <3>1
      <3> QED BY <1>1, <1>5, <2>2, <2>5, <3>2, <3>3, OtherStep
    <2>6. CASE q = p /\ r # s
      BY <1>1, <1>3, <1>5, <2>1, <2>2, <2>6, QuietStep
    <2>7. CASE q = p /\ r = s
      <3>1. Unlocking(p, r)' = Unlocking(p, r)
        BY <1>1, <1>3, <1>5, <2>7, WireEffect
      <3>2. Cardinality(Unlocking(p, r)) \in Nat
        BY <1>1, UnlockingFinite
      <3>3. CASE Balanced(p, r)
        <4>1. Cardinality(Unlocking(p, r)) + 1 <= depth[r] + 1
          BY <2>7, <2>3, <3>2, <3>3 DEF Balanced
        <4> QED BY <2>2, <2>3, <2>4, <2>7, <3>1, <4>1 DEF Kept, Balanced
      <3>4. CASE Drained(p, r)
        <4>1. Unlocking(p, r) = {}
          <5>1. t \in Trying(p, r)
            BY <2>7, <1>2 DEF Trying
          <5> QED BY <2>7, <1>2, <3>4, <5>1 DEF Drained, UnlocksFirst
        <4>2. Cardinality(Unlocking(p, r)) = 0
          BY <4>1, FS_EmptySet
        <4>3. 0 + 1 <= depth'[r]
          BY <2>7, <2>3
        <4> QED BY <2>2, <2>3, <2>4, <2>7, <3>1, <4>2, <4>3 DEF Kept, Balanced
      <3> QED BY <2>7, <3>3, <3>4 DEF Kept
    <2> QED BY <2>5, <2>6, <2>7
  <1> QED BY <1>4, <1>5 DEF TryLock

\* release() moves the session from `held` to an unlock on the wire.
LEMMA ReleaseAccount ==
    ASSUME IInv, NEW p \in Procs, NEW t \in Tasks, NEW s \in Sessions, Release(p, t, s),
           NEW q \in Procs, NEW r \in Sessions, Kept(q, r)
    PROVE  Kept(q, r)'
PROOF
  <1>1. TypeOK /\ "unlock" \in Ops /\ Proceed(p, t, "unlock", s) /\ UNCHANGED <<owner, depth, conn>>
    BY DEF IInv, Release, Ops
  <1>2. \A x \in Sessions : t \notin Unlocking(p, x)
    BY DEF Release, Unlocking
  <1>3. s \in held[p] /\ held'[p] = held[p] \ {s} /\ \A x \in Procs : x # p => held'[x] = held[x]
    BY <1>1 DEF Release, TypeOK
  <1>4. CASE q # p
    BY <1>1, <1>3, <1>4, OtherStep
  <1>5. CASE q = p /\ r # s
    BY <1>1, <1>2, <1>3, <1>5, QuietStep
  <1>6. CASE q = p /\ r = s
    <2>1. Unlocking(p, s)' = Unlocking(p, s) \union {t}
      BY <1>1, WireEffect
    <2>2. Cardinality(Unlocking(p, s) \union {t}) = Cardinality(Unlocking(p, s)) + 1
      BY <1>2, UnlockingFinite, FS_AddElement
    <2>3. Balanced(p, s)
      BY <1>3, <1>6 DEF Kept, Drained
    <2>4. Cardinality(Unlocking(p, s)) \in Nat
      BY UnlockingFinite
    <2>5. Backend(p)' = Backend(p)
      BY <1>1 DEF Backend
    <2>6. Cardinality(Unlocking(p, s)) + 1 <= IF owner[s] = Backend(p) THEN depth[s] ELSE 0
      BY <1>3, <2>3 DEF Balanced
    <2> QED BY <1>1, <1>3, <1>6, <2>1, <2>2, <2>4, <2>5, <2>6 DEF Kept, Balanced
  <1> QED BY <1>4, <1>5, <1>6

\* An answered unlock takes one off the count, or does nothing where the lock went
\* with an earlier connection.
LEMMA UnlockAccount ==
    ASSUME IInv, NEW p \in Procs, NEW t \in Tasks, Unlock(p, t),
           NEW q \in Procs, NEW r \in Sessions, Kept(q, r)
    PROVE  Kept(q, r)'
PROOF
  <1> DEFINE s == call[p][t].s
  <1>1. s \in Sessions /\ TypeOK /\ LockState /\ "idle" \in Ops
        /\ Proceed(p, t, "idle", s) /\ UNCHANGED <<conn, held>>
    BY DEF IInv, TypeOK, Calls, Ops, Unlock
  <1>2. call[p][t] = [op |-> "unlock", s |-> s]
    BY DEF Unlock, Answered, IInv, TypeOK, Calls
  <1>3. /\ owner[s] # Backend(p) => UNCHANGED <<owner, depth>>
        /\ owner[s] = Backend(p) =>
              /\ depth' = [depth EXCEPT ![s] = depth[s] - 1]
              /\ owner' = [owner EXCEPT ![s] = IF depth[s] = 1 THEN NoBackend ELSE owner[s]]
    BY DEF Unlock
  <1> HIDE DEF s
  <1>4. \A x \in Sessions : x # s => owner'[x] = owner[x] /\ depth'[x] = depth[x]
    BY <1>1, <1>3 DEF TypeOK
  <1>5. \A x \in Sessions : x # s => t \notin Unlocking(p, x)
    BY <1>2 DEF Unlocking
  <1>6. owner[s] = Backend(p) =>
           depth[s] \in Nat \ {0} /\ depth'[s] = depth[s] - 1
           /\ owner'[s] = IF depth[s] = 1 THEN NoBackend ELSE owner[s]
    BY <1>1, <1>3, NoBackendIsNone DEF TypeOK, LockState
  <1>7. Backend(p)' = Backend(p) /\ Backend(p) # NoBackend /\ Backend(q) # NoBackend
    BY <1>1, NoBackendIsNone DEF Backend
  <1>8. CASE q # p
    <2>1. Backend(q) # Backend(p)
      BY <1>8 DEF Backend
    <2>2. owner'[r] = Backend(q) <=> owner[r] = Backend(q)
      BY <1>3, <1>4, <1>6, <1>7, <2>1
    <2>3. owner[r] = Backend(q) => depth'[r] = depth[r]
      BY <1>3, <1>4, <2>1
    <2> QED BY <1>1, <1>8, <2>2, <2>3, OtherStep
  <1>9. CASE q = p /\ r # s
    BY <1>1, <1>4, <1>5, <1>9, QuietStep
  <1>10. CASE q = p /\ r = s
    <2>1. t \in Unlocking(p, r)
      BY <1>10, <1>2 DEF Unlocking
    <2>2. Unlocking(p, r)' = Unlocking(p, r) \ {t}
      BY <1>10, <1>1, WireEffect
    <2>3. Cardinality(Unlocking(p, r) \ {t}) = Cardinality(Unlocking(p, r)) - 1
      BY <1>10, <1>1, <2>1, UnlockingFinite, FS_RemoveElement
    <2>4. Cardinality(Unlocking(p, r)) \in Nat /\ Cardinality(Unlocking(p, r)) # 0
      BY <1>10, <1>1, <2>1, UnlockingFinite, FS_EmptySet
    <2>5. CASE Balanced(p, r)
      <3>1. owner[r] = Backend(p)
        BY <1>10, <2>4, <2>5 DEF Balanced
      <3>2. Cardinality(Unlocking(p, r)) + (IF r \in held[p] THEN 1 ELSE 0) <= depth[r]
        BY <1>10, <2>5, <3>1 DEF Balanced
      <3>3. CASE depth[r] = 1
        <4>1. r \notin held[p] /\ Cardinality(Unlocking(p, r)) = 1
          BY <1>10, <2>4, <3>2, <3>3
        <4>2. owner'[r] # Backend(p)
          BY <1>10, <1>6, <1>7, <3>1, <3>3
        <4> QED BY <1>1, <1>7, <1>10, <2>2, <2>3, <4>1, <4>2 DEF Kept, Balanced
      <3>4. CASE depth[r] # 1
        <4>1. owner'[r] = Backend(p) /\ depth'[r] = depth[r] - 1 /\ depth[r] \in Nat
          BY <1>10, <1>6, <3>1, <3>4
        <4>2. Cardinality(Unlocking(p, r)) - 1 + (IF r \in held[p] THEN 1 ELSE 0) <= depth[r] - 1
          BY <1>10, <2>4, <3>2, <4>1
        <4> QED BY <1>1, <1>7, <1>10, <2>2, <2>3, <4>1, <4>2 DEF Kept, Balanced
      <3> QED BY <1>10, <3>3, <3>4
    <2>6. CASE Drained(p, r)
      <3>1. owner' = owner /\ r \notin held'[p] /\ owner[r] # Backend(p)
        BY <1>10, <1>1, <1>3, <2>6 DEF Drained
      <3>2. UnlocksFirst(p, r)'
        BY <1>10, <1>1, <2>6, UnlocksFirstStep DEF Drained
      <3> QED BY <1>7, <1>10, <3>1, <3>2 DEF Kept, Drained
    <2> QED BY <1>10, <2>5, <2>6 DEF Kept
  <1> QED BY <1>8, <1>9, <1>10

\* A check that went well and leaves p current: nothing was replaced since the
\* last one, or p starts over with nothing held and nothing asked for.
LEMMA CheckedAccount ==
    ASSUME IInv, NEW p \in Procs, Verify(p), fails'[p] = 0, NEW r \in Sessions
    PROVE  \/ held' = held /\ Kept(p, r)
           \/ /\ r \notin held'[p] /\ owner[r] # Backend(p)
              /\ \A t \in Tasks : call[p][t].op # "try"
PROOF
  <1>1. VerifyOk(p) /\ fails[p] = 0 /\ pid[p] \in Nat /\ conn[p] \in Nat \ {0} /\ TypeOK
    BY DEF Verify, VerifyOk, VerifyFails, IInv, TypeOK
  <1>2. CASE pid[p] = conn[p]
    <2>1. held' = held
      BY <1>1, <1>2 DEF VerifyOk
    <2>2. Current(p)
      BY <1>1, <1>2 DEF Current
    <2> QED BY <2>1, <2>2 DEF IInv, Accounted, Kept
  <1>3. CASE pid[p] # conn[p]
    <2>1. held'[p] = {}
      BY <1>1, <1>3 DEF VerifyOk, IInv, PidState, TypeOK
    <2> QED BY <1>1, <1>3, <2>1 DEF IInv, NothingUnchecked
  <1> QED BY <1>2, <1>3

\* acquire() after its check keeps the account of its own process: the request it
\* sends is behind every unlock.
LEMMA AcquireCheckedAccount ==
    ASSUME IInv, NEW p \in Procs, NEW t \in Tasks, AcquireChecked(p, t), fails'[p] = 0,
           NEW r \in Sessions
    PROVE  Kept(p, r)'
PROOF
  <1> DEFINE s == call[p][t].s
  <1>1. PICK op \in {"yes", "try"} : Proceed(p, t, op, s)
    BY DEF AcquireChecked
  <1>2. s \in Sessions /\ TypeOK /\ op \in Ops /\ op # "unlock" /\ UNCHANGED <<conn, owner, depth>>
    BY DEF IInv, TypeOK, Calls, Ops, AcquireChecked
  <1>3. t \notin Unlocking(p, r)
    BY DEF AcquireChecked, Answered, Unlocking
  <1> HIDE DEF s
  <1>4. CASE held' = held /\ Kept(p, r)
    BY <1>1, <1>2, <1>3, <1>4, QuietStep
  <1>5. CASE r \notin held'[p] /\ owner[r] # Backend(p) /\ \A u \in Tasks : call[p][u].op # "try"
    <2>1. UnlocksFirst(p, r)
      BY <1>5 DEF UnlocksFirst, Trying
    <2>2. UnlocksFirst(p, r)'
      BY <1>1, <1>2, <2>1, UnlocksFirstStep
    <2> QED BY <1>2, <1>5, <2>2 DEF Kept, Drained, Backend
  <1> QED BY <1>4, <1>5, CheckedAccount DEF AcquireChecked

\* Every step keeps the accounts of the processes that are current after it.
LEMMA AccountedStep == IInv /\ [Next]_lockVars => Accounted'
  <1> SUFFICES ASSUME IInv, [Next]_lockVars,
                      NEW q \in Procs, NEW r \in Sessions, Current(q)'
               PROVE  Kept(q, r)'
    BY DEF Accounted, Kept
  <1>1. TypeOK
    BY DEF IInv
  <1>2. Current(q) => Kept(q, r)
    BY DEF IInv, Accounted, Kept
  <1>3. fails'[q] = 0 /\ pid'[q] = conn'[q]
    BY DEF Current
  <1>4. ASSUME NEW p \in Procs, q # p, Verify(p), conn' = conn
        PROVE  held'[q] = held[q] /\ Kept(q, r)
    <2>1. pid'[q] = pid[q] /\ fails'[q] = fails[q] /\ held'[q] = held[q]
      BY <1>1, <1>4 DEF Verify, VerifyOk, VerifyFails, TypeOK
    <2> QED BY <1>2, <1>3, <1>4, <2>1 DEF Current
  <1>5. ASSUME UNCHANGED <<pid, conn, fails>> PROVE Kept(q, r)
    BY <1>2, <1>3, <1>5 DEF Current
  <1>6. ASSUME NEW p \in Procs, TimerVerify(p) PROVE Kept(q, r)'
    <2>1. UNCHANGED <<conn, owner, depth, call, ahead>> /\ Verify(p)
      BY <1>6 DEF TimerVerify
    <2>2. Unlocking(q, r)' = Unlocking(q, r) /\ Trying(q, r)' = Trying(q, r)
      BY <2>1 DEF Unlocking, Trying
    <2>3. Backend(q)' = Backend(q)
      BY <2>1 DEF Backend
    <2>4. CASE held'[q] = held[q] /\ Kept(q, r)
      BY <2>1, <2>2, <2>4, FrameStep
    <2>5. CASE r \notin held'[q] /\ owner[r] # Backend(q) /\ \A u \in Tasks : call[q][u].op # "try"
      BY <2>1, <2>2, <2>3, <2>5 DEF Kept, Drained, UnlocksFirst, Trying
    <2> QED BY <1>3, <1>4, <2>1, <2>4, <2>5, CheckedAccount
  <1>7. ASSUME NEW p \in Procs, Drop(p) \/ Restart(p) PROVE Kept(q, r)'
    <2>1. CASE q = p
      BY <1>1, <1>3, <1>7, <2>1 DEF Drop, Restart, TypeOK, IInv, PidState
    <2>2. CASE q # p
      <3>1. /\ conn'[q] = conn[q] /\ pid'[q] = pid[q] /\ fails'[q] = fails[q] /\ held'[q] = held[q]
            /\ call'[q] = call[q] /\ ahead'[q] = ahead[q] /\ owner' = owner /\ depth' = depth
        BY <1>1, <1>7, <2>2 DEF Drop, Restart, TypeOK
      <3>2. Unlocking(q, r)' = Unlocking(q, r) /\ Trying(q, r)' = Trying(q, r)
        BY <3>1 DEF Unlocking, Trying
      <3>3. Kept(q, r)
        BY <1>2, <1>3, <3>1 DEF Current
      <3> QED BY <3>1, <3>2, <3>3, FrameStep
    <2> QED BY <2>1, <2>2
  <1>8. ASSUME NEW s \in Sessions, Reap(s) PROVE Kept(q, r)'
    <2>1. UNCHANGED <<conn, pid, held, fails, call, ahead>>
      BY <1>8 DEF Reap
    <2>2. owner[s] # Backend(q) /\ owner'[s] = NoBackend
      BY <1>1, <1>8 DEF Reap, Backend, TypeOK
    <2>3. \A x \in Sessions : x # s => owner'[x] = owner[x] /\ depth'[x] = depth[x]
      BY <1>1, <1>8 DEF Reap, TypeOK
    <2>4. Unlocking(q, r)' = Unlocking(q, r) /\ Trying(q, r)' = Trying(q, r)
      BY <2>1 DEF Unlocking, Trying
    <2> QED BY <1>1, <1>5, <2>1, <2>2, <2>3, <2>4, FrameStep, NoBackendIsNone
  <1>9. ASSUME NEW p \in Procs, NEW t \in Tasks, TaskStep(p, t) PROVE Kept(q, r)'
    <2>1. \A u \in Tasks : call[p][u].s \in Sessions
      BY <1>1 DEF TypeOK, Calls
    <2>2. ASSUME NEW op \in Ops, NEW s \in Sessions, op # "unlock", Proceed(p, t, op, s),
                 call[p][t].op # "unlock", UNCHANGED <<conn, owner, depth>>, held'[q] = held[q], Kept(q, r)
          PROVE  Kept(q, r)'
      <3>1. \A x \in Sessions : t \notin Unlocking(p, x)
        BY <2>2 DEF Unlocking
      <3>2. CASE q = p
        BY <1>1, <2>2, <3>1, <3>2, QuietStep
      <3>3. CASE q # p
        BY <1>1, <2>2, <3>3, OtherStep
      <3> QED BY <3>2, <3>3
    <2>3. ASSUME NEW s \in Sessions, Acquire(p, t, s) PROVE Kept(q, r)'
      BY <1>5, <2>2, <2>3 DEF Acquire, Ops
    <2>4. ASSUME NEW s \in Sessions, Release(p, t, s) PROVE Kept(q, r)'
      BY <1>5, <2>4, ReleaseAccount DEF Release
    <2>5. CASE AcquireChecked(p, t)
      <3>1. CASE q = p
        BY <1>3, <2>5, <3>1, AcquireCheckedAccount
      <3>2. CASE q # p
        <4>1. PICK op \in {"yes", "try"} : Proceed(p, t, op, call[p][t].s)
          BY <2>5 DEF AcquireChecked
        <4> QED BY <1>4, <2>1, <2>2, <2>5, <3>2, <4>1 DEF AcquireChecked, Answered, Ops
      <3> QED BY <3>1, <3>2
    <2>6. CASE TryLock(p, t)
      BY <1>5, <2>6, TryLockAccount DEF TryLock
    <2>7. CASE Return(p, t)
      BY <1>5, <2>1, <2>2, <2>7 DEF Return, Ops
    <2>8. CASE Unlock(p, t)
      BY <1>5, <2>8, UnlockAccount DEF Unlock
    <2> QED BY <1>9, <2>3, <2>4, <2>5, <2>6, <2>7, <2>8 DEF TaskStep
  <1>10. CASE UNCHANGED lockVars
    <2>1. Unlocking(q, r)' = Unlocking(q, r) /\ Trying(q, r)' = Trying(q, r)
      BY <1>10 DEF Unlocking, Trying, lockVars
    <2> QED BY <1>5, <1>10, <2>1, FrameStep DEF lockVars
  <1> QED BY <1>6, <1>7, <1>8, <1>9, <1>10 DEF Next, ProcStep

-----------------------------------------------------------------------------
\* At the start nothing is locked, held or asked for.
LEMMA IInvInit == Init => IInv
  <1> SUFFICES ASSUME Init PROVE IInv
    OBVIOUS
  <1>1. TypeOK
    BY IdleIsIdle DEF Init, TypeOK
  <1>2. LockState /\ PidState
    BY DEF Init, LockState, PidState
  <1>3. NothingUnchecked
    BY <1>1, NoBackendIsNone, IdleIsIdle DEF Init, NothingUnchecked
  <1>4. Accounted
    BY DEF Init, Accounted, Current
  <1> QED BY <1>1, <1>2, <1>3, <1>4 DEF IInv

LEMMA IInvStep == IInv /\ [Next]_lockVars => IInv'
  <1> SUFFICES ASSUME IInv, [Next]_lockVars PROVE IInv'
    OBVIOUS
  <1>1. TypeOK'
    BY TypeStep DEF IInv
  <1> QED BY <1>1, LockStateStep, PidStateStep, NothingUncheckedStep, AccountedStep DEF IInv

\* IInv is an invariant: types, the state of the locks in Postgres, and the
\* balance of `held`, unlocks on the wire and the count of the lock.
THEOREM Invariance == Spec => []IInv
  <1> QED BY IInvStep, IInvInit, PTL DEF Spec

\* The variables always have their types.
THEOREM TypeCorrect == Spec => []TypeOK
  <1>1. IInv => TypeOK
    BY DEF IInv
  <1> QED BY <1>1, Invariance, PTL

\* What a process believes to hold and could check is locked by its backend.
LEMMA IInvHeld == IInv => HeldIsLocked
  <1> SUFFICES ASSUME IInv, NEW p \in Procs, NEW s \in Sessions, Current(p), s \in held[p]
               PROVE  owner[s] = Backend(p)
    BY DEF HeldIsLocked
  <1>1. Balanced(p, s)
    BY DEF IInv, Accounted, Drained
  <1>2. Cardinality(Unlocking(p, s)) \in Nat
    BY UnlockingFinite
  <1> QED BY <1>1, <1>2 DEF Balanced

\* locks.ts:49-60: `held` is right on a connection that is as last checked,
\* whatever acquires, releases and unlocks overlap.
THEOREM HeldLocked == Spec => []HeldIsLocked
  <1> QED BY IInvHeld, Invariance, PTL

\* locks.ts:5: two processes with a connection as last checked never both hold
\* a session.
THEOREM Exclusion == Spec => []MutualExclusion
  <1>1. HeldIsLocked /\ TypeOK => MutualExclusion
    <2> SUFFICES ASSUME HeldIsLocked, TypeOK, NEW p \in Procs, NEW q \in Procs, p # q,
                        Current(p), Current(q), NEW s \in held[p] \intersect held[q]
                 PROVE  FALSE
      BY DEF MutualExclusion
    <2>1. s \in Sessions
      BY DEF TypeOK
    <2>2. owner[s] = Backend(p) /\ owner[s] = Backend(q)
      BY <2>1 DEF HeldIsLocked
    <2> QED BY <2>2 DEF Backend
  <1> QED BY <1>1, HeldLocked, TypeCorrect, PTL

\* locks.ts:49-55: acquire answers true only to a process whose backend has the
\* lock at that moment and that has the session in `held`.
THEOREM TrueAnswers == Spec => TrueMeansLocked
  <1>1. IInv /\ HeldIsLocked' /\ [Next]_lockVars =>
            [\A p \in Procs, t \in Tasks :
                call'[p][t].op = "yes" /\ call[p][t].op # "yes" /\ fails'[p] = 0
                    => owner'[call[p][t].s] = Backend(p) /\ call[p][t].s \in held'[p]]_lockVars
    <2> SUFFICES ASSUME IInv, HeldIsLocked', Next, NEW p \in Procs, NEW t \in Tasks,
                        call'[p][t].op = "yes", call[p][t].op # "yes", fails'[p] = 0
                 PROVE  owner'[call[p][t].s] = Backend(p) /\ call[p][t].s \in held'[p]
      BY DEF lockVars
    <2>1. TypeOK /\ HeldIsLocked'
      BY DEF IInv
    <2> DEFINE s == call[p][t].s
    <2>2. s \in Sessions
      BY <2>1 DEF TypeOK, Calls
    <2>3. ASSUME NEW q \in Procs, ProcStep(q) PROVE FALSE
      <3>1. \A u \in Tasks : [call[p][u] EXCEPT !.op = "error"].op = "error"
        BY <2>1 DEF TypeOK, Calls
      <3>2. CASE Drop(q)
        <4>1. call'[p] # call[p] => q = p
          BY <2>1, <3>2 DEF Drop, TypeOK
        <4>2. q = p => call'[p][t] = CASE call[p][t].op = "try"    -> [call[p][t] EXCEPT !.op = "error"]
                                [] call[p][t].op = "unlock" -> Idle
                                [] OTHER                    -> call[p][t]
          BY <2>1, <3>2 DEF Drop, TypeOK
        <4> QED BY <3>1, <4>1, <4>2, IdleIsIdle
      <3>3. CASE Restart(q)
        <4>1. call'[p][t] = call[p][t] \/ call'[p][t] = Idle
          BY <2>1, <3>3 DEF Restart, TypeOK
        <4> QED BY <4>1, IdleIsIdle
      <3> QED BY <2>3, <3>2, <3>3 DEF ProcStep, TimerVerify
    <2>4. ASSUME NEW q \in Procs, NEW u \in Tasks, TaskStep(q, u)
          PROVE  q = p /\ u = t /\ (AcquireChecked(p, t) \/ TryLock(p, t))
      <3>1. ASSUME NEW op \in Ops, NEW x \in Sessions, Proceed(q, u, op, x)
            PROVE  q = p /\ u = t /\ op = "yes"
        <4>1. call'[q][u] = IF op = "idle" THEN Idle ELSE [op |-> op, s |-> x]
          BY <2>1, <3>1, ProceedEffect
        <4>2. \A a \in Procs, b \in Tasks : a # q \/ b # u => call'[a][b] = call[a][b]
          BY <2>1, <3>1, ProceedEffect
        <4>3. q = p /\ u = t
          BY <4>2
        <4> QED BY <4>1, <4>3, IdleIsIdle
      <3>2. call[q][u].s \in Sessions
        BY <2>1 DEF TypeOK, Calls
      <3>3. ASSUME NEW x \in Sessions, Acquire(q, u, x) \/ Release(q, u, x) PROVE FALSE
        BY <3>1, <3>3 DEF Acquire, Release, Ops
      <3>4. CASE Return(q, u) \/ Unlock(q, u)
        BY <3>1, <3>2, <3>4 DEF Return, Unlock, Ops
      <3>5. CASE AcquireChecked(q, u)
        <4>1. PICK op \in {"yes", "try"} : Proceed(q, u, op, call[q][u].s)
          BY <3>5 DEF AcquireChecked
        <4> QED BY <3>1, <3>2, <3>5, <4>1 DEF Ops
      <3>6. CASE TryLock(q, u)
        <4>1. PICK op \in {"yes", "no"} : Proceed(q, u, op, call[q][u].s)
          BY <3>6 DEF TryLock
        <4> QED BY <3>1, <3>2, <3>6, <4>1 DEF Ops
      <3> QED BY <2>4, <3>3, <3>4, <3>5, <3>6 DEF TaskStep
    <2>5. CASE AcquireChecked(p, t)
      <3>1. VerifyOk(p)
        BY <2>1, <2>5 DEF AcquireChecked, Verify, VerifyFails, TypeOK
      <3>2. conn' = conn /\ pid'[p] = conn[p]
        BY <2>1, <2>5, <3>1 DEF AcquireChecked, VerifyOk, TypeOK
      <3>3. s \in held'[p]
        <4>1. Proceed(p, t, IF s \in held'[p] THEN "yes" ELSE "try", s)
          BY <2>5 DEF AcquireChecked
        <4>2. s \notin held'[p] => call'[p][t] = [op |-> "try", s |-> s]
          BY <2>1, <4>1 DEF Proceed, TypeOK
        <4> QED BY <4>2
      <3>4. owner'[s] = Backend(p)'
        BY <2>1, <2>2, <3>2, <3>3 DEF HeldIsLocked, Current
      <3> QED BY <3>2, <3>3, <3>4 DEF Backend
    <2>6. CASE TryLock(p, t)
      <3>1. Proceed(p, t, "no", s) => call'[p][t].op = "no"
        BY <2>1 DEF Proceed, TypeOK
      <3>2. owner' = [owner EXCEPT ![s] = Backend(p)] /\ held' = [held EXCEPT ![p] = @ \union {s}]
        BY <2>6, <3>1 DEF TryLock
      <3> QED BY <2>1, <2>2, <3>2 DEF TypeOK
    <2>7. ASSUME NEW x \in Sessions, Reap(x) PROVE FALSE
      BY <2>7 DEF Reap
    <2> QED BY <2>3, <2>4, <2>5, <2>6, <2>7 DEF Next
  <1> QED BY <1>1, Invariance, HeldLocked, PTL DEF Spec, TrueMeansLocked
=============================================================================

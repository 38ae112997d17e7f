----------------------- MODULE BridgeSessions_proofs -----------------------
(* Proofs of what BridgeSessions keeps of one Telegram session, for any      *)
(* number of processes, requests, keys, clients, crashes and lost locks.     *)
(* What SessionLocks_proofs shows of the locks is used here, not shown again. *)
EXTENDS MCBridgeSessions, FiniteSetTheorems, TLAPS

LockProofs == INSTANCE SessionLocks_proofs WITH Sessions <- {Session}

-----------------------------------------------------------------------------
(* The locks: every step is one of SessionLocks, or leaves them alone.       *)

LEMMA TasksFinite == IsFiniteSet(Tasks) /\ LockProofs!IsFiniteSet(Tasks)
PROOF
  <1>1. IsFiniteSet(Tasks)
    BY BridgeAssumption, FS_Singleton, FS_Union DEF Tasks
  <1> QED BY <1>1 DEF IsFiniteSet, LockProofs!IsFiniteSet

LEMMA Bounds ==
    /\ MaxConn \in Nat /\ MaxFails \in Nat /\ MaxDepth \in Nat /\ MaxRequests \in Nat /\ MaxKeys \in Nat
    /\ MaxRevoked \in Nat /\ MaxDrops \in Nat /\ MaxCrashes \in Nat /\ MaxClients \in Nat
  BY BridgeAssumption

\* What one task asks of the locks in one step.
Asks(p, t) ==
    \/ Locks!Acquire(p, t, Session) \/ Locks!Release(p, t, Session) \/ Locks!Return(p, t)
    \/ UNCHANGED lockVars

LEMMA AsksNext ==
    ASSUME NEW p \in Procs, NEW t \in Tasks, Asks(p, t)
    PROVE  [Locks!Next]_lockVars
  BY DEF Asks, Locks!Next, Locks!TaskStep

LEMMA RequestAsks ==
    ASSUME NEW p \in Procs, NEW t \in Slots, RequestStep(p, t)
    PROVE  Asks(p, t)
PROOF
  <1>1. CASE Pair(p, t) \/ PairLocked(p, t) \/ AskPassword(p, t) \/ WrongPassword(p, t) \/ SignedIn(p, t)
    BY <1>1 DEF Pair, PairLocked, AskPassword, WrongPassword, SignedIn, Told, Asks
  <1>2. CASE SaveKey(p, t) \/ Linked(p, t) \/ PairingFails(p, t) \/ PairingOver(p, t)
    BY <1>2 DEF SaveKey, Linked, PairingFails, PairingOver, GiveBack, Asks
  <1>3. CASE Reconnect(p, t) \/ ReconnectLocked(p, t) \/ ReconnectDrop(p, t) \/ ReconnectRow(p, t) \/ ReconnectResume(p, t)
    BY <1>3 DEF Reconnect, ReconnectLocked, ReconnectDrop, ReconnectRow, ReconnectResume, Resume, Told, Asks
  <1>4. CASE Logout(p, t) \/ LogoutLocked(p, t) \/ LogOut(p, t) \/ LoggedOut(p, t) \/ Forget(p, t)
    BY <1>4 DEF Logout, LogoutLocked, LogOut, LoggedOut, Forget, GiveBack, Told, Asks
  <1> QED BY <1>1, <1>2, <1>3, <1>4 DEF RequestStep

LEMMA ResumeAsks ==
    ASSUME NEW p \in Procs, NEW t \in Tasks, ResumeStep(p, t)
    PROVE  Asks(p, t)
  BY DEF ResumeStep, HeldElsewhere, LockError, Resumed, Connected, RecordMe, ConnectFails, Refused, MarkRevoked,
         MarkRevokedFails, Done, GiveBack, Told, Asks

LEMMA TickAsks ==
    ASSUME NEW p \in Procs, TickStep(p)
    PROVE  Asks(p, Tick)
  BY DEF TickStep, TickRead, TickDrop, TickRelease, TickRow, ProbeOk, ProbeFails, Resume, GiveBack, Asks

LEMMA LocksStep == [Next]_vars => [Locks!Next]_lockVars
PROOF
  <1> SUFFICES ASSUME Next PROVE [Locks!Next]_lockVars
    BY DEF vars
  <1>1. ASSUME NEW p \in Procs, NEW t \in Tasks, TaskStep(p, t) PROVE [Locks!Next]_lockVars
    <2>1. CASE t \in Slots /\ RequestStep(p, t)
      BY <2>1, AsksNext, RequestAsks
    <2>2. CASE t = Tick /\ TickStep(p)
      BY <2>2, AsksNext, TickAsks
    <2>3. CASE ResumeStep(p, t)
      BY <2>3, AsksNext, ResumeAsks
    <2>4. CASE LockStep(p, t)
      BY <2>4 DEF LockStep, AcquireChecks, LockAnswers, Locks!Next, Locks!TaskStep
    <2> QED BY <1>1, <2>1, <2>2, <2>3, <2>4 DEF TaskStep
  <1>2. ASSUME NEW p \in Procs, NEW t \in Tasks, NEW r \in Requests, Request(p, t, r) PROVE UNCHANGED lockVars
    BY <1>2 DEF Request
  <1>3. ASSUME NEW p \in Procs, TimerChecks(p) \/ LockConnectionDrops(p) \/ Crash(p) PROVE Locks!Next
    BY <1>3 DEF TimerChecks, LockConnectionDrops, Crash, Locks!Next, Locks!ProcStep
  <1>4. ASSUME NEW p \in Procs, SubmitPassword(p) \/ Start(p) \/ (\E c \in Clients : LostClosed(p, c))
        PROVE  UNCHANGED lockVars
    BY <1>4 DEF SubmitPassword, Start, LostClosed
  <1>5. CASE LockReaped
    BY <1>5 DEF LockReaped, Locks!Next
  <1>6. CASE \E k \in Keys : OwnerTerminates(k) \/ KeyDuplicated(k)
    BY <1>6 DEF OwnerTerminates, KeyDuplicated
  <1> QED BY <1>1, <1>2, <1>3, <1>4, <1>5, <1>6 DEF Next

\* Of its lock connection the bridge asks nothing that SessionLocks does not allow: what
\* sessions.ts does with locks.ts is a behaviour of locks.ts, crashes and losses included.
THEOREM KeepsToTheLocks == Spec => Locks!Spec
PROOF
  <1>1. Init => Locks!Init
    BY DEF Init
  <1>2. [Next]_vars => [Locks!Next]_(Locks!lockVars)
    BY LocksStep DEF lockVars, Locks!lockVars
  <1> QED BY <1>1, <1>2, PTL DEF Spec, Locks!Spec

-----------------------------------------------------------------------------
(* The invariants. *)

TaskStates == [pc : Pcs, row : Rows, client : Clients \union {None}]

\* A client is connected only for a row with a key.
TypeInv ==
    /\ TypeOK
    /\ \A p \in Procs, t \in Tasks : task[p][t].pc \in {"resume_lock", "logout_lock"} => task[p][t].row.enc # None

\* What SessionLocks_proofs shows to be invariant under the steps of SessionLocks.
LocksInv == LockProofs!IInv

FlowPcs == {"sign_in", "save_key", "claim", "pairing_over"}

\* A flow is under way exactly if the Runtime says so, and it is one.
FlowInv ==
    \A p \in Procs :
        /\ \A t \in Tasks : task[p][t].pc \in FlowPcs => rt[p].pairing # "none"
        /\ rt[p].pairing # "none" => \E t \in Slots : task[p][t].pc \in FlowPcs
        /\ \A t, u \in Tasks : task[p][t].pc \in FlowPcs /\ task[p][u].pc \in FlowPcs => t = u

-----------------------------------------------------------------------------
(* The locks are as SessionLocks_proofs says. *)

LEMMA LocksInvInit == Init => LocksInv
PROOF
  <1>1. Init => LockProofs!Init
    BY DEF Init, Locks!Init, LockProofs!Init, Locks!Idle, LockProofs!Idle
  <1> QED BY <1>1, LockProofs!IInvInit, BridgeAssumption, TasksFinite, Bounds DEF LocksInv

LEMMA SameNext == [Locks!Next]_lockVars => [LockProofs!Next]_(LockProofs!lockVars)
  BY DEF lockVars, LockProofs!lockVars, Locks!Next, LockProofs!Next, LockProofs!ProcStep, Locks!ProcStep,
         LockProofs!TaskStep, Locks!TaskStep, Locks!Acquire, LockProofs!Acquire, LockProofs!Proceed, Locks!Proceed,
         LockProofs!Idle, Locks!Idle, LockProofs!Waiting, Locks!Waiting, LockProofs!Outstanding, Locks!Outstanding,
         LockProofs!Release, Locks!Release, LockProofs!AcquireChecked, Locks!AcquireChecked, LockProofs!Verify,
         Locks!Verify, LockProofs!VerifyOk, Locks!VerifyOk, LockProofs!VerifyFails, Locks!VerifyFails,
         LockProofs!Answered, Locks!Answered, LockProofs!TryLock, Locks!TryLock, LockProofs!Backend, Locks!Backend,
         LockProofs!Return, Locks!Return, LockProofs!Unlock, Locks!Unlock, LockProofs!TimerVerify, Locks!TimerVerify,
         LockProofs!Drop, Locks!Drop, LockProofs!Restart, Locks!Restart, LockProofs!Reap, Locks!Reap

LEMMA LocksInvStep == LocksInv /\ [Next]_vars => LocksInv'
  BY LocksStep, SameNext, LockProofs!IInvStep, BridgeAssumption, TasksFinite, Bounds DEF LocksInv

LEMMA LocksType == LocksInv => Locks!TypeOK
  BY DEF LocksInv, LockProofs!IInv, LockProofs!TypeOK, Locks!TypeOK, LockProofs!Calls, Locks!Calls,
         LockProofs!Ops, Locks!Ops

LEMMA LocksInvariance == Spec => []LocksInv
  BY LocksInvInit, LocksInvStep, PTL DEF Spec

\* A session that a process holds is locked by the backend now serving it, in the bridge that
\* uses the locks as sessions.ts does (locks.ts:49-60).
THEOREM HeldLocked == Spec => []Locks!HeldIsLocked
PROOF
  <1>1. LocksInv => LockProofs!HeldIsLocked
    BY LockProofs!IInvHeld, BridgeAssumption, TasksFinite, Bounds DEF LocksInv
  <1>2. LockProofs!HeldIsLocked => Locks!HeldIsLocked
    BY DEF LockProofs!HeldIsLocked, Locks!HeldIsLocked, LockProofs!Current, Locks!Current, LockProofs!Backend, Locks!Backend
  <1> QED BY <1>1, <1>2, LocksInvariance, PTL

-----------------------------------------------------------------------------
(* What a step does, written once for the proofs below: where the task goes, *)
(* what it has read, which client it has; the Runtime's client and pairing.   *)

To(p, t, pc, r, c) ==
    /\ task' \in [Procs -> [Tasks -> TaskStates]]
    /\ task'[p][t] = [pc |-> pc, row |-> r, client |-> c]
    /\ \A q \in Procs, u \in Tasks : <<q, u>> # <<p, t>> => task'[q][u] = task[q][u]

Has(p, c, pairing) ==
    /\ rt' \in [Procs -> Runtimes]
    /\ rt'[p].client = c /\ rt'[p].pairing = pairing
    /\ \A q \in Procs \ {p} : rt'[q] = rt[q]

\* The step of t goes on from pc, and leaves to the process what it had.
From(p, t, pc) == task[p][t].pc = pc /\ UNCHANGED <<closing, up, spent>>
SameRuntime(p) == Has(p, rt[p].client, rt[p].pairing)
Elsewhere(p) == \A q \in Procs \ {p} : held'[q] = held[q]

LEMMA TaskIs ==
    ASSUME TypeInv, NEW p \in Procs, NEW t \in Tasks
    PROVE  /\ task[p][t] \in TaskStates
           /\ task[p][t].pc \in Pcs /\ task[p][t].row \in Rows /\ task[p][t].client \in Clients \union {None}
           /\ task[p][t].row.enc \in Keys \union {None}
           /\ rt[p] \in Runtimes /\ rt[p].client \in Clients \union {None}
  BY DEF TypeInv, TypeOK, TaskStates, Runtimes, Rows

LEMMA ToIs ==
    ASSUME TypeInv, NEW p \in Procs, NEW t \in Tasks, NEW pc \in Pcs, NEW r \in Rows,
           NEW c \in Clients \union {None}, task' = [task EXCEPT ![p][t] = [pc |-> pc, row |-> r, client |-> c]]
    PROVE  To(p, t, pc, r, c)
PROOF
  <1> DEFINE x == [pc |-> pc, row |-> r, client |-> c]
  <1>1. task \in [Procs -> [Tasks -> TaskStates]] /\ x \in TaskStates
    BY DEF TypeInv, TypeOK, TaskStates
  <1> HIDE DEF x
  <1>2. task' = [task EXCEPT ![p][t] = x]
    BY DEF x
  <1>3. task' \in [Procs -> [Tasks -> TaskStates]] /\ task'[p][t] = x
    BY <1>1, <1>2
  <1>4. \A q \in Procs, u \in Tasks : <<q, u>> # <<p, t>> => task'[q][u] = task[q][u]
    BY <1>1, <1>2
  <1> QED BY <1>3, <1>4 DEF To, x

LEMMA MoveIs ==
    ASSUME TypeInv, NEW p \in Procs, NEW t \in Tasks, NEW pc \in Pcs
    PROVE  /\ Goto(p, t, pc) => To(p, t, pc, task[p][t].row, task[p][t].client)
           /\ Finish(p, t) => To(p, t, "idle", NoRow, None)
           /\ \A c \in Clients \union {None} :
                 /\ task' = [task EXCEPT ![p][t].pc = pc, ![p][t].client = c] => To(p, t, pc, task[p][t].row, c)
                 /\ task' = [task EXCEPT ![p][t].client = c, ![p][t].pc = pc] => To(p, t, pc, task[p][t].row, c)
           /\ \A r \in Rows :
                 task' = [task EXCEPT ![p][t].pc = pc, ![p][t].row = r] => To(p, t, pc, r, task[p][t].client)
PROOF
  <1>1. task \in [Procs -> [Tasks -> TaskStates]]
    BY DEF TypeInv, TypeOK, TaskStates
  <1>2. task[p][t] = [pc |-> task[p][t].pc, row |-> task[p][t].row, client |-> task[p][t].client]
    BY <1>1 DEF TaskStates
  <1>3. ASSUME Goto(p, t, pc) PROVE To(p, t, pc, task[p][t].row, task[p][t].client)
    <2>1. [task[p][t] EXCEPT !.pc = pc] = [pc |-> pc, row |-> task[p][t].row, client |-> task[p][t].client]
      BY <1>1, <1>2 DEF TaskStates
    <2>2. task' = [task EXCEPT ![p][t] = [task[p][t] EXCEPT !.pc = pc]]
      BY <1>1, <1>3 DEF Goto
    <2> QED BY <2>1, <2>2, TaskIs, ToIs
  <1>4. ASSUME Finish(p, t) PROVE To(p, t, "idle", NoRow, None)
    <2>1. NoRow \in Rows /\ "idle" \in Pcs
      BY DEF NoRow, Rows, Pcs
    <2> QED BY <1>4, <2>1, ToIs DEF Finish, NoTask
  <1>5. ASSUME NEW c \in Clients \union {None},
               \/ task' = [task EXCEPT ![p][t].pc = pc, ![p][t].client = c]
               \/ task' = [task EXCEPT ![p][t].client = c, ![p][t].pc = pc]
        PROVE  To(p, t, pc, task[p][t].row, c)
    <2>1. task' = [task EXCEPT ![p][t] = [pc |-> pc, row |-> task[p][t].row, client |-> c]]
      BY <1>1, <1>2, <1>5 DEF TaskStates
    <2> QED BY <2>1, TaskIs, ToIs
  <1>6. ASSUME NEW r \in Rows, task' = [task EXCEPT ![p][t].pc = pc, ![p][t].row = r]
        PROVE  To(p, t, pc, r, task[p][t].client)
    <2>1. [task[p][t] EXCEPT !.pc = pc, !.row = r] = [pc |-> pc, row |-> r, client |-> task[p][t].client]
      <3> DEFINE x == [task[p][t] EXCEPT !.pc = pc]
      <3>1. x = [pc |-> pc, row |-> task[p][t].row, client |-> task[p][t].client]
        BY <1>1, <1>2 DEF TaskStates
      <3>2. \A a, b, c : [[pc |-> a, row |-> b, client |-> c] EXCEPT !.row = r] = [pc |-> a, row |-> r, client |-> c]
        OBVIOUS
      <3>3. [task[p][t] EXCEPT !.pc = pc, !.row = r] = [x EXCEPT !.row = r]
        OBVIOUS
      <3> HIDE DEF x
      <3>4. [x EXCEPT !.row = r] = [pc |-> pc, row |-> r, client |-> task[p][t].client]
        BY <3>1, <3>2
      <3> QED BY <3>3, <3>4
    <2>2. task' = [task EXCEPT ![p][t] = [task[p][t] EXCEPT !.pc = pc, !.row = r]]
      BY <1>1, <1>6
    <2> QED BY <2>1, <2>2, TaskIs, ToIs
  <1> QED BY <1>3, <1>4, <1>5, <1>6

LEMMA HasIs ==
    ASSUME TypeInv, NEW p \in Procs
    PROVE  /\ UNCHANGED rt => SameRuntime(p)
           /\ \A b \in BOOLEAN :
                 /\ rt' = [rt EXCEPT ![p].elsewhere = b] => SameRuntime(p)
                 /\ rt' = [rt EXCEPT ![p].healthy = b] => SameRuntime(p)
                 /\ rt' = [rt EXCEPT ![p].revoked = b] => SameRuntime(p)
                 /\ rt' = [rt EXCEPT ![p].aborted = b] => SameRuntime(p)
                 /\ rt' = [[rt EXCEPT ![p].aborted = b] EXCEPT ![p].client = None, ![p].healthy = FALSE]
                      => Has(p, None, rt[p].pairing)
           /\ \A x \in {"none", "qr", "password", "checking"} :
                 /\ rt' = [rt EXCEPT ![p].pairing = x] => Has(p, rt[p].client, x)
                 /\ rt' = [rt EXCEPT ![p].pairing = x, ![p].aborted = FALSE] => Has(p, rt[p].client, x)
           /\ rt' = [rt EXCEPT ![p].elsewhere = FALSE, ![p].pairing = "qr", ![p].aborted = FALSE, ![p].revoked = FALSE]
                => Has(p, rt[p].client, "qr")
           /\ \A c \in Clients \union {None} :
                 /\ rt' = [rt EXCEPT ![p].client = c, ![p].healthy = FALSE] => Has(p, c, rt[p].pairing)
                 /\ rt' = [rt EXCEPT ![p].elsewhere = FALSE, ![p].client = c] => Has(p, c, rt[p].pairing)
                 /\ rt' = [rt EXCEPT ![p].client = c, ![p].healthy = TRUE, ![p].revoked = FALSE,
                                     ![p].pairing = "none", ![p].aborted = FALSE] => Has(p, c, "none")
PROOF
  <1>1. rt \in [Procs -> Runtimes]
    BY DEF TypeInv, TypeOK
  <1>2. ASSUME NEW y \in Runtimes, rt' = [rt EXCEPT ![p] = y] PROVE Has(p, y.client, y.pairing)
    BY <1>1, <1>2 DEF Has
  <1>3. ASSUME NEW b \in BOOLEAN
        PROVE  /\ rt' = [rt EXCEPT ![p].elsewhere = b] => SameRuntime(p)
               /\ rt' = [rt EXCEPT ![p].healthy = b] => SameRuntime(p)
               /\ rt' = [rt EXCEPT ![p].revoked = b] => SameRuntime(p)
               /\ rt' = [rt EXCEPT ![p].aborted = b] => SameRuntime(p)
    BY <1>1 DEF SameRuntime, Has, Runtimes
  <1>4. ASSUME NEW x \in {"none", "qr", "password", "checking"}
        PROVE  /\ rt' = [rt EXCEPT ![p].pairing = x] => Has(p, rt[p].client, x)
               /\ rt' = [rt EXCEPT ![p].pairing = x, ![p].aborted = FALSE] => Has(p, rt[p].client, x)
    BY <1>1 DEF Has, Runtimes
  <1>5. ASSUME NEW c \in Clients \union {None}, rt' = [rt EXCEPT ![p].client = c, ![p].healthy = FALSE]
        PROVE  Has(p, c, rt[p].pairing)
    <2> DEFINE y == [rt[p] EXCEPT !.client = c, !.healthy = FALSE]
    <2>1. y \in Runtimes /\ y.client = c /\ y.pairing = rt[p].pairing
      BY <1>1 DEF Runtimes
    <2>2. rt' = [rt EXCEPT ![p] = y]
      BY <1>1, <1>5
    <2> HIDE DEF y
    <2> QED BY <1>2, <2>1, <2>2
  <1>9. ASSUME NEW c \in Clients \union {None}, rt' = [rt EXCEPT ![p].elsewhere = FALSE, ![p].client = c]
        PROVE  Has(p, c, rt[p].pairing)
    <2> DEFINE y == [rt[p] EXCEPT !.elsewhere = FALSE, !.client = c]
    <2>1. y \in Runtimes /\ y.client = c /\ y.pairing = rt[p].pairing
      BY <1>1 DEF Runtimes
    <2>2. rt' = [rt EXCEPT ![p] = y]
      BY <1>1, <1>9
    <2> HIDE DEF y
    <2> QED BY <1>2, <2>1, <2>2
  <1>6. UNCHANGED rt => SameRuntime(p)
    BY <1>1 DEF SameRuntime, Has
  <1>7. ASSUME rt' = [rt EXCEPT ![p].elsewhere = FALSE, ![p].pairing = "qr", ![p].aborted = FALSE, ![p].revoked = FALSE]
        PROVE  Has(p, rt[p].client, "qr")
    <2> DEFINE y == [rt[p] EXCEPT !.elsewhere = FALSE, !.pairing = "qr", !.aborted = FALSE, !.revoked = FALSE]
    <2>1. y \in Runtimes /\ y.client = rt[p].client /\ y.pairing = "qr"
      BY <1>1 DEF Runtimes
    <2>2. rt' = [rt EXCEPT ![p] = y]
      BY <1>1, <1>7
    <2> HIDE DEF y
    <2> QED BY <1>2, <2>1, <2>2
  <1>8. ASSUME NEW c \in Clients \union {None},
               rt' = [rt EXCEPT ![p].client = c, ![p].healthy = TRUE, ![p].revoked = FALSE, ![p].pairing = "none",
                                ![p].aborted = FALSE]
        PROVE  Has(p, c, "none")
    <2> DEFINE y == [rt[p] EXCEPT !.client = c, !.healthy = TRUE, !.revoked = FALSE, !.pairing = "none", !.aborted = FALSE]
    <2>1. y \in Runtimes /\ y.client = c /\ y.pairing = "none"
      BY <1>1 DEF Runtimes
    <2>2. rt' = [rt EXCEPT ![p] = y]
      BY <1>1, <1>8
    <2> HIDE DEF y
    <2> QED BY <1>2, <2>1, <2>2
  <1>10. ASSUME NEW b \in BOOLEAN,
                rt' = [[rt EXCEPT ![p].aborted = b] EXCEPT ![p].client = None, ![p].healthy = FALSE]
         PROVE  Has(p, None, rt[p].pairing)
    <2> DEFINE y == [rt[p] EXCEPT !.aborted = b, !.client = None, !.healthy = FALSE]
    <2>1. y \in Runtimes /\ y.client = None /\ y.pairing = rt[p].pairing
      BY <1>1 DEF Runtimes
    <2>2. rt' = [rt EXCEPT ![p] = y]
      BY <1>1, <1>10
    <2> HIDE DEF y
    <2> QED BY <1>2, <2>1, <2>2
  <1> QED BY <1>3, <1>4, <1>5, <1>6, <1>7, <1>8, <1>9, <1>10

LEMMA HeldIs ==
    ASSUME TypeInv, NEW p \in Procs, NEW t \in Tasks
    PROVE  /\ UNCHANGED lockVars => UNCHANGED held
           /\ Locks!Acquire(p, t, Session) => UNCHANGED held
           /\ Locks!Return(p, t) => UNCHANGED held
           /\ GiveBack(p, t) => Elsewhere(p)
PROOF
  <1>1. held \in [Procs -> SUBSET {Session}]
    BY DEF TypeInv, TypeOK, Locks!TypeOK
  <1> QED BY <1>1 DEF lockVars, Locks!Acquire, Locks!Return, Locks!Release, GiveBack, Elsewhere

LEMMA PairEffect ==
    ASSUME TypeInv, NEW p \in Procs, NEW t \in Tasks, Pair(p, t)
    PROVE  /\ From(p, t, "pair") /\ UNCHANGED <<row, valid, made, live, rt, held>>
           /\ \/ To(p, t, "idle", NoRow, None)
              \/ To(p, t, "pair_lock", task[p][t].row, task[p][t].client) /\ rt[p].pairing = "none" /\ task[p][t].row.enc = None
PROOF
  <1>1. "pair_lock" \in Pcs /\ None \in Clients \union {None}
    BY DEF Pcs
  <1> QED BY <1>1, MoveIs, HasIs, HeldIs, TaskIs DEF Pair, At, From

LEMMA PairLockedEffect ==
    ASSUME TypeInv, NEW p \in Procs, NEW t \in Tasks, PairLocked(p, t)
    PROVE  /\ From(p, t, "pair_lock") /\ call[p][t].op = "yes" /\ UNCHANGED <<row, valid, made, live, held>>
           /\ \/ To(p, t, "idle", NoRow, None) /\ SameRuntime(p)
              \/ To(p, t, "sign_in", task[p][t].row, task[p][t].client) /\ rt[p].pairing = "none" /\ Has(p, rt[p].client, "qr")
PROOF
  <1>1. "sign_in" \in Pcs /\ None \in Clients \union {None}
    BY DEF Pcs
  <1> QED BY <1>1, MoveIs, HasIs, HeldIs, TaskIs DEF PairLocked, Told, From

LEMMA AnswerEffect ==
    ASSUME TypeInv, NEW p \in Procs, NEW t \in Tasks, HeldElsewhere(p, t) \/ LockError(p, t)
    PROVE  /\ task[p][t].pc \in {"pair_lock", "reconnect_lock", "logout_lock", "resume_lock"}
           /\ UNCHANGED <<row, valid, made, live, held, closing, up, spent>>
           /\ To(p, t, "idle", NoRow, None) /\ SameRuntime(p)
PROOF
  <1>1. "idle" \in Pcs /\ None \in Clients \union {None}
    BY DEF Pcs
  <1> QED BY <1>1, MoveIs, HasIs, HeldIs, TaskIs DEF HeldElsewhere, LockError, Told

LEMMA PasswordEffect ==
    ASSUME TypeInv, NEW p \in Procs, NEW t \in Tasks, AskPassword(p, t) \/ WrongPassword(p, t) \/ SubmitPassword(p)
    PROVE  /\ UNCHANGED <<row, valid, made, live, task, held, closing, up, spent>>
           /\ rt[p].pairing # "none" /\ \E x \in {"qr", "password", "checking"} : Has(p, rt[p].client, x)
PROOF
  <1>1. "idle" \in Pcs /\ None \in Clients \union {None}
    BY DEF Pcs
  <1> QED BY <1>1, MoveIs, HasIs, HeldIs, TaskIs DEF AskPassword, WrongPassword, SubmitPassword, At

LEMMA SignedInEffect ==
    ASSUME TypeInv, NEW p \in Procs, NEW t \in Tasks, SignedIn(p, t)
    PROVE  /\ From(p, t, "sign_in") /\ UNCHANGED <<row, rt, held>>
           /\ made < MaxKeys /\ made' = made + 1 /\ valid' = valid \union {made'}
           /\ \E c \in Clients : NewClient(p, c, made') /\ To(p, t, "save_key", task[p][t].row, c)
PROOF
  <1>1. "save_key" \in Pcs /\ None \in Clients \union {None}
    BY DEF Pcs
  <1> QED BY <1>1, MoveIs, HasIs, HeldIs, TaskIs DEF SignedIn, At, From

LEMMA SaveKeyEffect ==
    ASSUME TypeInv, NEW p \in Procs, NEW t \in Tasks, SaveKey(p, t)
    PROVE  /\ From(p, t, "save_key") /\ UNCHANGED <<valid, made, live, rt, held>>
           /\ \E l \in live : l.id = task[p][t].client /\ row' = [row EXCEPT !.enc = l.key, !.revoked = FALSE]
           /\ To(p, t, "claim", task[p][t].row, task[p][t].client)
PROOF
  <1>1. "claim" \in Pcs /\ None \in Clients \union {None}
    BY DEF Pcs
  <1> QED BY <1>1, MoveIs, HasIs, HeldIs, TaskIs DEF SaveKey, At, From

LEMMA LinkedEffect ==
    ASSUME TypeInv, NEW p \in Procs, NEW t \in Tasks, Linked(p, t)
    PROVE  /\ From(p, t, "claim") /\ row' = [row EXCEPT !.me = TRUE] /\ UNCHANGED <<valid, made, live, held>>
           /\ To(p, t, "idle", NoRow, None) /\ Has(p, task[p][t].client, "none")
PROOF
  <1>1. "idle" \in Pcs /\ None \in Clients \union {None}
    BY DEF Pcs
  <1> QED BY <1>1, MoveIs, HasIs, HeldIs, TaskIs DEF Linked, At, From

LEMMA PairingFailsEffect ==
    ASSUME TypeInv, NEW p \in Procs, NEW t \in Tasks, PairingFails(p, t)
    PROVE  /\ task[p][t].pc \in {"sign_in", "save_key", "claim"} /\ UNCHANGED <<row, valid, made, rt, closing, up, spent>>
           /\ live' = Destroy(task[p][t].client) /\ Elsewhere(p)
           /\ To(p, t, "pairing_over", task[p][t].row, None)
PROOF
  <1>1. "pairing_over" \in Pcs /\ None \in Clients \union {None}
    BY DEF Pcs
  <1> QED BY <1>1, MoveIs, HasIs, HeldIs, TaskIs DEF PairingFails, At

LEMMA PairingOverEffect ==
    ASSUME TypeInv, NEW p \in Procs, NEW t \in Tasks, PairingOver(p, t)
    PROVE  /\ From(p, t, "pairing_over") /\ UNCHANGED <<row, valid, made, live, held>>
           /\ To(p, t, "idle", NoRow, None) /\ Has(p, rt[p].client, "none")
PROOF
  <1>1. "idle" \in Pcs /\ None \in Clients \union {None}
    BY DEF Pcs
  <1> QED BY <1>1, MoveIs, HasIs, HeldIs, TaskIs DEF PairingOver, At, From

LEMMA ResumedEffect ==
    ASSUME TypeInv, NEW p \in Procs, NEW t \in Tasks, Resumed(p, t)
    PROVE  /\ From(p, t, "resume_lock") /\ call[p][t].op = "yes" /\ UNCHANGED <<row, valid, made, held>>
           /\ \E c \in Clients : /\ NewClient(p, c, task[p][t].row.enc) /\ Has(p, c, rt[p].pairing)
                                 /\ To(p, t, "connect", task[p][t].row, c)
PROOF
  <1>1. "connect" \in Pcs /\ None \in Clients \union {None}
    BY DEF Pcs
  <1> QED BY <1>1, MoveIs, HasIs, HeldIs, TaskIs DEF Resumed, Told, From

LEMMA ConnectedEffect ==
    ASSUME TypeInv, NEW p \in Procs, NEW t \in Tasks, Connected(p, t)
    PROVE  /\ From(p, t, "connect") /\ UNCHANGED <<row, valid, made, live, held>>
           /\ To(p, t, "record_me", task[p][t].row, task[p][t].client) /\ SameRuntime(p)
PROOF
  <1>1. "record_me" \in Pcs /\ None \in Clients \union {None}
    BY DEF Pcs
  <1> QED BY <1>1, MoveIs, HasIs, HeldIs, TaskIs DEF Connected, At, From

LEMMA RecordMeEffect ==
    ASSUME TypeInv, NEW p \in Procs, NEW t \in Tasks, RecordMe(p, t)
    PROVE  /\ From(p, t, "record_me") /\ row' = [row EXCEPT !.me = TRUE] /\ UNCHANGED <<valid, made, live, rt, held>>
           /\ To(p, t, "idle", NoRow, None)
PROOF
  <1>1. "idle" \in Pcs /\ None \in Clients \union {None}
    BY DEF Pcs
  <1> QED BY <1>1, MoveIs, HasIs, HeldIs, TaskIs DEF RecordMe, At, From

LEMMA ConnectFailsEffect ==
    ASSUME TypeInv, NEW p \in Procs, NEW t \in Tasks, ConnectFails(p, t)
    PROVE  /\ task[p][t].pc \in {"connect", "record_me"} /\ UNCHANGED <<row, valid, made, held, closing, up, spent>>
           /\ live' = Destroy(rt[p].client) /\ Has(p, None, rt[p].pairing) /\ To(p, t, "idle", NoRow, None)
PROOF
  <1>1. "idle" \in Pcs /\ None \in Clients \union {None}
    BY DEF Pcs
  <1> QED BY <1>1, MoveIs, HasIs, HeldIs, TaskIs DEF ConnectFails, Dispose, At

LEMMA RefusedEffect ==
    ASSUME TypeInv, NEW p \in Procs, NEW t \in Tasks, Refused(p, t)
    PROVE  /\ task[p][t].pc \in {"connect", "probe"} /\ UNCHANGED <<row, valid, made, held, closing, up, spent>>
           /\ live' = Destroy(rt[p].client) /\ Has(p, None, rt[p].pairing)
           /\ To(p, t, "mark_revoked", task[p][t].row, task[p][t].client)
PROOF
  <1>1. "mark_revoked" \in Pcs /\ None \in Clients \union {None}
    BY DEF Pcs
  <1> QED BY <1>1, MoveIs, HasIs, HeldIs, TaskIs DEF Refused, Dispose, At

LEMMA MarkRevokedEffect ==
    ASSUME TypeInv, NEW p \in Procs, NEW t \in Tasks, MarkRevoked(p, t)
    PROVE  /\ From(p, t, "mark_revoked") /\ row' = [row EXCEPT !.enc = None, !.revoked = TRUE] /\ UNCHANGED <<valid, made, live>>
           /\ To(p, t, "done", task[p][t].row, task[p][t].client) /\ SameRuntime(p) /\ Elsewhere(p)
PROOF
  <1>1. "done" \in Pcs /\ None \in Clients \union {None}
    BY DEF Pcs
  <1> QED BY <1>1, MoveIs, HasIs, HeldIs, TaskIs DEF MarkRevoked, At, From

LEMMA DoneEffect ==
    ASSUME TypeInv, NEW p \in Procs, NEW t \in Tasks, MarkRevokedFails(p, t) \/ Done(p, t)
    PROVE  /\ task[p][t].pc \in {"mark_revoked", "done"} /\ UNCHANGED <<row, valid, made, live, rt, held, closing, up, spent>>
           /\ To(p, t, "idle", NoRow, None)
PROOF
  <1>1. "idle" \in Pcs /\ None \in Clients \union {None}
    BY DEF Pcs
  <1> QED BY <1>1, MoveIs, HasIs, HeldIs, TaskIs DEF MarkRevokedFails, Done, At

LEMMA ReconnectEffect ==
    ASSUME TypeInv, NEW p \in Procs, NEW t \in Tasks, Reconnect(p, t)
    PROVE  /\ From(p, t, "reconnect") /\ UNCHANGED <<row, valid, made, live, rt, held>>
           /\ To(p, t, "idle", NoRow, None) \/ To(p, t, "reconnect_lock", task[p][t].row, task[p][t].client)
PROOF
  <1>1. "reconnect_lock" \in Pcs /\ None \in Clients \union {None}
    BY DEF Pcs
  <1> QED BY <1>1, MoveIs, HasIs, HeldIs, TaskIs DEF Reconnect, At, From

LEMMA ReconnectLockedEffect ==
    ASSUME TypeInv, NEW p \in Procs, NEW t \in Tasks, ReconnectLocked(p, t)
    PROVE  /\ From(p, t, "reconnect_lock") /\ call[p][t].op = "yes" /\ UNCHANGED <<row, valid, made, live, held>>
           /\ To(p, t, "reconnect_drop", task[p][t].row, rt[p].client) /\ SameRuntime(p)
PROOF
  <1>1. "reconnect_drop" \in Pcs /\ None \in Clients \union {None}
    BY DEF Pcs
  <1> QED BY <1>1, MoveIs, HasIs, HeldIs, TaskIs DEF ReconnectLocked, Told, From

LEMMA ReconnectDropEffect ==
    ASSUME TypeInv, NEW p \in Procs, NEW t \in Tasks, ReconnectDrop(p, t)
    PROVE  /\ From(p, t, "reconnect_drop") /\ UNCHANGED <<row, valid, made, held>>
           /\ live' = Destroy(task[p][t].client) /\ Has(p, None, rt[p].pairing)
           /\ To(p, t, "reconnect_row", task[p][t].row, None)
PROOF
  <1>1. "reconnect_row" \in Pcs /\ None \in Clients \union {None}
    BY DEF Pcs
  <1> QED BY <1>1, MoveIs, HasIs, HeldIs, TaskIs DEF ReconnectDrop, At, From

LEMMA ReconnectRowEffect ==
    ASSUME TypeInv, NEW p \in Procs, NEW t \in Tasks, ReconnectRow(p, t)
    PROVE  /\ From(p, t, "reconnect_row") /\ UNCHANGED <<row, valid, made, live, rt, held>>
           /\ To(p, t, "resume", row, task[p][t].client)
PROOF
  <1>1. "resume" \in Pcs /\ None \in Clients \union {None}
    BY DEF Pcs
  <1> QED BY <1>1, MoveIs, HasIs, HeldIs, TaskIs DEF ReconnectRow, At, From, TypeInv, TypeOK

LEMMA ResumeEffect ==
    ASSUME TypeInv, NEW p \in Procs, NEW t \in Tasks, Resume(p, t)
    PROVE  /\ UNCHANGED held
           /\ \/ To(p, t, "idle", NoRow, None)
              \/ /\ To(p, t, "resume_lock", task[p][t].row, task[p][t].client)
                 /\ rt[p].client = None /\ rt[p].pairing = "none" /\ task[p][t].row.enc # None
PROOF
  <1>1. "resume_lock" \in Pcs /\ None \in Clients \union {None}
    BY DEF Pcs
  <1> QED BY <1>1, MoveIs, HasIs, HeldIs, TaskIs DEF Resume

LEMMA ReconnectResumeEffect ==
    ASSUME TypeInv, NEW p \in Procs, NEW t \in Tasks, ReconnectResume(p, t)
    PROVE  /\ From(p, t, "resume") /\ UNCHANGED <<row, valid, made, live, rt, held>>
           /\ \/ To(p, t, "idle", NoRow, None)
              \/ /\ To(p, t, "resume_lock", task[p][t].row, task[p][t].client)
                 /\ rt[p].client = None /\ rt[p].pairing = "none" /\ task[p][t].row.enc # None
PROOF
  <1>1. "resume_lock" \in Pcs /\ None \in Clients \union {None}
    BY DEF Pcs
  <1> QED BY <1>1, ResumeEffect DEF ReconnectResume, At, From

LEMMA LogoutEffect ==
    ASSUME TypeInv, NEW p \in Procs, NEW t \in Tasks, Logout(p, t)
    PROVE  /\ From(p, t, "logout") /\ UNCHANGED <<row, valid, made, held>>
           /\ \/ /\ task[p][t].row.enc = None /\ live' = Destroy(rt[p].client) /\ Has(p, None, rt[p].pairing)
                 /\ To(p, t, "forget", task[p][t].row, task[p][t].client)
              \/ /\ task[p][t].row.enc # None /\ UNCHANGED live /\ SameRuntime(p)
                 /\ To(p, t, "logout_lock", task[p][t].row, task[p][t].client)
PROOF
  <1>1. "forget" \in Pcs /\ "logout_lock" \in Pcs /\ (rt[p].pairing # "none") \in BOOLEAN
    BY DEF Pcs
  <1>2. CASE task[p][t].row.enc = None
    BY <1>1, <1>2, MoveIs, HasIs, HeldIs DEF Logout, At, From
  <1>3. CASE task[p][t].row.enc # None
    BY <1>1, <1>3, MoveIs, HasIs, HeldIs DEF Logout, At, From
  <1> QED BY <1>2, <1>3

LEMMA LogoutLockedEffect ==
    ASSUME TypeInv, NEW p \in Procs, NEW t \in Tasks, LogoutLocked(p, t)
    PROVE  /\ From(p, t, "logout_lock") /\ call[p][t].op = "yes" /\ UNCHANGED <<row, valid, made, held>>
           /\ To(p, t, "log_out", task[p][t].row, task[p][t].client)
           /\ \/ rt[p].client # None /\ UNCHANGED live /\ SameRuntime(p)
              \/ rt[p].client = None /\ \E c \in Clients : NewClient(p, c, task[p][t].row.enc) /\ Has(p, c, rt[p].pairing)
PROOF
  <1>1. "log_out" \in Pcs /\ None \in Clients \union {None}
    BY DEF Pcs
  <1> QED BY <1>1, MoveIs, HasIs, HeldIs, TaskIs DEF LogoutLocked, Told, From

LEMMA LogOutEffect ==
    ASSUME TypeInv, NEW p \in Procs, NEW t \in Tasks, LogOut(p, t)
    PROVE  /\ From(p, t, "log_out") /\ valid' \subseteq valid /\ UNCHANGED <<row, made, live, rt, held>>
           /\ To(p, t, "logged_out", task[p][t].row, task[p][t].client)
PROOF
  <1>1. "logged_out" \in Pcs /\ None \in Clients \union {None}
    BY DEF Pcs
  <1> QED BY <1>1, MoveIs, HasIs, HeldIs, TaskIs DEF LogOut, At, From

LEMMA LoggedOutEffect ==
    ASSUME TypeInv, NEW p \in Procs, NEW t \in Tasks, LoggedOut(p, t)
    PROVE  /\ From(p, t, "logged_out") /\ UNCHANGED <<row, valid, made, held>>
           /\ live' = Destroy(rt[p].client) /\ Has(p, None, rt[p].pairing)
           /\ To(p, t, "forget", task[p][t].row, task[p][t].client)
PROOF
  <1>1. "forget" \in Pcs /\ None \in Clients \union {None}
    BY DEF Pcs
  <1> QED BY <1>1, MoveIs, HasIs, HeldIs, TaskIs DEF LoggedOut, Dispose, At, From

LEMMA ForgetEffect ==
    ASSUME TypeInv, NEW p \in Procs, NEW t \in Tasks, Forget(p, t)
    PROVE  /\ From(p, t, "forget") /\ row' = NoRow /\ UNCHANGED <<valid, made, live>>
           /\ To(p, t, "done", task[p][t].row, task[p][t].client) /\ SameRuntime(p) /\ Elsewhere(p)
PROOF
  <1>1. "done" \in Pcs /\ None \in Clients \union {None}
    BY DEF Pcs
  <1> QED BY <1>1, MoveIs, HasIs, HeldIs, TaskIs DEF Forget, At, From

LEMMA TickReadEffect ==
    ASSUME TypeInv, NEW p \in Procs, TickRead(p)
    PROVE  /\ From(p, Tick, "idle") /\ UNCHANGED <<row, valid, made, live, rt, held>>
           /\ To(p, Tick, "tick_drop", row, None)
PROOF
  <1>1. "tick_drop" \in Pcs /\ None \in Clients \union {None} /\ Tick \in Tasks
    BY DEF Pcs, Tasks
  <1> QED BY <1>1, ToIs, HeldIs DEF TickRead, At, From, TypeInv, TypeOK
LEMMA TickDropEffect ==
    ASSUME TypeInv, NEW p \in Procs, TickDrop(p)
    PROVE  /\ From(p, Tick, "tick_drop") /\ UNCHANGED <<row, valid, made>> /\ Elsewhere(p)
           /\ \/ /\ task[p][Tick].row.enc # None \/ rt[p].pairing # "none"
                 /\ UNCHANGED <<live, rt, held>> /\ To(p, Tick, "tick_row", task[p][Tick].row, task[p][Tick].client)
              \/ /\ rt[p].pairing = "none" /\ UNCHANGED held
                 /\ live' = Destroy(rt[p].client) /\ Has(p, None, rt[p].pairing)
                 /\ To(p, Tick, "tick_release", task[p][Tick].row, task[p][Tick].client)
              \/ /\ rt[p].pairing = "none" /\ rt[p].client = None /\ UNCHANGED <<live, rt>>
                 /\ To(p, Tick, "tick_row", task[p][Tick].row, task[p][Tick].client)
PROOF
  <1>1. "tick_row" \in Pcs /\ "tick_release" \in Pcs /\ None \in Clients \union {None} /\ Tick \in Tasks
    BY DEF Pcs, Tasks
  <1> QED BY <1>1, MoveIs, HasIs, HeldIs, TaskIs DEF TickDrop, Dispose, At, From, Elsewhere
LEMMA TickReleaseEffect ==
    ASSUME TypeInv, NEW p \in Procs, TickRelease(p)
    PROVE  /\ From(p, Tick, "tick_release") /\ UNCHANGED <<row, valid, made, live, rt>> /\ Elsewhere(p)
           /\ To(p, Tick, "tick_row", task[p][Tick].row, task[p][Tick].client)
PROOF
  <1>1. "tick_row" \in Pcs /\ None \in Clients \union {None} /\ Tick \in Tasks
    BY DEF Pcs, Tasks
  <1> QED BY <1>1, MoveIs, HasIs, HeldIs, TaskIs DEF TickRelease, At, From
LEMMA TickRowEffect ==
    ASSUME TypeInv, NEW p \in Procs, TickRow(p)
    PROVE  /\ From(p, Tick, "tick_row") /\ UNCHANGED <<row, valid, made, live, held>> /\ SameRuntime(p)
           /\ \/ To(p, Tick, "idle", NoRow, None)
              \/ /\ To(p, Tick, "resume_lock", task[p][Tick].row, task[p][Tick].client)
                 /\ rt[p].client = None /\ rt[p].pairing = "none" /\ task[p][Tick].row.enc # None
              \/ /\ To(p, Tick, "probe", task[p][Tick].row, rt[p].client)
                 /\ rt[p].client # None /\ rt[p].pairing = "none"
PROOF
  <1>1. "probe" \in Pcs /\ None \in Clients \union {None} /\ Tick \in Tasks
    BY DEF Pcs, Tasks
  <1> QED BY <1>1, MoveIs, HasIs, HeldIs, TaskIs, ResumeEffect DEF TickRow, At, From
LEMMA ProbeEffect ==
    ASSUME TypeInv, NEW p \in Procs, ProbeOk(p) \/ ProbeFails(p)
    PROVE  /\ From(p, Tick, "probe") /\ UNCHANGED <<row, valid, made, live, held>>
           /\ To(p, Tick, "idle", NoRow, None) /\ SameRuntime(p)
PROOF
  <1>1. "idle" \in Pcs /\ None \in Clients \union {None} /\ Tick \in Tasks
    BY DEF Pcs, Tasks
  <1> QED BY <1>1, MoveIs, HasIs, HeldIs, TaskIs DEF ProbeOk, ProbeFails, At, From

LEMMA RequestEffect ==
    ASSUME TypeInv, NEW p \in Procs, NEW t \in Tasks, NEW r \in Requests, Request(p, t, r)
    PROVE  /\ task[p][t].pc = "idle" /\ t \in Slots /\ r \in {"pair", "reconnect", "logout"}
           /\ To(p, t, r, row, None) /\ UNCHANGED <<lockVars, row, valid, made, live, rt, closing, up>>
           /\ spent.requests < MaxRequests /\ spent' = [spent EXCEPT !.requests = @ + 1]
PROOF
  <1>1. r \in {"pair", "reconnect", "logout"} /\ r \in Pcs
    BY BridgeAssumption DEF Pcs
  <1> QED BY <1>1, ToIs DEF Request, At, TypeInv, TypeOK

-----------------------------------------------------------------------------
(* Types. *)

LiveStates == [id : Clients, proc : Procs, key : Keys]
SpentStates == [requests : 0 .. MaxRequests, revoked : 0 .. MaxRevoked, crashes : 0 .. MaxCrashes, drops : 0 .. MaxDrops]

\* What a task's step may write besides the task and the Runtime.
WorldOK == row \in Rows /\ valid \subseteq Keys /\ made \in 0 .. MaxKeys /\ live \subseteq LiveStates

LEMMA WorldNow == TypeInv => WorldOK
  BY DEF TypeInv, TypeOK, WorldOK, LiveStates

LEMMA TypeFrom ==
    ASSUME TypeInv, LocksInv', WorldOK', rt' \in [Procs -> Runtimes], UNCHANGED <<closing, up, spent>>,
           \/ UNCHANGED task
           \/ \E p \in Procs, t \in Tasks, pc \in Pcs, r \in Rows, c \in Clients \union {None} :
                 To(p, t, pc, r, c) /\ (pc \in {"resume_lock", "logout_lock"} => r.enc # None)
    PROVE  TypeInv'
PROOF
  <1>1. Locks!TypeOK'
    BY DEF LocksInv, LockProofs!IInv, LockProofs!TypeOK, Locks!TypeOK, LockProofs!Calls, Locks!Calls,
           LockProofs!Ops, Locks!Ops
  <1>2. task' \in [Procs -> [Tasks -> TaskStates]]
    BY DEF To, TypeInv, TypeOK, TaskStates
  <1>3. \A p \in Procs, t \in Tasks : task'[p][t].pc \in {"resume_lock", "logout_lock"} => task'[p][t].row.enc # None
    <2>1. CASE UNCHANGED task
      BY <2>1 DEF TypeInv
    <2>2. ASSUME NEW p \in Procs, NEW t \in Tasks, NEW pc \in Pcs, NEW r \in Rows, NEW c \in Clients \union {None},
                 To(p, t, pc, r, c), pc \in {"resume_lock", "logout_lock"} => r.enc # None,
                 NEW q \in Procs, NEW u \in Tasks, task'[q][u].pc \in {"resume_lock", "logout_lock"}
          PROVE  task'[q][u].row.enc # None
      <3>1. CASE <<q, u>> = <<p, t>>
        <4>1. task'[q][u] = [pc |-> pc, row |-> r, client |-> c]
          BY <2>2, <3>1 DEF To
        <4> QED BY <2>2, <4>1
      <3>2. CASE <<q, u>> # <<p, t>>
        <4>1. task'[q][u] = task[q][u]
          BY <2>2, <3>2 DEF To
        <4> QED BY <2>2, <4>1 DEF TypeInv
      <3> QED BY <3>1, <3>2
    <2> QED BY <2>1, <2>2
  <1> QED BY <1>1, <1>2, <1>3 DEF TypeInv, TypeOK, WorldOK, LiveStates, TaskStates

LEMMA DestroyType ==
    ASSUME TypeInv, NEW c, live' = Destroy(c), UNCHANGED <<row, valid, made>>
    PROVE  WorldOK'
  BY WorldNow DEF WorldOK, Destroy

LEMMA NewClientType ==
    ASSUME TypeInv, NEW p \in Procs, NEW c, NEW k \in Keys, NewClient(p, c, k)
    PROVE  live' \subseteq LiveStates
PROOF
  <1>1. c \in Clients /\ live' = live \union {[id |-> c, proc |-> p, key |-> k]} /\ live \subseteq LiveStates
    BY DEF NewClient, TypeInv, TypeOK, LiveStates
  <1>2. [id |-> c, proc |-> p, key |-> k] \in LiveStates
    BY <1>1 DEF LiveStates
  <1> QED BY <1>1, <1>2

LEMMA RowType ==
    ASSUME TypeInv
    PROVE  /\ NoRow \in Rows /\ NoRow.enc = None
           /\ [row EXCEPT !.me = TRUE] \in Rows /\ [row EXCEPT !.me = TRUE].enc = row.enc
           /\ [row EXCEPT !.enc = None, !.revoked = TRUE] \in Rows
           /\ [row EXCEPT !.enc = None, !.revoked = TRUE].enc = None
           /\ \A k \in Keys : /\ [row EXCEPT !.enc = k, !.revoked = FALSE] \in Rows
                              /\ [row EXCEPT !.enc = k, !.revoked = FALSE].enc = k
  BY DEF TypeInv, TypeOK, Rows, NoRow

\* The step of t, wherever it goes.
LEMMA StepType ==
    ASSUME TypeInv, LocksInv', WorldOK', rt' \in [Procs -> Runtimes], UNCHANGED <<closing, up, spent>>,
           NEW p \in Procs, NEW t \in Tasks, NEW pc \in Pcs, NEW r, NEW c, To(p, t, pc, r, c),
           pc \in {"resume_lock", "logout_lock"} => r.enc # None
    PROVE  TypeInv'
PROOF
  <1>1. [pc |-> pc, row |-> r, client |-> c] \in TaskStates
    BY DEF To
  <1>2. r \in Rows /\ c \in Clients \union {None}
    BY <1>1 DEF TaskStates
  <1> QED BY <1>2, TypeFrom

LEMMA RequestType ==
    ASSUME TypeInv, LocksInv', NEW p \in Procs, NEW t \in Slots, RequestStep(p, t)
    PROVE  TypeInv'
PROOF
  <1> USE DEF Has, SameRuntime, From
  <1>0. t \in Tasks /\ WorldOK /\ rt \in [Procs -> Runtimes]
    BY WorldNow DEF Tasks, TypeInv, TypeOK
  <1>1. ASSUME Pair(p, t) PROVE TypeInv'
    BY <1>0, <1>1, PairEffect, StepType DEF WorldOK, Pcs
  <1>2. ASSUME PairLocked(p, t) PROVE TypeInv'
    BY <1>0, <1>2, PairLockedEffect, StepType DEF WorldOK, Pcs
  <1>3. ASSUME AskPassword(p, t) \/ WrongPassword(p, t) PROVE TypeInv'
    BY <1>0, <1>3, PasswordEffect, TypeFrom DEF WorldOK
  <1>4. ASSUME SignedIn(p, t) PROVE TypeInv'
    <2>1. made' \in Keys /\ made' \in 0 .. MaxKeys /\ valid' \subseteq Keys
      <3>1. made < MaxKeys /\ made' = made + 1 /\ valid' = valid \union {made'}
        BY <1>0, <1>4, SignedInEffect
      <3>2. made \in 0 .. MaxKeys /\ valid \subseteq Keys
        BY <1>0 DEF WorldOK
      <3>3. made' \in 1 .. MaxKeys /\ made' \in 0 .. MaxKeys
        BY <3>1, <3>2, Bounds
      <3> QED BY <3>1, <3>2, <3>3 DEF Keys
    <2>2. PICK c \in Clients : NewClient(p, c, made') /\ To(p, t, "save_key", task[p][t].row, c)
      BY <1>0, <1>4, SignedInEffect
    <2>3. live' \subseteq LiveStates
      BY <2>1, <2>2, NewClientType
    <2>4. WorldOK' /\ rt' \in [Procs -> Runtimes] /\ UNCHANGED <<closing, up, spent>>
      BY <1>0, <1>4, <2>1, <2>3, SignedInEffect DEF WorldOK
    <2>5. "save_key" \in Pcs
      BY DEF Pcs
    <2> QED BY <1>0, <2>2, <2>4, <2>5, StepType
  <1>5. ASSUME SaveKey(p, t) PROVE TypeInv'
    <2>1. PICK l \in live : row' = [row EXCEPT !.enc = l.key, !.revoked = FALSE]
      BY <1>0, <1>5, SaveKeyEffect
    <2>2. l.key \in Keys
      BY <1>0, <2>1 DEF WorldOK, LiveStates
    <2>3. row' \in Rows
      BY <2>1, <2>2, RowType
    <2>4. WorldOK' /\ rt' \in [Procs -> Runtimes] /\ UNCHANGED <<closing, up, spent>>
      BY <1>0, <1>5, <2>3, SaveKeyEffect DEF WorldOK
    <2>5. "claim" \in Pcs
      BY DEF Pcs
    <2> QED BY <1>0, <1>5, <2>4, <2>5, SaveKeyEffect, StepType
  <1>6. ASSUME Linked(p, t) PROVE TypeInv'
    BY <1>0, <1>6, LinkedEffect, StepType, RowType DEF WorldOK, Pcs
  <1>7. ASSUME PairingFails(p, t) PROVE TypeInv'
    BY <1>0, <1>7, PairingFailsEffect, StepType, DestroyType DEF Pcs
  <1>8. ASSUME PairingOver(p, t) PROVE TypeInv'
    BY <1>0, <1>8, PairingOverEffect, StepType DEF WorldOK, Pcs
  <1>9. ASSUME Reconnect(p, t) PROVE TypeInv'
    BY <1>0, <1>9, ReconnectEffect, StepType DEF WorldOK, Pcs
  <1>10. ASSUME ReconnectLocked(p, t) PROVE TypeInv'
    BY <1>0, <1>10, ReconnectLockedEffect, StepType DEF WorldOK, Pcs
  <1>11. ASSUME ReconnectDrop(p, t) PROVE TypeInv'
    BY <1>0, <1>11, ReconnectDropEffect, StepType, DestroyType DEF Pcs
  <1>12. ASSUME ReconnectRow(p, t) PROVE TypeInv'
    BY <1>0, <1>12, ReconnectRowEffect, StepType DEF WorldOK, Pcs
  <1>13. ASSUME ReconnectResume(p, t) PROVE TypeInv'
    BY <1>0, <1>13, ReconnectResumeEffect, StepType DEF WorldOK, Pcs
  <1>14. ASSUME Logout(p, t) PROVE TypeInv'
    BY <1>0, <1>14, LogoutEffect, StepType, DestroyType DEF WorldOK, Pcs
  <1>15. ASSUME LogoutLocked(p, t) PROVE TypeInv'
    <2>1. task[p][t].row.enc \in Keys
      BY <1>0, <1>15, LogoutLockedEffect, TaskIs DEF TypeInv
    <2> QED BY <1>0, <1>15, <2>1, LogoutLockedEffect, StepType, NewClientType DEF WorldOK, Pcs
  <1>16. ASSUME LogOut(p, t) PROVE TypeInv'
    BY <1>0, <1>16, LogOutEffect, StepType DEF WorldOK, Pcs
  <1>17. ASSUME LoggedOut(p, t) PROVE TypeInv'
    BY <1>0, <1>17, LoggedOutEffect, StepType, DestroyType DEF Pcs
  <1>18. ASSUME Forget(p, t) PROVE TypeInv'
    <2>1. WorldOK' /\ rt' \in [Procs -> Runtimes] /\ UNCHANGED <<closing, up, spent>>
      BY <1>0, <1>18, ForgetEffect, RowType DEF WorldOK
    <2>2. "done" \in Pcs
      BY DEF Pcs
    <2> QED BY <1>0, <1>18, <2>1, <2>2, ForgetEffect, StepType
  <1> QED BY <1>1, <1>2, <1>3, <1>4, <1>5, <1>6, <1>7, <1>8, <1>9, <1>10, <1>11, <1>12, <1>13, <1>14, <1>15, <1>16,
             <1>17, <1>18 DEF RequestStep

LEMMA ResumeType ==
    ASSUME TypeInv, LocksInv', NEW p \in Procs, NEW t \in Tasks, ResumeStep(p, t)
    PROVE  TypeInv'
PROOF
  <1> USE DEF Has, SameRuntime, From
  <1>0. WorldOK /\ rt \in [Procs -> Runtimes]
    BY WorldNow DEF TypeInv, TypeOK
  <1>1. ASSUME HeldElsewhere(p, t) \/ LockError(p, t) PROVE TypeInv'
    BY <1>0, <1>1, AnswerEffect, StepType DEF WorldOK, Pcs
  <1>2. ASSUME Resumed(p, t) PROVE TypeInv'
    <2>1. task[p][t].row.enc \in Keys
      BY <1>0, <1>2, ResumedEffect, TaskIs DEF TypeInv
    <2> QED BY <1>0, <1>2, <2>1, ResumedEffect, StepType, NewClientType DEF WorldOK, Pcs
  <1>3. ASSUME Connected(p, t) PROVE TypeInv'
    BY <1>0, <1>3, ConnectedEffect, StepType DEF WorldOK, Pcs
  <1>4. ASSUME RecordMe(p, t) PROVE TypeInv'
    BY <1>0, <1>4, RecordMeEffect, StepType, RowType DEF WorldOK, Pcs
  <1>5. ASSUME ConnectFails(p, t) PROVE TypeInv'
    BY <1>0, <1>5, ConnectFailsEffect, StepType, DestroyType DEF Pcs
  <1>6. ASSUME Refused(p, t) PROVE TypeInv'
    BY <1>0, <1>6, RefusedEffect, StepType, DestroyType DEF Pcs
  <1>7. ASSUME MarkRevoked(p, t) PROVE TypeInv'
    <2>1. WorldOK' /\ rt' \in [Procs -> Runtimes] /\ UNCHANGED <<closing, up, spent>>
      BY <1>0, <1>7, MarkRevokedEffect, RowType DEF WorldOK
    <2>2. "done" \in Pcs
      BY DEF Pcs
    <2> QED BY <1>0, <1>7, <2>1, <2>2, MarkRevokedEffect, StepType
  <1>8. ASSUME MarkRevokedFails(p, t) \/ Done(p, t) PROVE TypeInv'
    BY <1>0, <1>8, DoneEffect, StepType DEF WorldOK, Pcs
  <1> QED BY <1>1, <1>2, <1>3, <1>4, <1>5, <1>6, <1>7, <1>8 DEF ResumeStep

LEMMA TickType ==
    ASSUME TypeInv, LocksInv', NEW p \in Procs, TickStep(p)
    PROVE  TypeInv'
PROOF
  <1> USE DEF Has, SameRuntime, From
  <1>0. Tick \in Tasks /\ WorldOK /\ rt \in [Procs -> Runtimes]
    BY WorldNow DEF Tasks, TypeInv, TypeOK
  <1>1. ASSUME TickRead(p) PROVE TypeInv'
    BY <1>0, <1>1, TickReadEffect, StepType DEF WorldOK, Pcs
  <1>2. ASSUME TickDrop(p) PROVE TypeInv'
    BY <1>0, <1>2, TickDropEffect, StepType, DestroyType DEF WorldOK, Pcs
  <1>3. ASSUME TickRelease(p) PROVE TypeInv'
    BY <1>0, <1>3, TickReleaseEffect, StepType DEF WorldOK, Pcs
  <1>4. ASSUME TickRow(p) PROVE TypeInv'
    BY <1>0, <1>4, TickRowEffect, StepType DEF WorldOK, Pcs
  <1>5. ASSUME ProbeOk(p) \/ ProbeFails(p) PROVE TypeInv'
    BY <1>0, <1>5, ProbeEffect, StepType DEF WorldOK, Pcs
  <1> QED BY <1>1, <1>2, <1>3, <1>4, <1>5 DEF TickStep

\* The steps of the lock connection and of the world.
LEMMA LostIsNone ==
    ASSUME TypeInv, NEW p \in Procs, OnLocksLost(p)
    PROVE  /\ rt' \in [Procs -> Runtimes] /\ closing' \in [Procs -> SUBSET Clients]
           /\ SameRuntime(p)
PROOF
  <1>1. rt \in [Procs -> Runtimes] /\ closing \in [Procs -> SUBSET Clients]
    BY DEF TypeInv, TypeOK
  <1>2. CASE Locks!Lost(p) = {}
    BY <1>1, <1>2, HasIs DEF OnLocksLost, SameRuntime, Has
  <1>3. CASE Locks!Lost(p) # {}
    <2>1. (rt[p].pairing # "none") \in BOOLEAN /\ rt' = [rt EXCEPT ![p].aborted = rt[p].pairing # "none"]
      BY <1>3 DEF OnLocksLost
    <2>2. SameRuntime(p)
      BY <2>1, HasIs
    <2>3. closing' = [closing EXCEPT ![p] = closing[p] \union ({rt[p].client} \ {None})]
      BY <1>3 DEF OnLocksLost
    <2>4. rt[p].client \in Clients \union {None}
      BY <1>1 DEF Runtimes
    <2> QED BY <1>1, <2>2, <2>3, <2>4 DEF SameRuntime, Has
  <1> QED BY <1>2, <1>3

LEMMA WorldType ==
    ASSUME TypeInv, LocksInv', UNCHANGED task, WorldOK',
           rt' \in [Procs -> Runtimes], closing' \in [Procs -> SUBSET Clients],
           up' \in [Procs -> BOOLEAN],
           spent' \in SpentStates
    PROVE  TypeInv'
PROOF
  <1>1. Locks!TypeOK'
    BY DEF LocksInv, LockProofs!IInv, LockProofs!TypeOK, Locks!TypeOK, LockProofs!Calls, Locks!Calls,
           LockProofs!Ops, Locks!Ops
  <1> QED BY <1>1 DEF TypeInv, TypeOK, WorldOK, LiveStates, SpentStates

LEMMA SpentType ==
    ASSUME TypeInv
    PROVE  /\ spent.requests < MaxRequests => [spent EXCEPT !.requests = @ + 1] \in SpentStates
           /\ spent.revoked < MaxRevoked => [spent EXCEPT !.revoked = @ + 1] \in SpentStates
           /\ spent.crashes < MaxCrashes => [spent EXCEPT !.crashes = @ + 1] \in SpentStates
           /\ spent.drops < MaxDrops => [spent EXCEPT !.drops = @ + 1] \in SpentStates
  BY Bounds DEF TypeInv, TypeOK, SpentStates

LEMMA NextType ==
    ASSUME TypeInv, LocksInv', Next
    PROVE  TypeInv'
PROOF
  <1> USE DEF Has, SameRuntime
  <1>0. /\ WorldOK /\ rt \in [Procs -> Runtimes] /\ closing \in [Procs -> SUBSET Clients]
        /\ up \in [Procs -> BOOLEAN] /\ spent \in SpentStates
    BY WorldNow DEF TypeInv, TypeOK, SpentStates
  <1>1. ASSUME NEW p \in Procs, NEW t \in Tasks, TaskStep(p, t) PROVE TypeInv'
    <2>1. CASE AcquireChecks(p, t)
      <3>1. OnLocksLost(p) /\ UNCHANGED <<row, valid, made, live, task, up, spent>>
        BY <2>1 DEF AcquireChecks
      <3>2. WorldOK'
        BY <1>0, <3>1 DEF WorldOK
      <3> QED BY <1>0, <3>1, <3>2, LostIsNone, WorldType
    <2>2. CASE LockAnswers(p, t)
      <3>1. UNCHANGED <<row, valid, made, live, rt, task, closing, up, spent>>
        BY <2>2 DEF LockAnswers
      <3>2. WorldOK'
        BY <1>0, <3>1 DEF WorldOK
      <3> QED BY <1>0, <3>1, <3>2, WorldType
    <2> QED BY <1>1, <2>1, <2>2, RequestType, ResumeType, TickType DEF TaskStep, LockStep
  <1>2. ASSUME NEW p \in Procs, NEW t \in Tasks, NEW r \in Requests, Request(p, t, r) PROVE TypeInv'
    <2>1. /\ To(p, t, r, row, None) /\ r \in {"pair", "reconnect", "logout"}
          /\ UNCHANGED <<lockVars, row, valid, made, live, rt, closing, up>>
          /\ spent' \in SpentStates
      BY <1>2, RequestEffect, SpentType
    <2>2. Locks!TypeOK'
      BY <2>1 DEF lockVars, TypeInv, TypeOK, Locks!TypeOK, Locks!Backend, Locks!Calls, Locks!Ops
    <2>3. task' \in [Procs -> [Tasks -> TaskStates]]
      BY <2>1 DEF To
    <2>4. ASSUME NEW q \in Procs, NEW u \in Tasks, task'[q][u].pc \in {"resume_lock", "logout_lock"}
          PROVE  task'[q][u].row.enc # None
      <3>1. <<q, u>> # <<p, t>>
        BY <2>1, <2>4 DEF To
      <3> QED BY <2>1, <2>4, <3>1 DEF To, TypeInv
    <2>5. TypeOK'
      BY <1>0, <2>1, <2>2, <2>3 DEF TypeOK, TaskStates, SpentStates, WorldOK, LiveStates
    <2> QED BY <2>4, <2>5 DEF TypeInv
  <1>3. ASSUME NEW p \in Procs, TimerChecks(p) PROVE TypeInv'
    <2>1. OnLocksLost(p) /\ UNCHANGED <<row, valid, made, live, task, up, spent>>
      BY <1>3 DEF TimerChecks
    <2>2. WorldOK'
      BY <1>0, <2>1 DEF WorldOK
    <2> QED BY <1>0, <2>1, <2>2, LostIsNone, WorldType
  <1>4. ASSUME NEW p \in Procs, SubmitPassword(p) PROVE TypeInv'
    <2>1. Tick \in Tasks
      BY DEF Tasks
    <2>2. UNCHANGED <<row, valid, made, live, task, closing, up, spent>> /\ rt' \in [Procs -> Runtimes]
      BY <1>4, <2>1, PasswordEffect
    <2>3. WorldOK'
      BY <1>0, <2>2 DEF WorldOK
    <2> QED BY <1>0, <2>2, <2>3, WorldType
  <1>5. ASSUME NEW p \in Procs, NEW c \in Clients, LostClosed(p, c) PROVE TypeInv'
    <2>1. /\ closing' = [closing EXCEPT ![p] = closing[p] \ {c}] /\ live' = Destroy(c)
          /\ rt' = [rt EXCEPT ![p].client = None, ![p].healthy = FALSE]
          /\ UNCHANGED <<row, valid, made, task, up, spent>>
      BY <1>5 DEF LostClosed
    <2>2. WorldOK'
      BY <2>1, DestroyType
    <2>3. rt' \in [Procs -> Runtimes]
      BY <2>1, HasIs
    <2>4. closing' \in [Procs -> SUBSET Clients]
      BY <1>0, <2>1
    <2> QED BY <1>0, <2>1, <2>2, <2>3, <2>4, WorldType
  <1>6. ASSUME NEW p \in Procs, LockConnectionDrops(p) PROVE TypeInv'
    <2>1. spent.drops < MaxDrops /\ spent' = [spent EXCEPT !.drops = @ + 1]
          /\ UNCHANGED <<row, valid, made, live, rt, task, closing, up>>
      BY <1>6 DEF LockConnectionDrops
    <2>2. WorldOK'
      BY <1>0, <2>1 DEF WorldOK
    <2> QED BY <1>0, <2>1, <2>2, SpentType, WorldType
  <1>7. ASSUME NEW p \in Procs, Crash(p) PROVE TypeInv'
    <2>1. /\ up' = [up EXCEPT ![p] = FALSE]
          /\ spent.crashes < MaxCrashes /\ spent' = [spent EXCEPT !.crashes = @ + 1]
          /\ live' = {l \in live : l.proc # p} /\ rt' = [rt EXCEPT ![p] = NewRuntime]
          /\ task' = [task EXCEPT ![p] = [t \in Tasks |-> NoTask]]
          /\ closing' = [closing EXCEPT ![p] = {}] /\ UNCHANGED <<row, valid, made>>
      BY <1>7 DEF Crash
    <2>2. WorldOK'
      BY <1>0, <2>1 DEF WorldOK
    <2>3. NewRuntime \in Runtimes /\ NoTask \in TaskStates /\ NoTask.pc = "idle"
      BY RowType DEF NewRuntime, Runtimes, NoTask, TaskStates, Pcs
    <2>4. task \in [Procs -> [Tasks -> TaskStates]]
      BY DEF TypeInv, TypeOK, TaskStates
    <2>5. /\ rt' \in [Procs -> Runtimes] /\ closing' \in [Procs -> SUBSET Clients] /\ up' \in [Procs -> BOOLEAN]
          /\ task' \in [Procs -> [Tasks -> TaskStates]]
      BY <1>0, <2>1, <2>3, <2>4
    <2>6. ASSUME NEW q \in Procs, NEW u \in Tasks, task'[q][u].pc \in {"resume_lock", "logout_lock"}
          PROVE  task'[q][u].row.enc # None
      <3>1. task'[q] = IF q = p THEN [t \in Tasks |-> NoTask] ELSE task[q]
        BY <2>1, <2>4
      <3>2. q # p
        BY <2>3, <2>6, <3>1
      <3> QED BY <2>6, <3>1, <3>2 DEF TypeInv
    <2>7. Locks!TypeOK'
      BY DEF LocksInv, LockProofs!IInv, LockProofs!TypeOK, Locks!TypeOK, LockProofs!Calls, Locks!Calls,
             LockProofs!Ops, Locks!Ops
    <2>8. TypeOK'
      BY <2>1, <2>2, <2>5, <2>7, SpentType DEF TypeOK, TaskStates, SpentStates, WorldOK, LiveStates
    <2> QED BY <2>6, <2>8 DEF TypeInv
  <1>8. ASSUME NEW p \in Procs, Start(p) PROVE TypeInv'
    <2>1. up' = [up EXCEPT ![p] = TRUE] /\ UNCHANGED <<row, valid, made, live, rt, task, closing, spent>>
      BY <1>8 DEF Start
    <2>2. WorldOK' /\ up' \in [Procs -> BOOLEAN]
      BY <1>0, <2>1 DEF WorldOK
    <2> QED BY <1>0, <2>1, <2>2, WorldType
  <1>9. ASSUME LockReaped PROVE TypeInv'
    <2>1. UNCHANGED <<row, valid, made, live, rt, task, closing, up, spent>>
      BY <1>9 DEF LockReaped
    <2>2. WorldOK'
      BY <1>0, <2>1 DEF WorldOK
    <2> QED BY <1>0, <2>1, <2>2, WorldType
  <1>10. ASSUME NEW k \in Keys, OwnerTerminates(k) \/ KeyDuplicated(k) PROVE TypeInv'
    <2>1. /\ valid' = valid \ {k} /\ UNCHANGED <<row, made, live, rt, task, closing, up>>
          /\ spent' \in SpentStates
      BY <1>0, <1>10, SpentType DEF OwnerTerminates, KeyDuplicated
    <2>2. WorldOK'
      BY <1>0, <2>1 DEF WorldOK
    <2> QED BY <1>0, <2>1, <2>2, WorldType
  <1> QED BY <1>1, <1>2, <1>3, <1>4, <1>5, <1>6, <1>7, <1>8, <1>9, <1>10 DEF Next

LEMMA TypeInit == Init => TypeInv
PROOF
  <1> SUFFICES ASSUME Init PROVE TypeInv
    OBVIOUS
  <1>1. Locks!TypeOK
    BY LocksInvInit, LocksType
  <1>2. NewRuntime \in Runtimes /\ NoTask \in TaskStates /\ NoTask.pc = "idle" /\ NoRow \in Rows
    BY DEF NewRuntime, Runtimes, NoTask, NoRow, Rows, TaskStates, Pcs
  <1>3. [requests |-> 0, revoked |-> 0, crashes |-> 0, drops |-> 0] \in SpentStates
    BY Bounds DEF SpentStates
  <1>4. /\ row \in Rows /\ valid \subseteq Keys /\ made \in 0 .. MaxKeys /\ live \subseteq LiveStates
        /\ rt \in [Procs -> Runtimes] /\ task \in [Procs -> [Tasks -> TaskStates]]
        /\ closing \in [Procs -> SUBSET Clients] /\ up \in [Procs -> BOOLEAN] /\ spent \in SpentStates
    BY <1>2, <1>3, Bounds DEF Init
  <1>5. \A p \in Procs, t \in Tasks : task[p][t] = NoTask
    BY DEF Init
  <1> QED BY <1>1, <1>2, <1>4, <1>5 DEF TypeInv, TypeOK, TaskStates, SpentStates, LiveStates

LEMMA TypeStep == TypeInv /\ LocksInv /\ [Next]_vars => TypeInv'
PROOF
  <1> SUFFICES ASSUME TypeInv, LocksInv, [Next]_vars PROVE TypeInv'
    OBVIOUS
  <1>1. CASE Next
    BY <1>1, LocksInvStep, NextType
  <1>2. CASE UNCHANGED vars
    BY <1>2 DEF vars, lockVars, TypeInv, TypeOK, Locks!TypeOK, Locks!Backend, Locks!Calls, Locks!Ops
  <1> QED BY <1>1, <1>2

LEMMA TypeInvariance == Spec => []TypeInv
PROOF
  <1> QED BY TypeInit, TypeStep, LocksInvariance, PTL DEF Spec

\* Row, keys, clients, Runtimes and tasks keep their shape (sessions.ts:82-110),
\* for any number of processes, requests and keys.
THEOREM TypeCorrect == Spec => []TypeOK
PROOF
  <1>1. TypeInv => TypeOK
    BY DEF TypeInv
  <1> QED BY <1>1, TypeInvariance, PTL

-----------------------------------------------------------------------------
(* One pairing at a time: a flow starts where none is, moves on, or ends with  *)
(* the Runtime's.                                                             *)

LEMMA FlowMoves ==
    ASSUME TypeInv, FlowInv, NEW p \in Procs, NEW t \in Tasks, NEW pc \in Pcs, NEW r, NEW c, NEW d, NEW x,
           To(p, t, pc, r, c), Has(p, d, x),
           \/ task[p][t].pc \notin FlowPcs /\ pc \notin FlowPcs /\ x = rt[p].pairing
           \/ task[p][t].pc \in FlowPcs /\ pc \in FlowPcs /\ x = rt[p].pairing
           \/ rt[p].pairing = "none" /\ pc \in FlowPcs /\ x # "none" /\ t \in Slots
           \/ task[p][t].pc \in FlowPcs /\ pc \notin FlowPcs /\ x = "none"
    PROVE  FlowInv'
PROOF
  <1>1. /\ task'[p][t].pc = pc /\ rt'[p].pairing = x
        /\ \A u \in Tasks \ {t} : task'[p][u] = task[p][u]
        /\ \A q \in Procs \ {p} : rt'[q] = rt[q] /\ \A u \in Tasks : task'[q][u] = task[q][u]
    BY DEF To, Has
  <1>2. Slots \subseteq Tasks
    BY DEF Tasks
  <1>3. ASSUME NEW q \in Procs, NEW u \in Tasks, task'[q][u].pc \in FlowPcs PROVE rt'[q].pairing # "none"
    BY <1>1, <1>3 DEF FlowInv
  <1>4. ASSUME NEW q \in Procs, rt'[q].pairing # "none" PROVE \E u \in Slots : task'[q][u].pc \in FlowPcs
    <2>1. CASE q # p
      BY <1>1, <1>2, <1>4, <2>1 DEF FlowInv
    <2>2. CASE q = p /\ pc \in FlowPcs /\ t \in Slots
      BY <1>1, <2>2
    <2>3. CASE q = p /\ task[p][t].pc \in FlowPcs /\ pc \in FlowPcs
      <3>1. t \in Slots
        BY <1>2, <2>3 DEF FlowInv
      <3> QED BY <1>1, <2>3, <3>1
    <2>4. CASE q = p /\ task[p][t].pc \notin FlowPcs /\ pc \notin FlowPcs /\ x = rt[p].pairing
      <3>1. PICK u \in Slots : task[p][u].pc \in FlowPcs
        BY <1>1, <1>4, <2>4 DEF FlowInv
      <3> QED BY <1>1, <1>2, <2>4, <3>1
    <2> QED BY <1>1, <1>4, <2>1, <2>2, <2>3, <2>4
  <1>5. ASSUME NEW q \in Procs, NEW u \in Tasks, NEW v \in Tasks,
               task'[q][u].pc \in FlowPcs, task'[q][v].pc \in FlowPcs
        PROVE  u = v
    BY <1>1, <1>5 DEF FlowInv
  <1> QED BY <1>3, <1>4, <1>5 DEF FlowInv

LEMMA FlowStays ==
    ASSUME FlowInv, UNCHANGED task, \A p \in Procs : rt'[p].pairing = "none" <=> rt[p].pairing = "none"
    PROVE  FlowInv'
  BY DEF FlowInv, FlowPcs

LEMMA RequestFlow ==
    ASSUME TypeInv, FlowInv, NEW p \in Procs, NEW t \in Slots, RequestStep(p, t)
    PROVE  FlowInv'
PROOF
  <1> USE DEF FlowPcs, SameRuntime, From
  <1>0. t \in Tasks /\ (UNCHANGED rt => Has(p, rt[p].client, rt[p].pairing))
    BY HasIs DEF Tasks
  <1>1. ASSUME Pair(p, t) PROVE FlowInv'
    BY <1>0, <1>1, PairEffect, FlowMoves DEF Pcs
  <1>2. ASSUME PairLocked(p, t) PROVE FlowInv'
    BY <1>0, <1>2, PairLockedEffect, FlowMoves DEF Pcs
  <1>3. ASSUME AskPassword(p, t) \/ WrongPassword(p, t) PROVE FlowInv'
    BY <1>0, <1>3, PasswordEffect, FlowStays DEF Has
  <1>4. ASSUME SignedIn(p, t) PROVE FlowInv'
    BY <1>0, <1>4, SignedInEffect, FlowMoves DEF Pcs
  <1>5. ASSUME SaveKey(p, t) PROVE FlowInv'
    BY <1>0, <1>5, SaveKeyEffect, FlowMoves DEF Pcs
  <1>6. ASSUME Linked(p, t) PROVE FlowInv'
    BY <1>0, <1>6, LinkedEffect, FlowMoves DEF Pcs
  <1>7. ASSUME PairingFails(p, t) PROVE FlowInv'
    BY <1>0, <1>7, PairingFailsEffect, FlowMoves DEF Pcs
  <1>8. ASSUME PairingOver(p, t) PROVE FlowInv'
    BY <1>0, <1>8, PairingOverEffect, FlowMoves DEF Pcs
  <1>9. ASSUME Reconnect(p, t) PROVE FlowInv'
    BY <1>0, <1>9, ReconnectEffect, FlowMoves DEF Pcs
  <1>10. ASSUME ReconnectLocked(p, t) PROVE FlowInv'
    BY <1>0, <1>10, ReconnectLockedEffect, FlowMoves DEF Pcs
  <1>11. ASSUME ReconnectDrop(p, t) PROVE FlowInv'
    BY <1>0, <1>11, ReconnectDropEffect, FlowMoves DEF Pcs
  <1>12. ASSUME ReconnectRow(p, t) PROVE FlowInv'
    BY <1>0, <1>12, ReconnectRowEffect, FlowMoves DEF Pcs
  <1>13. ASSUME ReconnectResume(p, t) PROVE FlowInv'
    BY <1>0, <1>13, ReconnectResumeEffect, FlowMoves DEF Pcs
  <1>14. ASSUME Logout(p, t) PROVE FlowInv'
    BY <1>0, <1>14, LogoutEffect, FlowMoves DEF Pcs
  <1>15. ASSUME LogoutLocked(p, t) PROVE FlowInv'
    BY <1>0, <1>15, LogoutLockedEffect, FlowMoves DEF Pcs
  <1>16. ASSUME LogOut(p, t) PROVE FlowInv'
    BY <1>0, <1>16, LogOutEffect, FlowMoves DEF Pcs
  <1>17. ASSUME LoggedOut(p, t) PROVE FlowInv'
    BY <1>0, <1>17, LoggedOutEffect, FlowMoves DEF Pcs
  <1>18. ASSUME Forget(p, t) PROVE FlowInv'
    BY <1>0, <1>18, ForgetEffect, FlowMoves DEF Pcs
  <1> QED BY <1>1, <1>2, <1>3, <1>4, <1>5, <1>6, <1>7, <1>8, <1>9, <1>10, <1>11, <1>12, <1>13, <1>14, <1>15, <1>16,
             <1>17, <1>18 DEF RequestStep

LEMMA ResumeFlow ==
    ASSUME TypeInv, FlowInv, NEW p \in Procs, NEW t \in Tasks, ResumeStep(p, t)
    PROVE  FlowInv'
PROOF
  <1> USE DEF FlowPcs, SameRuntime, From
  <1>0. UNCHANGED rt => Has(p, rt[p].client, rt[p].pairing)
    BY HasIs
  <1>1. ASSUME HeldElsewhere(p, t) \/ LockError(p, t) PROVE FlowInv'
    BY <1>0, <1>1, AnswerEffect, FlowMoves DEF Pcs
  <1>2. ASSUME Resumed(p, t) PROVE FlowInv'
    BY <1>0, <1>2, ResumedEffect, FlowMoves DEF Pcs
  <1>3. ASSUME Connected(p, t) PROVE FlowInv'
    BY <1>0, <1>3, ConnectedEffect, FlowMoves DEF Pcs
  <1>4. ASSUME RecordMe(p, t) PROVE FlowInv'
    BY <1>0, <1>4, RecordMeEffect, FlowMoves DEF Pcs
  <1>5. ASSUME ConnectFails(p, t) PROVE FlowInv'
    BY <1>0, <1>5, ConnectFailsEffect, FlowMoves DEF Pcs
  <1>6. ASSUME Refused(p, t) PROVE FlowInv'
    BY <1>0, <1>6, RefusedEffect, FlowMoves DEF Pcs
  <1>7. ASSUME MarkRevoked(p, t) PROVE FlowInv'
    BY <1>0, <1>7, MarkRevokedEffect, FlowMoves DEF Pcs
  <1>8. ASSUME MarkRevokedFails(p, t) \/ Done(p, t) PROVE FlowInv'
    BY <1>0, <1>8, DoneEffect, FlowMoves DEF Pcs
  <1> QED BY <1>1, <1>2, <1>3, <1>4, <1>5, <1>6, <1>7, <1>8 DEF ResumeStep

LEMMA TickFlow ==
    ASSUME TypeInv, FlowInv, NEW p \in Procs, TickStep(p)
    PROVE  FlowInv'
PROOF
  <1> USE DEF FlowPcs, SameRuntime, From
  <1>0. Tick \in Tasks /\ (UNCHANGED rt => Has(p, rt[p].client, rt[p].pairing))
    BY HasIs DEF Tasks
  <1>1. ASSUME TickRead(p) PROVE FlowInv'
    BY <1>0, <1>1, TickReadEffect, FlowMoves DEF Pcs
  <1>2. ASSUME TickDrop(p) PROVE FlowInv'
    BY <1>0, <1>2, TickDropEffect, FlowMoves DEF Pcs
  <1>3. ASSUME TickRelease(p) PROVE FlowInv'
    BY <1>0, <1>3, TickReleaseEffect, FlowMoves DEF Pcs
  <1>4. ASSUME TickRow(p) PROVE FlowInv'
    BY <1>0, <1>4, TickRowEffect, FlowMoves DEF Pcs
  <1>5. ASSUME ProbeOk(p) \/ ProbeFails(p) PROVE FlowInv'
    BY <1>0, <1>5, ProbeEffect, FlowMoves DEF Pcs
  <1> QED BY <1>1, <1>2, <1>3, <1>4, <1>5 DEF TickStep

LEMMA FlowStep == TypeInv /\ FlowInv /\ [Next]_vars => FlowInv'
PROOF
  <1> SUFFICES ASSUME TypeInv, FlowInv, Next PROVE FlowInv'
    BY FlowStays DEF vars
  <1>1. ASSUME NEW p \in Procs, NEW t \in Tasks, TaskStep(p, t) PROVE FlowInv'
    <2>1. CASE LockStep(p, t)
      BY <2>1, LostIsNone, FlowStays DEF LockStep, AcquireChecks, LockAnswers, SameRuntime, Has
    <2> QED BY <1>1, <2>1, RequestFlow, ResumeFlow, TickFlow DEF TaskStep
  <1>2. ASSUME NEW p \in Procs, NEW t \in Tasks, NEW r \in Requests, Request(p, t, r) PROVE FlowInv'
    <2>1. task[p][t].pc = "idle" /\ r \in {"pair", "reconnect", "logout"} /\ To(p, t, r, row, None)
          /\ Has(p, rt[p].client, rt[p].pairing)
      BY <1>2, RequestEffect, HasIs DEF SameRuntime
    <2> QED BY <2>1, FlowMoves DEF FlowPcs, Pcs
  <1>3. ASSUME NEW p \in Procs, TimerChecks(p) PROVE FlowInv'
    BY <1>3, LostIsNone, FlowStays DEF TimerChecks, SameRuntime, Has
  <1>4. ASSUME NEW p \in Procs, SubmitPassword(p) PROVE FlowInv'
    <2>1. Tick \in Tasks
      BY DEF Tasks
    <2> QED BY <1>4, <2>1, PasswordEffect, FlowStays DEF Has
  <1>5. ASSUME NEW p \in Procs, NEW c \in Clients, LostClosed(p, c) PROVE FlowInv'
    <2>1. Has(p, None, rt[p].pairing) /\ UNCHANGED task
      BY <1>5, HasIs DEF LostClosed
    <2> QED BY <2>1, FlowStays DEF Has
  <1>6. ASSUME NEW p \in Procs, LockConnectionDrops(p) \/ Start(p) PROVE FlowInv'
    BY <1>6, FlowStays DEF LockConnectionDrops, Start
  <1>7. ASSUME NEW p \in Procs, Crash(p) PROVE FlowInv'
    <2>1. /\ rt' = [rt EXCEPT ![p] = NewRuntime] /\ task' = [task EXCEPT ![p] = [t \in Tasks |-> NoTask]]
          /\ rt \in [Procs -> Runtimes] /\ task \in [Procs -> [Tasks -> TaskStates]]
      BY <1>7 DEF Crash, TypeInv, TypeOK, TaskStates
    <2>2. NewRuntime.pairing = "none" /\ NoTask.pc \notin FlowPcs
      BY DEF NewRuntime, NoTask, FlowPcs
    <2>3. rt'[p].pairing = "none" /\ \A t \in Tasks : task'[p][t].pc \notin FlowPcs
      BY <2>1, <2>2
    <2>4. \A q \in Procs \ {p} : rt'[q] = rt[q] /\ task'[q] = task[q]
      BY <2>1
    <2>5. Slots \subseteq Tasks
      BY DEF Tasks
    <2> QED BY <2>3, <2>4, <2>5 DEF FlowInv, FlowPcs
  <1>8. ASSUME LockReaped PROVE FlowInv'
    BY <1>8, FlowStays DEF LockReaped
  <1>9. ASSUME NEW k \in Keys, OwnerTerminates(k) \/ KeyDuplicated(k) PROVE FlowInv'
    BY <1>9, FlowStays DEF OwnerTerminates, KeyDuplicated
  <1> QED BY <1>1, <1>2, <1>3, <1>4, <1>5, <1>6, <1>7, <1>8, <1>9 DEF Next

LEMMA FlowInit == Init => FlowInv
  BY DEF Init, FlowInv, FlowPcs, NewRuntime, NoTask

LEMMA FlowIsOne == TypeInv /\ FlowInv => OnePairing
PROOF
  <1> SUFFICES ASSUME TypeInv, FlowInv, NEW p \in Procs
               PROVE  Cardinality({t \in Tasks : task[p][t].pc \in FlowPcs}) = IF rt[p].pairing = "none" THEN 0 ELSE 1
    BY DEF OnePairing, FlowPcs
  <1> DEFINE flows == {t \in Tasks : task[p][t].pc \in FlowPcs}
  <1>1. CASE rt[p].pairing = "none"
    <2>1. flows = {}
      BY <1>1 DEF FlowInv
    <2> QED BY <1>1, <2>1, FS_EmptySet
  <1>2. CASE rt[p].pairing # "none"
    <2>1. PICK t \in Slots : task[p][t].pc \in FlowPcs
      BY <1>2 DEF FlowInv
    <2>2. flows = {t}
      BY <2>1 DEF FlowInv, Tasks
    <2> QED BY <1>2, <2>2, FS_Singleton
  <1> QED BY <1>1, <1>2

\* Of any number of requests that ask for a pairing at one time, one QR flow runs, and
\* `rt.pairing` stands until that very flow ends: a request that got past the first check finds
\* the flow at the second (sessions.ts:240), no failure or logout clears another's.
THEOREM OnePairingFlow == Spec => []OnePairing
PROOF
  <1>1. Spec => []FlowInv
    BY FlowInit, FlowStep, TypeInvariance, PTL DEF Spec
  <1> QED BY <1>1, FlowIsOne, TypeInvariance, PTL

\* Two processes whose lock connection is as last checked never both hold the session, in the
\* bridge that uses the locks as sessions.ts does ("one process per Telegram session", locks.ts:5).
THEOREM OneHolder == Spec => []Locks!MutualExclusion
PROOF
  <1>1. ASSUME TypeInv, Locks!HeldIsLocked PROVE Locks!MutualExclusion
    <2> SUFFICES ASSUME NEW p \in Procs, NEW q \in Procs, p # q, Locks!Current(p), Locks!Current(q),
                        NEW s \in held[p] \intersect held[q]
                 PROVE  FALSE
      BY DEF Locks!MutualExclusion
    <2>1. s \in {Session}
      BY <1>1 DEF TypeInv, TypeOK, Locks!TypeOK
    <2>2. owner[s] = Locks!Backend(p) /\ owner[s] = Locks!Backend(q)
      BY <1>1, <2>1 DEF Locks!HeldIsLocked
    <2> QED BY <2>2 DEF Locks!Backend
  <1> QED BY <1>1, HeldLocked, TypeInvariance, PTL

-----------------------------------------------------------------------------
(* While the operations of a process on a session take turns, act on the row  *)
(* as it is, and the lock connections last, a session has one client at most, *)
(* under the lock and within reach: for any number of processes, requests,    *)
(* keys, terminated devices and crashes.                                      *)
(*                                                                            *)
(* The invariant.  ClientsInTurns says nothing of the operations under way,   *)
(* so it is not inductive: a client is made, kept and dropped by tasks that   *)
(* stand between their steps, and each must have the lock where it will make, *)
(* use or drop one.                                                           *)

\* A task that stands here has the lock, whatever it goes on to do.
Holding == {"sign_in", "save_key", "claim", "connect", "record_me", "probe", "mark_revoked", "log_out", "logged_out"}

\* The Runtime has no client while a task stands here: one is to be made, or the lock released.
NoClient == {"sign_in", "save_key", "claim", "resume_lock", "mark_revoked", "forget", "tick_release"}

\* Signed in, and the client not yet the Runtime's.
Carrying == {"save_key", "claim"}

\* A task at pc that read a row with the key snap and has client tc, in a process whose Runtime has
\* client cl and that holds the lock or not (hd), while the row has the key enc.
Local(pc, snap, tc, cl, hd, enc) ==
    /\ pc \in Holding => hd
    /\ pc = "forget" => hd \/ snap = None
    /\ pc = "pair_lock" => snap = None
    /\ pc \in NoClient => cl = None
    /\ pc = "reconnect_drop" => tc = cl
    /\ pc = "claim" => enc # None

LocalInv ==
    \A p \in Procs, t \in Tasks :
        Local(task[p][t].pc, task[p][t].row.enc, task[p][t].client, rt[p].client, Session \in held[p], row.enc)

\* A client is the Runtime's only under the lock, and only while the row has a key.
ProcInv == \A p \in Procs : rt[p].client # None => Session \in held[p] /\ row.enc # None

\* During a pairing the heartbeat only looks.
TickInv ==
    \A p \in Procs : task[p][Tick].pc \notin {"idle", "tick_drop", "tick_row"} => rt[p].pairing = "none"

\* No loss is being dealt with, and a lock that was granted is held.
CalmInv ==
    \A p \in Procs : /\ closing[p] = {} /\ pid[p] \in {0, conn[p]}
                     /\ \A t \in Tasks : call[p][t].op = "yes" => Session \in held[p]

\* A connected client is under the lock and known to its process.
LiveInv ==
    /\ \A l \in live : /\ Session \in held[l.proc]
                       /\ \/ l.id = rt[l.proc].client
                          \/ \E u \in Tasks : task[l.proc][u].pc \in Carrying /\ task[l.proc][u].client = l.id
    /\ \A l, m \in live : l.id = m.id => l = m

TurnsInv == LocalInv /\ ProcInv /\ TickInv /\ CalmInv /\ LiveInv

Good == TypeInv /\ LocksInv /\ FlowInv /\ TurnsInv /\ Turns

-----------------------------------------------------------------------------
(* Who is alone: at most one task of a process is busy.                       *)

LEMMA AtMostOne ==
    ASSUME NEW S, IsFiniteSet(S), Cardinality(S) <= 1, NEW x \in S, NEW y \in S
    PROVE  x = y
PROOF
  <1> SUFFICES ASSUME x # y PROVE FALSE
    OBVIOUS
  <1>1. IsFiniteSet({x}) /\ Cardinality({x}) = 1
    BY FS_Singleton
  <1>2. IsFiniteSet({x} \union {y}) /\ Cardinality({x} \union {y}) = 2
    <2>1. y \notin {x}
      OBVIOUS
    <2>2. Cardinality({x} \union {y}) = Cardinality({x}) + 1 /\ IsFiniteSet({x} \union {y})
      BY ONLY <1>1, <2>1, FS_AddElement
    <2> QED BY <1>1, <2>2
  <1>3. Cardinality({x} \union {y}) <= Cardinality(S)
    BY FS_Subset
  <1>4. Cardinality(S) \in Nat
    BY FS_CardinalityType
  <1> QED BY <1>2, <1>3, <1>4

LEMMA Singly ==
    ASSUME NEW tk, Cardinality({t \in Tasks : tk[t].pc \notin {"idle", "sign_in"}}) <= 1,
           Cardinality({t \in Slots : tk[t].pc # "idle"}) <= 1
    PROVE  /\ \A t, u \in Tasks : tk[t].pc \notin {"idle", "sign_in"} /\ tk[u].pc \notin {"idle", "sign_in"} => t = u
           /\ \A t, u \in Slots : tk[t].pc # "idle" /\ tk[u].pc # "idle" => t = u
PROOF
  <1> DEFINE B == {t \in Tasks : tk[t].pc \notin {"idle", "sign_in"}}
             S == {t \in Slots : tk[t].pc # "idle"}
  <1>1. IsFiniteSet(B) /\ IsFiniteSet(S)
    <2>1. B \subseteq Tasks /\ S \subseteq Slots
      OBVIOUS
    <2> QED BY <2>1, TasksFinite, BridgeAssumption, FS_Subset
  <1>2. \A t, u \in B : t = u
    BY <1>1, AtMostOne
  <1>3. \A t, u \in S : t = u
    BY <1>1, AtMostOne
  <1> QED BY <1>2, <1>3

\* Of the other tasks of the process none is under way.
Solo(p, t) == \A u \in Tasks \ {t} : task[p][u].pc = "idle"

LEMMA FlowInSlots ==
    ASSUME FlowInv, NEW p \in Procs, NEW t \in Tasks, task[p][t].pc \in FlowPcs
    PROVE  t \in Slots /\ rt[p].pairing # "none"
  BY DEF FlowInv, Tasks

LEMMA Alone ==
    ASSUME Good, Turns', NEW p \in Procs, NEW t \in Tasks, \A u \in Tasks \ {t} : task'[p][u] = task[p][u],
           \/ task[p][t].pc \notin {"idle", "sign_in", "tick_drop", "tick_row"}
           \/ task[p][t].pc = "sign_in" /\ task'[p][t].pc \notin {"idle", "sign_in"}
           \/ t = Tick /\ task[p][t].pc # "idle" /\ rt[p].pairing = "none"
    PROVE  Solo(p, t)
PROOF
  <1> SUFFICES ASSUME NEW u \in Tasks \ {t}, task[p][u].pc # "idle" PROVE FALSE
    BY DEF Solo
  <1>1. /\ \A v, w \in Tasks : task[p][v].pc \notin {"idle", "sign_in"} /\ task[p][w].pc \notin {"idle", "sign_in"} => v = w
        /\ \A v, w \in Slots : task[p][v].pc # "idle" /\ task[p][w].pc # "idle" => v = w
    BY Singly DEF Good, Turns, OneAtATime, Busy
  <1>2. \A v, w \in Tasks : task'[p][v].pc \notin {"idle", "sign_in"} /\ task'[p][w].pc \notin {"idle", "sign_in"} => v = w
    BY Singly DEF Turns, OneAtATime, Busy
  <1>3. \A v \in Tasks : task[p][v].pc = "sign_in" => v \in Slots /\ rt[p].pairing # "none"
    BY FlowInSlots DEF Good, FlowPcs
  <1>4. CASE t \in Slots
    <2>1. u = Tick
      BY <1>1, <1>3, <1>4 DEF Tasks
    <2>2. task[p][u].pc \notin {"idle", "sign_in"} /\ task'[p][u].pc \notin {"idle", "sign_in"}
      BY <1>3, <2>1, BridgeAssumption
    <2>3. t # Tick
      BY <1>4, BridgeAssumption
    <2> QED BY <1>1, <1>2, <2>2, <2>3
  <1>5. CASE t = Tick
    <2>1. rt[p].pairing = "none" /\ task[p][t].pc \notin {"idle", "sign_in"}
      BY <1>3, <1>5, BridgeAssumption DEF Good, TurnsInv, TickInv
    <2>2. task[p][u].pc \notin {"idle", "sign_in"}
      BY <1>3, <2>1
    <2> QED BY <1>1, <2>1, <2>2
  <1> QED BY <1>4, <1>5 DEF Tasks

\* Two processes never both hold the session.
LEMMA Exclusive ==
    ASSUME Good, NEW p \in Procs, NEW q \in Procs, Session \in held[p], Session \in held[q]
    PROVE  p = q
PROOF
  <1>1. Locks!HeldIsLocked
    <2>1. LockProofs!HeldIsLocked
      BY LockProofs!IInvHeld, BridgeAssumption, TasksFinite, Bounds DEF Good, LocksInv
    <2> QED BY <2>1 DEF LockProofs!HeldIsLocked, Locks!HeldIsLocked, LockProofs!Current, Locks!Current,
                        LockProofs!Backend, Locks!Backend
  <1>2. \A o \in {p, q} : fails[o] = 0 /\ pid[o] \in {0, conn[o]} /\ (pid[o] = 0 => held[o] = {})
    BY DEF Good, Turns, LocksLast, TurnsInv, CalmInv, LocksInv, LockProofs!IInv, LockProofs!PidState
  <1>3. owner[Session] = <<p, conn[p]>> /\ owner[Session] = <<q, conn[q]>>
    BY <1>1, <1>2 DEF Locks!HeldIsLocked, Locks!Current, Locks!Backend
  <1> QED BY <1>3

-----------------------------------------------------------------------------
(* What one step of a task leaves true.                                       *)

\* Of an operation alone in its process every client is the Runtime's or its own.
LEMMA ReachedAlone ==
    ASSUME Good, NEW p \in Procs, NEW t \in Tasks, Solo(p, t), NEW l \in live, l.proc = p
    PROVE  /\ Session \in held[p] /\ l.id # None
           /\ l.id = rt[p].client \/ (task[p][t].pc \in Carrying /\ l.id = task[p][t].client)
PROOF
  <1>1. l.id \in Clients
    BY DEF Good, TypeInv, TypeOK
  <1>2. l.id # None
    BY <1>1, Bounds DEF Clients, None
  <1>3. \A u \in Tasks : task[p][u].pc \in Carrying => u = t
    BY DEF Solo, Carrying
  <1> QED BY <1>2, <1>3 DEF Good, TurnsInv, LiveInv

\* The step keeps the process's clients, its lock and what t carries.
LEMMA LiveKept ==
    ASSUME Good, NEW p \in Procs, NEW t \in Tasks, NEW pc, NEW r, NEW c, NEW x,
           To(p, t, pc, r, c), Has(p, rt[p].client, x), Elsewhere(p), UNCHANGED live,
           Session \in held[p] => Session \in held'[p],
           task[p][t].pc \in Carrying => pc \in Carrying /\ c = task[p][t].client
    PROVE  LiveInv'
PROOF
  <1>1. \A l \in live : l.proc \in Procs
    BY DEF Good, TypeInv, TypeOK
  <1>2. ASSUME NEW l \in live'
        PROVE  /\ Session \in held'[l.proc]
               /\ \/ l.id = rt'[l.proc].client
                  \/ \E u \in Tasks : task'[l.proc][u].pc \in Carrying /\ task'[l.proc][u].client = l.id
    <2>1. /\ Session \in held[l.proc] /\ l.proc \in Procs
          /\ \/ l.id = rt[l.proc].client
             \/ \E u \in Tasks : task[l.proc][u].pc \in Carrying /\ task[l.proc][u].client = l.id
      BY <1>1 DEF Good, TurnsInv, LiveInv
    <2>2. CASE l.proc = p
      <3>1. rt'[p].client = rt[p].client /\ Session \in held'[p]
        BY <2>1, <2>2 DEF Has
      <3>2. ASSUME NEW u \in Tasks, task[p][u].pc \in Carrying, task[p][u].client = l.id
            PROVE  task'[p][u].pc \in Carrying /\ task'[p][u].client = l.id
        BY <3>2 DEF To
      <3> QED BY <2>1, <2>2, <3>1, <3>2
    <2>3. CASE l.proc # p
      BY <2>1, <2>3 DEF Has, To, Elsewhere
    <2> QED BY <2>2, <2>3
  <1>3. \A l, m \in live' : l.id = m.id => l = m
    BY DEF Good, TurnsInv, LiveInv
  <1> QED BY <1>2, <1>3 DEF LiveInv

\* The process has no client but the Runtime's after the step.
LEMMA LiveAlone ==
    ASSUME Good, NEW p \in Procs, NEW t \in Tasks, NEW pc, NEW r, NEW c, NEW d, NEW x,
           To(p, t, pc, r, c), Has(p, d, x), Elsewhere(p), live' \subseteq live,
           \A l \in live' : l.proc = p => Session \in held'[p] /\ l.id = d
    PROVE  LiveInv'
PROOF
  <1>1. \A l \in live : l.proc \in Procs
    BY DEF Good, TypeInv, TypeOK
  <1>2. ASSUME NEW l \in live'
        PROVE  /\ Session \in held'[l.proc]
               /\ \/ l.id = rt'[l.proc].client
                  \/ \E u \in Tasks : task'[l.proc][u].pc \in Carrying /\ task'[l.proc][u].client = l.id
    <2>1. CASE l.proc = p
      BY <1>2, <2>1 DEF Has
    <2>2. CASE l.proc # p
      BY <1>1, <1>2, <2>2 DEF Good, TurnsInv, LiveInv, Has, To, Elsewhere
    <2> QED BY <2>1, <2>2
  <1>3. \A l, m \in live' : l.id = m.id => l = m
    BY DEF Good, TurnsInv, LiveInv
  <1> QED BY <1>2, <1>3 DEF LiveInv

\* The process gets its first client.
LEMMA LiveFirst ==
    ASSUME Good, NEW p \in Procs, NEW t \in Tasks, NEW pc, NEW r, NEW c, NEW d, NEW x, NEW n, NEW k,
           To(p, t, pc, r, c), Has(p, d, x), UNCHANGED held, Session \in held[p], NewClient(p, n, k),
           \A l \in live : l.proc # p,
           d = n \/ (pc \in Carrying /\ c = n)
    PROVE  LiveInv'
PROOF
  <1>1. \A l \in live : l.proc \in Procs /\ l.id # n
    BY DEF Good, TypeInv, TypeOK, NewClient, Referred
  <1> DEFINE new == [id |-> n, proc |-> p, key |-> k]
  <1>2. live' = live \union {new} /\ new.id = n /\ new.proc = p
    BY DEF NewClient
  <1> HIDE DEF new
  <1>3. ASSUME NEW l \in live'
        PROVE  /\ Session \in held'[l.proc]
               /\ \/ l.id = rt'[l.proc].client
                  \/ \E u \in Tasks : task'[l.proc][u].pc \in Carrying /\ task'[l.proc][u].client = l.id
    <2>1. CASE l = new
      BY <1>2, <2>1 DEF Has, To
    <2>2. CASE l \in live
      BY <1>1, <2>2 DEF Good, TurnsInv, LiveInv, Has, To
    <2> QED BY <1>2, <2>1, <2>2
  <1>4. ASSUME NEW l \in live', NEW m \in live', l.id = m.id PROVE l = m
    BY <1>1, <1>2, <1>4 DEF Good, TurnsInv, LiveInv
  <1> QED BY <1>3, <1>4 DEF LiveInv

\* A step of t keeps the invariant if it does for t itself and for the Runtime, and what the other
\* operations rely on: a client or a lock goes, and the row's key is cleared, only while t is alone.
LEMMA Moves ==
    ASSUME Good, CalmInv', LiveInv', NEW p \in Procs, NEW t \in Tasks, NEW pc, NEW r, NEW c, NEW d, NEW x,
           To(p, t, pc, r, c), Has(p, d, x), Elsewhere(p),
           row'.enc = None => row.enc = None \/ (Session \in held[p] /\ Solo(p, t)),
           (held'[p] = held[p] /\ d = rt[p].client) \/ Solo(p, t),
           Local(pc, r.enc, c, d, Session \in held'[p], row'.enc),
           d # None => Session \in held'[p] /\ row'.enc # None,
           t = Tick /\ pc \notin {"idle", "tick_drop", "tick_row"} => x = "none",
           t # Tick /\ x # "none" => rt[p].pairing # "none" \/ task[p][Tick].pc = "idle"
    PROVE  TurnsInv'
PROOF
  <1>1. /\ task'[p][t].pc = pc /\ task'[p][t].row = r /\ task'[p][t].client = c
        /\ rt'[p].client = d /\ rt'[p].pairing = x
        /\ \A u \in Tasks \ {t} : task'[p][u] = task[p][u]
        /\ \A q \in Procs \ {p} : /\ rt'[q] = rt[q] /\ held'[q] = held[q]
                                   /\ \A u \in Tasks : task'[q][u] = task[q][u]
    BY DEF To, Has, Elsewhere
  <1>2. \A q \in Procs \ {p} : Session \in held[q] /\ row.enc # None => row'.enc # None
    BY Exclusive
  <1>3. LocalInv'
    <2> SUFFICES ASSUME NEW q \in Procs, NEW u \in Tasks
                 PROVE  Local(task'[q][u].pc, task'[q][u].row.enc, task'[q][u].client, rt'[q].client,
                              Session \in held'[q], row'.enc)
      BY DEF LocalInv
    <2>1. Local(task[q][u].pc, task[q][u].row.enc, task[q][u].client, rt[q].client, Session \in held[q], row.enc)
      BY DEF Good, TurnsInv, LocalInv
    <2>2. CASE q = p /\ u = t
      BY <1>1, <2>2
    <2>3. CASE q # p
      <3>1. task[q][u].pc = "claim" => row'.enc # None
        BY <1>2, <2>1, <2>3 DEF Local, Holding
      <3> QED BY <1>1, <2>1, <2>3, <3>1 DEF Local
    <2>4. CASE q = p /\ u # t /\ task[p][u].pc = "idle"
      BY <1>1, <2>4 DEF Local, Holding, NoClient
    <2>5. CASE q = p /\ u # t /\ task[p][u].pc # "idle"
      <3>1. held'[p] = held[p] /\ d = rt[p].client /\ (row.enc # None => row'.enc # None)
        BY <2>5 DEF Solo
      <3> QED BY <1>1, <2>1, <2>5, <3>1 DEF Local
    <2> QED BY <2>2, <2>3, <2>4, <2>5
  <1>4. ProcInv'
    BY <1>1, <1>2 DEF Good, TurnsInv, ProcInv
  <1>5. TickInv'
    <2> SUFFICES ASSUME NEW q \in Procs, task'[q][Tick].pc \notin {"idle", "tick_drop", "tick_row"}
                 PROVE  rt'[q].pairing = "none"
      BY DEF TickInv
    <2>1. Tick \in Tasks
      BY DEF Tasks
    <2> QED BY <1>1, <2>1 DEF Good, TurnsInv, TickInv
  <1> QED BY <1>3, <1>4, <1>5 DEF TurnsInv

\* A step that changes neither the Runtime's client and pairing nor lock, clients and key.
LEMMA Plain ==
    ASSUME Good, CalmInv', NEW p \in Procs, NEW t \in Tasks, NEW pc, NEW r, NEW c,
           To(p, t, pc, r, c), SameRuntime(p), UNCHANGED <<held, live>>, row'.enc = row.enc,
           task[p][t].pc \notin Carrying,
           Local(pc, r.enc, c, rt[p].client, Session \in held[p], row.enc),
           t = Tick /\ pc \notin {"idle", "tick_drop", "tick_row"} => rt[p].pairing = "none"
    PROVE  TurnsInv'
PROOF
  <1>1. Elsewhere(p) /\ Has(p, rt[p].client, rt[p].pairing)
    BY DEF Elsewhere, SameRuntime
  <1>2. LiveInv'
    BY <1>1, LiveKept
  <1>3. rt[p].client # None => Session \in held'[p] /\ row'.enc # None
    BY DEF Good, TurnsInv, ProcInv
  <1> QED BY <1>1, <1>2, <1>3, Moves

\* A step that changes neither where tasks stand nor the Runtimes' clients.
LEMMA Quiet ==
    ASSUME Good, CalmInv', UNCHANGED <<task, row, live>>, rt' \in [Procs -> Runtimes],
           \A q \in Procs : /\ rt'[q].client = rt[q].client /\ (rt[q].pairing = "none" => rt'[q].pairing = "none")
                           /\ (Session \in held[q] => Session \in held'[q])
    PROVE  TurnsInv'
PROOF
  <1>1. LocalInv'
    BY DEF Good, TurnsInv, LocalInv, Local
  <1>2. ProcInv' /\ TickInv'
    BY DEF Good, TurnsInv, ProcInv, TickInv
  <1>3. LiveInv'
    <2>1. \A l \in live : l.proc \in Procs
      BY DEF Good, TypeInv, TypeOK
    <2> QED BY <2>1 DEF Good, TurnsInv, LiveInv
  <1> QED BY <1>1, <1>2, <1>3 DEF TurnsInv

-----------------------------------------------------------------------------
(* The locks during a task's step: it takes an answer, asks, or gives the     *)
(* lock back; the last in a turn of the event loop no answer falls into.      *)

LEMMA AsksCalm ==
    ASSUME Good, NEW p \in Procs, NEW t \in Tasks, Asks(p, t), Turn(p) \/ Locks!Return(p, t), UNCHANGED closing
    PROVE  CalmInv'
PROOF
  <1>1. /\ call \in [Procs -> [Tasks -> Locks!Calls]] /\ held \in [Procs -> SUBSET {Session}]
        /\ \A q \in Procs : closing[q] = {} /\ pid[q] \in {0, conn[q]}
        /\ \A q \in Procs, u \in Tasks : call[q][u].op = "yes" => Session \in held[q]
    BY DEF Good, TurnsInv, CalmInv, TypeInv, TypeOK, Locks!TypeOK
  <1>2. CASE UNCHANGED lockVars
    BY <1>1, <1>2 DEF lockVars, CalmInv
  <1>3. ASSUME NEW op \in {"check", "unlock", "idle"}, NEW s, Locks!Proceed(p, t, op, s), UNCHANGED <<conn, pid>>,
               \A q \in Procs, u \in Tasks : call[q][u].op = "yes" /\ <<q, u>> # <<p, t>> => Session \in held'[q]
        PROVE  CalmInv'
    <2>1. \A q \in Procs, u \in Tasks : <<q, u>> # <<p, t>> => call'[q][u] = call[q][u]
      BY <1>1, <1>3 DEF Locks!Proceed
    <2>2. call'[p][t].op = op
      BY <1>1, <1>3 DEF Locks!Proceed, Locks!Idle
    <2> QED BY <1>1, <1>3, <2>1, <2>2 DEF CalmInv
  <1>4. CASE Locks!Acquire(p, t, Session)
    BY <1>1, <1>3, <1>4 DEF Locks!Acquire
  <1>5. CASE Locks!Return(p, t)
    BY <1>1, <1>3, <1>5 DEF Locks!Return
  <1>6. CASE Locks!Release(p, t, Session) /\ Turn(p)
    <2>1. held' = [held EXCEPT ![p] = held[p] \ {Session}] /\ Locks!Proceed(p, t, "unlock", Session)
          /\ UNCHANGED <<conn, pid>>
      BY <1>6 DEF Locks!Release
    <2>2. \A u \in Tasks : call[p][u].op # "yes"
      BY <1>6 DEF Turn
    <2> QED BY <1>1, <1>3, <2>1, <2>2
  <1>7. Locks!Release(p, t, Session) => ~Locks!Return(p, t)
    BY DEF Locks!Release, Locks!Return
  <1> QED BY <1>2, <1>4, <1>5, <1>6, <1>7 DEF Asks

LEMMA RequestCalm ==
    ASSUME Good, NEW p \in Procs, NEW t \in Slots, RequestStep(p, t)
    PROVE  CalmInv'
PROOF
  <1>1. t \in Tasks /\ Asks(p, t)
    BY RequestAsks DEF Tasks
  <1>2. CASE Pair(p, t) \/ PairLocked(p, t) \/ AskPassword(p, t) \/ WrongPassword(p, t) \/ SignedIn(p, t)
    BY <1>1, <1>2, AsksCalm DEF Pair, PairLocked, AskPassword, WrongPassword, SignedIn, At, Told
  <1>3. CASE SaveKey(p, t) \/ Linked(p, t) \/ PairingFails(p, t) \/ PairingOver(p, t)
    BY <1>1, <1>3, AsksCalm DEF SaveKey, Linked, PairingFails, PairingOver, At
  <1>4. CASE Reconnect(p, t) \/ ReconnectLocked(p, t) \/ ReconnectDrop(p, t) \/ ReconnectRow(p, t) \/ ReconnectResume(p, t)
    BY <1>1, <1>4, AsksCalm DEF Reconnect, ReconnectLocked, ReconnectDrop, ReconnectRow, ReconnectResume, At, Told
  <1>5. CASE Logout(p, t) \/ LogoutLocked(p, t) \/ LogOut(p, t) \/ LoggedOut(p, t) \/ Forget(p, t)
    BY <1>1, <1>5, AsksCalm DEF Logout, LogoutLocked, LogOut, LoggedOut, Forget, At, Told
  <1> QED BY <1>2, <1>3, <1>4, <1>5 DEF RequestStep

LEMMA ResumeCalm ==
    ASSUME Good, NEW p \in Procs, NEW t \in Tasks, ResumeStep(p, t)
    PROVE  CalmInv'
  BY ResumeAsks, AsksCalm DEF ResumeStep, HeldElsewhere, LockError, Resumed, Connected, RecordMe, ConnectFails, Refused,
         MarkRevoked, MarkRevokedFails, Done, At, Told

LEMMA TickCalm ==
    ASSUME Good, NEW p \in Procs, TickStep(p)
    PROVE  CalmInv'
PROOF
  <1>1. Tick \in Tasks
    BY DEF Tasks
  <1> QED BY <1>1, TickAsks, AsksCalm DEF TickStep, TickRead, TickDrop, TickRelease, TickRow, ProbeOk, ProbeFails, At

-----------------------------------------------------------------------------
(* The steps.                                                                 *)

LEMMA Now ==
    ASSUME Good, NEW p \in Procs, NEW t \in Tasks
    PROVE  /\ Local(task[p][t].pc, task[p][t].row.enc, task[p][t].client, rt[p].client, Session \in held[p], row.enc)
           /\ rt[p].client # None => Session \in held[p] /\ row.enc # None
           /\ task[p][t].pc \in Acting => task[p][t].row.enc = row.enc
           /\ task[p][t].pc \in {"resume_lock", "logout_lock"} => task[p][t].row.enc \in Keys /\ row.enc # None
           /\ call[p][t].op = "yes" => Session \in held[p]
           /\ UNCHANGED held => Elsewhere(p)
PROOF
  <1>1. task[p][t].row.enc \in Keys \union {None}
    BY TaskIs DEF Good
  <1>2. task[p][t].pc \in {"resume_lock", "logout_lock"} => task[p][t].row.enc # None
    BY DEF Good, TypeInv
  <1>3. task[p][t].pc \in Acting => task[p][t].row.enc = row.enc
    BY DEF Good, Turns, RowsAsRead
  <1>4. Local(task[p][t].pc, task[p][t].row.enc, task[p][t].client, rt[p].client, Session \in held[p], row.enc)
    BY DEF Good, TurnsInv, LocalInv
  <1>5. /\ rt[p].client # None => Session \in held[p] /\ row.enc # None
        /\ call[p][t].op = "yes" => Session \in held[p]
    BY DEF Good, TurnsInv, ProcInv, CalmInv
  <1> QED BY <1>1, <1>2, <1>3, <1>4, <1>5 DEF Acting, Elsewhere

\* A step to a place where nothing is asked of the process.
LEMMA Free ==
    ASSUME NEW pc, pc \notin Holding \union NoClient \union {"forget", "pair_lock", "reconnect_drop", "claim"},
           NEW snap, NEW tc, NEW cl, NEW hd, NEW enc
    PROVE  Local(pc, snap, tc, cl, hd, enc)
  BY DEF Local

\* The client is dropped, and no other operation knew it.
LEMMA Drops ==
    ASSUME Good, CalmInv', NEW p \in Procs, NEW t \in Tasks, NEW pc, NEW r, NEW c,
           To(p, t, pc, r, c), Has(p, None, rt[p].pairing), UNCHANGED <<held, row>>, live' = Destroy(rt[p].client),
           Solo(p, t), task[p][t].pc \notin Carrying,
           Local(pc, r.enc, c, None, Session \in held[p], row.enc),
           t = Tick /\ pc \notin {"idle", "tick_drop", "tick_row"} => rt[p].pairing = "none"
    PROVE  TurnsInv'
PROOF
  <1>1. Elsewhere(p)
    BY DEF Elsewhere
  <1>2. live' \subseteq live /\ \A l \in live' : l.proc # p
    BY ReachedAlone DEF Destroy
  <1>3. LiveInv'
    BY <1>1, <1>2, LiveAlone
  <1> QED BY <1>1, <1>3, Moves

\* The lock is given back, or may be: no client is left, and no other operation relies on it.
LEMMA GivesBack ==
    ASSUME Good, CalmInv', NEW p \in Procs, NEW t \in Tasks, NEW pc, NEW r, NEW c,
           To(p, t, pc, r, c), SameRuntime(p), Elsewhere(p), UNCHANGED live,
           Solo(p, t), task[p][t].pc \notin Carrying, rt[p].client = None,
           row'.enc = None => row.enc = None \/ Session \in held[p],
           pc \notin Holding \union NoClient \union {"forget", "pair_lock", "reconnect_drop", "claim"},
           t = Tick /\ pc \notin {"idle", "tick_drop", "tick_row"} => rt[p].pairing = "none"
    PROVE  TurnsInv'
PROOF
  <1>1. Has(p, None, rt[p].pairing)
    BY DEF SameRuntime
  <1>2. \A l \in live : l.proc # p
    BY ReachedAlone
  <1>3. LiveInv'
    BY <1>1, <1>2, LiveAlone
  <1>4. Local(pc, r.enc, c, None, Session \in held'[p], row'.enc)
    BY Free
  <1> QED BY <1>1, <1>3, <1>4, Moves

\* pair(id) and the flow it starts.
LEMMA PairTurns ==
    ASSUME Good, Turns', CalmInv', NEW p \in Procs, NEW t \in Slots,
           \/ Pair(p, t) \/ PairLocked(p, t) \/ AskPassword(p, t) \/ WrongPassword(p, t)
           \/ SignedIn(p, t) \/ SaveKey(p, t) \/ Linked(p, t) \/ PairingFails(p, t) \/ PairingOver(p, t)
    PROVE  TurnsInv'
PROOF
  <1> USE DEF From
  <1>0. t \in Tasks /\ TypeInv /\ t # Tick
    BY BridgeAssumption DEF Tasks, Good
  <1>a. \A pc, r, c : To(p, t, pc, r, c) => /\ \A u \in Tasks \ {t} : task'[p][u] = task[p][u]
                                          /\ task'[p][t].pc = pc
    BY <1>0 DEF To
  <1>b. UNCHANGED rt => SameRuntime(p)
    BY <1>0, HasIs
  <1>1. ASSUME Pair(p, t) PROVE TurnsInv'
    <2>1. From(p, t, "pair") /\ UNCHANGED <<row, live, held>> /\ SameRuntime(p)
      BY <1>0, <1>1, <1>b, PairEffect
    <2>2. CASE To(p, t, "idle", NoRow, None)
      <3>1. Local("idle", NoRow.enc, None, rt[p].client, Session \in held[p], row.enc)
        BY Free DEF Holding, NoClient
      <3> QED BY <1>0, <2>1, <2>2, <3>1, Plain DEF Carrying
    <2>3. CASE To(p, t, "pair_lock", task[p][t].row, task[p][t].client) /\ task[p][t].row.enc = None
      <3>1. Local("pair_lock", task[p][t].row.enc, task[p][t].client, rt[p].client, Session \in held[p], row.enc)
        BY <2>3 DEF Local, Holding, NoClient
      <3> QED BY <1>0, <2>1, <2>3, <3>1, Plain DEF Carrying
    <2> QED BY <1>0, <1>1, <2>2, <2>3, PairEffect
  <1>2. ASSUME PairLocked(p, t) PROVE TurnsInv'
    <2>1. From(p, t, "pair_lock") /\ call[p][t].op = "yes" /\ UNCHANGED <<row, valid, made, live, held>>
      BY <1>0, <1>2, PairLockedEffect
    <2>2. CASE To(p, t, "idle", NoRow, None) /\ SameRuntime(p)
      <3>1. Local("idle", NoRow.enc, None, rt[p].client, Session \in held[p], row.enc)
        BY Free DEF Holding, NoClient
      <3> QED BY <1>0, <2>1, <2>2, <3>1, Plain DEF Carrying
    <2>3. CASE To(p, t, "sign_in", task[p][t].row, task[p][t].client) /\ Has(p, rt[p].client, "qr")
      <3>1. Session \in held[p] /\ rt[p].client = None /\ Elsewhere(p)
        <4>1. Session \in held[p] /\ task[p][t].row.enc = None /\ row.enc = None /\ Elsewhere(p)
          BY <1>0, <2>1, Now DEF Local, Acting
        <4> QED BY <1>0, <4>1, Now
      <3>2. Local("sign_in", task[p][t].row.enc, task[p][t].client, rt[p].client, Session \in held'[p], row'.enc)
        BY <2>1, <3>1 DEF Local
      <3>3. Solo(p, t)
        BY <1>0, <1>a, <2>1, <2>3, Alone
      <3>4. task[p][Tick].pc = "idle"
        BY <1>0, <3>3 DEF Solo, Tasks
      <3>5. LiveInv'
        BY <1>0, <2>1, <2>3, <3>1, LiveKept DEF Carrying
      <3> QED BY <1>0, <2>1, <2>3, <3>1, <3>2, <3>3, <3>4, <3>5, Moves
    <2> QED BY <1>0, <1>2, <2>2, <2>3, PairLockedEffect
  <1>3. ASSUME AskPassword(p, t) \/ WrongPassword(p, t) PROVE TurnsInv'
    BY <1>0, <1>3, PasswordEffect, Quiet DEF Has
  <1>4. ASSUME SignedIn(p, t) PROVE TurnsInv'
    <2>1. From(p, t, "sign_in") /\ UNCHANGED <<row, rt, held>>
      BY <1>0, <1>4, SignedInEffect
    <2>2. PICK c \in Clients : NewClient(p, c, made') /\ To(p, t, "save_key", task[p][t].row, c)
      BY <1>0, <1>4, SignedInEffect
    <2>3. Solo(p, t)
      BY <1>0, <1>a, <2>1, <2>2, Alone
    <2>4. Session \in held[p] /\ rt[p].client = None /\ Elsewhere(p)
      BY <1>0, <2>1, Now DEF Local, Holding, NoClient
    <2>5. \A l \in live : l.proc # p
      BY <1>0, <2>1, <2>3, <2>4, ReachedAlone DEF Carrying
    <2>6. Has(p, rt[p].client, rt[p].pairing)
      BY <1>b, <2>1 DEF SameRuntime
    <2>7. LiveInv'
      BY <1>0, <2>1, <2>2, <2>4, <2>5, <2>6, LiveFirst DEF Carrying
    <2>8. Local("save_key", task[p][t].row.enc, c, rt[p].client, Session \in held'[p], row'.enc)
      BY <2>1, <2>4 DEF Local
    <2> QED BY <1>0, <2>1, <2>2, <2>3, <2>4, <2>6, <2>7, <2>8, Moves
  <1>5. ASSUME SaveKey(p, t) PROVE TurnsInv'
    <2>1. From(p, t, "save_key") /\ UNCHANGED <<live, held, rt>> /\ To(p, t, "claim", task[p][t].row, task[p][t].client)
      BY <1>0, <1>5, SaveKeyEffect
    <2>2. row'.enc # None
      <3>1. PICK l \in live : row' = [row EXCEPT !.enc = l.key, !.revoked = FALSE]
        BY <1>0, <1>5, SaveKeyEffect
      <3>2. l.key \in Keys /\ l.key # None
        BY <1>0, Bounds DEF TypeInv, TypeOK, Keys, None
      <3> QED BY <1>0, <3>1, <3>2, RowType
    <2>3. Session \in held[p] /\ rt[p].client = None /\ Elsewhere(p)
      BY <1>0, <2>1, Now DEF Local, Holding, NoClient
    <2>4. Has(p, rt[p].client, rt[p].pairing)
      BY <1>b, <2>1 DEF SameRuntime
    <2>5. LiveInv'
      BY <1>0, <2>1, <2>3, <2>4, LiveKept DEF Carrying
    <2>6. Local("claim", task[p][t].row.enc, task[p][t].client, rt[p].client, Session \in held'[p], row'.enc)
      BY <2>1, <2>2, <2>3 DEF Local
    <2> QED BY <1>0, <2>1, <2>2, <2>3, <2>4, <2>5, <2>6, Moves
  <1>6. ASSUME Linked(p, t) PROVE TurnsInv'
    <2>1. /\ From(p, t, "claim") /\ row' = [row EXCEPT !.me = TRUE] /\ UNCHANGED <<live, held>>
          /\ To(p, t, "idle", NoRow, None) /\ Has(p, task[p][t].client, "none")
      BY <1>0, <1>6, LinkedEffect
    <2>2. Session \in held[p] /\ rt[p].client = None /\ row.enc # None /\ Elsewhere(p)
      BY <1>0, <2>1, Now DEF Local, Holding, NoClient
    <2>3. row'.enc = row.enc
      BY <1>0, <2>1, RowType
    <2>4. Solo(p, t)
      BY <1>0, <1>a, <2>1, Alone
    <2>5. \A l \in live : l.proc = p => l.id = task[p][t].client
      BY <1>0, <2>2, <2>4, ReachedAlone
    <2>6. LiveInv'
      BY <1>0, <2>1, <2>2, <2>5, LiveAlone
    <2>7. Local("idle", NoRow.enc, None, task[p][t].client, Session \in held'[p], row'.enc)
      BY Free DEF Holding, NoClient
    <2> QED BY <1>0, <2>1, <2>2, <2>3, <2>4, <2>6, <2>7, Moves
  <1>7. ASSUME PairingFails(p, t) PROVE TurnsInv'
    <2>1. /\ task[p][t].pc \in {"sign_in", "save_key", "claim"} /\ UNCHANGED <<row, rt>> /\ Elsewhere(p)
          /\ live' = Destroy(task[p][t].client) /\ To(p, t, "pairing_over", task[p][t].row, None)
      BY <1>0, <1>7, PairingFailsEffect
    <2>2. rt[p].client = None
      BY <1>0, <2>1, Now DEF Local, NoClient
    <2>3. Solo(p, t)
      BY <1>0, <1>a, <2>1, Alone
    <2>4. live' \subseteq live /\ \A l \in live' : l.proc # p
      BY <1>0, <2>1, <2>2, <2>3, ReachedAlone DEF Destroy
    <2>5. Has(p, rt[p].client, rt[p].pairing)
      BY <1>b, <2>1 DEF SameRuntime
    <2>6. LiveInv'
      BY <1>0, <2>1, <2>4, <2>5, LiveAlone
    <2>7. Local("pairing_over", task[p][t].row.enc, None, rt[p].client, Session \in held'[p], row'.enc)
      BY Free DEF Holding, NoClient
    <2> QED BY <1>0, <2>1, <2>2, <2>3, <2>5, <2>6, <2>7, Moves
  <1>8. ASSUME PairingOver(p, t) PROVE TurnsInv'
    <2>1. /\ From(p, t, "pairing_over") /\ UNCHANGED <<row, live, held>>
          /\ To(p, t, "idle", NoRow, None) /\ Has(p, rt[p].client, "none")
      BY <1>0, <1>8, PairingOverEffect
    <2>2. Elsewhere(p) /\ (rt[p].client # None => Session \in held[p] /\ row.enc # None)
      BY <1>0, <2>1, Now
    <2>3. LiveInv'
      BY <1>0, <2>1, <2>2, LiveKept DEF Carrying
    <2>4. Local("idle", NoRow.enc, None, rt[p].client, Session \in held'[p], row'.enc)
      BY Free DEF Holding, NoClient
    <2> QED BY <1>0, <2>1, <2>2, <2>3, <2>4, Moves
  <1> QED BY <1>1, <1>2, <1>3, <1>4, <1>5, <1>6, <1>7, <1>8

\* reconnect(id)
LEMMA ReconnectTurns ==
    ASSUME Good, Turns', CalmInv', NEW p \in Procs, NEW t \in Slots,
           \/ Reconnect(p, t) \/ ReconnectLocked(p, t) \/ ReconnectDrop(p, t) \/ ReconnectRow(p, t) \/ ReconnectResume(p, t)
    PROVE  TurnsInv'
PROOF
  <1> USE DEF From
  <1>0. t \in Tasks /\ TypeInv /\ t # Tick
    BY BridgeAssumption DEF Tasks, Good
  <1>a. \A pc, r, c : To(p, t, pc, r, c) => \A u \in Tasks \ {t} : task'[p][u] = task[p][u]
    BY <1>0 DEF To
  <1>b. UNCHANGED rt => SameRuntime(p)
    BY <1>0, HasIs
  <1>1. ASSUME Reconnect(p, t) PROVE TurnsInv'
    <2>1. From(p, t, "reconnect") /\ UNCHANGED <<row, live, held>> /\ SameRuntime(p)
      BY <1>0, <1>1, <1>b, ReconnectEffect
    <2>2. ASSUME NEW pc \in {"idle", "reconnect_lock"}, NEW r, NEW c, To(p, t, pc, r, c) PROVE TurnsInv'
      <3>1. Local(pc, r.enc, c, rt[p].client, Session \in held[p], row.enc)
        BY Free DEF Holding, NoClient
      <3> QED BY <1>0, <2>1, <2>2, <3>1, Plain DEF Carrying
    <2> QED BY <1>0, <1>1, <2>2, ReconnectEffect
  <1>2. ASSUME ReconnectLocked(p, t) PROVE TurnsInv'
    <2>1. /\ From(p, t, "reconnect_lock") /\ UNCHANGED <<row, live, held>> /\ SameRuntime(p)
          /\ To(p, t, "reconnect_drop", task[p][t].row, rt[p].client)
      BY <1>0, <1>2, ReconnectLockedEffect
    <2>2. Local("reconnect_drop", task[p][t].row.enc, rt[p].client, rt[p].client, Session \in held[p], row.enc)
      BY DEF Local, Holding, NoClient
    <2> QED BY <1>0, <2>1, <2>2, Plain DEF Carrying
  <1>3. ASSUME ReconnectDrop(p, t) PROVE TurnsInv'
    <2>1. /\ From(p, t, "reconnect_drop") /\ UNCHANGED <<row, held>> /\ Has(p, None, rt[p].pairing)
          /\ live' = Destroy(task[p][t].client) /\ To(p, t, "reconnect_row", task[p][t].row, None)
      BY <1>0, <1>3, ReconnectDropEffect
    <2>2. task[p][t].client = rt[p].client
      BY <1>0, <2>1, Now DEF Local
    <2>3. Solo(p, t)
      BY <1>0, <1>a, <2>1, Alone
    <2>4. Local("reconnect_row", task[p][t].row.enc, None, None, Session \in held[p], row.enc)
      BY Free DEF Holding, NoClient
    <2> QED BY <1>0, <2>1, <2>2, <2>3, <2>4, Drops DEF Carrying
  <1>4. ASSUME ReconnectRow(p, t) PROVE TurnsInv'
    <2>1. /\ From(p, t, "reconnect_row") /\ UNCHANGED <<row, live, rt, held>>
          /\ To(p, t, "resume", row, task[p][t].client)
      BY <1>0, <1>4, ReconnectRowEffect
    <2>2. Local("resume", row.enc, task[p][t].client, rt[p].client, Session \in held[p], row.enc)
      BY Free DEF Holding, NoClient
    <2> QED BY <1>0, <1>b, <2>1, <2>2, Plain DEF Carrying
  <1>5. ASSUME ReconnectResume(p, t) PROVE TurnsInv'
    <2>1. From(p, t, "resume") /\ UNCHANGED <<row, live, held>> /\ SameRuntime(p)
      BY <1>0, <1>5, <1>b, ReconnectResumeEffect
    <2>2. CASE To(p, t, "idle", NoRow, None)
      <3>1. Local("idle", NoRow.enc, None, rt[p].client, Session \in held[p], row.enc)
        BY Free DEF Holding, NoClient
      <3> QED BY <1>0, <2>1, <2>2, <3>1, Plain DEF Carrying
    <2>3. CASE To(p, t, "resume_lock", task[p][t].row, task[p][t].client) /\ rt[p].client = None
      <3>1. Local("resume_lock", task[p][t].row.enc, task[p][t].client, rt[p].client, Session \in held[p], row.enc)
        BY <2>3 DEF Local, Holding
      <3> QED BY <1>0, <2>1, <2>3, <3>1, Plain DEF Carrying
    <2> QED BY <1>0, <1>5, <2>2, <2>3, ReconnectResumeEffect
  <1> QED BY <1>1, <1>2, <1>3, <1>4, <1>5

\* logout(id)
LEMMA LogoutTurns ==
    ASSUME Good, Turns', CalmInv', NEW p \in Procs, NEW t \in Slots,
           \/ Logout(p, t) \/ LogoutLocked(p, t) \/ LogOut(p, t) \/ LoggedOut(p, t) \/ Forget(p, t)
    PROVE  TurnsInv'
PROOF
  <1> USE DEF From
  <1>0. t \in Tasks /\ TypeInv /\ t # Tick
    BY BridgeAssumption DEF Tasks, Good
  <1>a. \A pc, r, c : To(p, t, pc, r, c) => \A u \in Tasks \ {t} : task'[p][u] = task[p][u]
    BY <1>0 DEF To
  <1>b. UNCHANGED rt => SameRuntime(p)
    BY <1>0, HasIs
  <1>1. ASSUME Logout(p, t) PROVE TurnsInv'
    <2>1. From(p, t, "logout") /\ UNCHANGED <<row, held>>
      BY <1>0, <1>1, LogoutEffect
    <2>2. CASE /\ task[p][t].row.enc = None /\ live' = Destroy(rt[p].client) /\ Has(p, None, rt[p].pairing)
               /\ To(p, t, "forget", task[p][t].row, task[p][t].client)
      <3>1. Solo(p, t)
        BY <1>0, <1>a, <2>1, <2>2, Alone
      <3>2. Local("forget", task[p][t].row.enc, task[p][t].client, None, Session \in held[p], row.enc)
        BY <2>2 DEF Local, Holding
      <3> QED BY <1>0, <2>1, <2>2, <3>1, <3>2, Drops DEF Carrying
    <2>3. CASE UNCHANGED live /\ SameRuntime(p) /\ To(p, t, "logout_lock", task[p][t].row, task[p][t].client)
      <3>1. Local("logout_lock", task[p][t].row.enc, task[p][t].client, rt[p].client, Session \in held[p], row.enc)
        BY Free DEF Holding, NoClient
      <3> QED BY <1>0, <2>1, <2>3, <3>1, Plain DEF Carrying
    <2> QED BY <1>0, <1>1, <2>2, <2>3, LogoutEffect
  <1>2. ASSUME LogoutLocked(p, t) PROVE TurnsInv'
    <2>1. /\ From(p, t, "logout_lock") /\ call[p][t].op = "yes" /\ UNCHANGED <<row, held>>
          /\ To(p, t, "log_out", task[p][t].row, task[p][t].client)
      BY <1>0, <1>2, LogoutLockedEffect
    <2>2. Session \in held[p] /\ row.enc # None /\ Elsewhere(p)
      BY <1>0, <2>1, Now
    <2>3. \A c : Local("log_out", task[p][t].row.enc, task[p][t].client, c, Session \in held[p], row.enc)
      BY <2>2 DEF Local, NoClient
    <2>4. CASE UNCHANGED live /\ SameRuntime(p)
      BY <1>0, <2>1, <2>3, <2>4, Plain DEF Carrying
    <2>5. ASSUME NEW c \in Clients, rt[p].client = None, NewClient(p, c, task[p][t].row.enc), Has(p, c, rt[p].pairing)
          PROVE  TurnsInv'
      <3>1. Solo(p, t)
        BY <1>0, <1>a, <2>1, Alone
      <3>2. \A l \in live : l.proc # p
        BY <1>0, <2>1, <2>5, <3>1, ReachedAlone DEF Carrying
      <3>3. LiveInv'
        BY <1>0, <2>1, <2>2, <2>5, <3>2, LiveFirst
      <3>4. Local("log_out", task[p][t].row.enc, task[p][t].client, c, Session \in held'[p], row'.enc)
        BY <2>1, <2>3
      <3> QED BY <1>0, <2>1, <2>2, <2>5, <3>1, <3>3, <3>4, Moves
    <2> QED BY <1>0, <1>2, <2>4, <2>5, LogoutLockedEffect
  <1>3. ASSUME LogOut(p, t) PROVE TurnsInv'
    <2>1. /\ From(p, t, "log_out") /\ UNCHANGED <<row, live, rt, held>>
          /\ To(p, t, "logged_out", task[p][t].row, task[p][t].client)
      BY <1>0, <1>3, LogOutEffect
    <2>2. Session \in held[p]
      BY <1>0, <2>1, Now DEF Local, Holding
    <2>3. Local("logged_out", task[p][t].row.enc, task[p][t].client, rt[p].client, Session \in held[p], row.enc)
      BY <2>2 DEF Local, NoClient
    <2> QED BY <1>0, <1>b, <2>1, <2>3, Plain DEF Carrying
  <1>4. ASSUME LoggedOut(p, t) PROVE TurnsInv'
    <2>1. /\ From(p, t, "logged_out") /\ UNCHANGED <<row, held>> /\ Has(p, None, rt[p].pairing)
          /\ live' = Destroy(rt[p].client) /\ To(p, t, "forget", task[p][t].row, task[p][t].client)
      BY <1>0, <1>4, LoggedOutEffect
    <2>2. Session \in held[p]
      BY <1>0, <2>1, Now DEF Local, Holding
    <2>3. Solo(p, t)
      BY <1>0, <1>a, <2>1, Alone
    <2>4. Local("forget", task[p][t].row.enc, task[p][t].client, None, Session \in held[p], row.enc)
      BY <2>2 DEF Local, Holding
    <2> QED BY <1>0, <2>1, <2>3, <2>4, Drops DEF Carrying
  <1>5. ASSUME Forget(p, t) PROVE TurnsInv'
    <2>1. /\ From(p, t, "forget") /\ row' = NoRow /\ UNCHANGED live /\ SameRuntime(p) /\ Elsewhere(p)
          /\ To(p, t, "done", task[p][t].row, task[p][t].client)
      BY <1>0, <1>5, ForgetEffect
    <2>2. rt[p].client = None /\ (row.enc = None \/ Session \in held[p])
      BY <1>0, <2>1, Now DEF Local, NoClient, Acting
    <2>3. Solo(p, t)
      BY <1>0, <1>a, <2>1, Alone
    <2>4. "done" \notin Holding \union NoClient \union {"forget", "pair_lock", "reconnect_drop", "claim"}
      BY DEF Holding, NoClient
    <2> QED BY <1>0, <2>1, <2>2, <2>3, <2>4, GivesBack DEF Carrying
  <1> QED BY <1>1, <1>2, <1>3, <1>4, <1>5

\* The answers of the locks, and resume().
LEMMA ResumeTurns ==
    ASSUME Good, Turns', CalmInv', NEW p \in Procs, NEW t \in Tasks, ResumeStep(p, t)
    PROVE  TurnsInv'
PROOF
  <1> USE DEF From
  <1>0. TypeInv
    BY DEF Good
  <1>a. \A pc, r, c : To(p, t, pc, r, c) => \A u \in Tasks \ {t} : task'[p][u] = task[p][u]
    BY <1>0 DEF To
  <1>b. UNCHANGED rt => SameRuntime(p)
    BY <1>0, HasIs
  <1>c. t = Tick /\ task[p][t].pc \notin {"idle", "tick_drop", "tick_row"} => rt[p].pairing = "none"
    BY DEF Good, TurnsInv, TickInv
  <1>d. Local("idle", NoRow.enc, None, rt[p].client, Session \in held[p], row.enc)
    BY Free DEF Holding, NoClient
  <1>1. ASSUME HeldElsewhere(p, t) \/ LockError(p, t) PROVE TurnsInv'
    <2>1. /\ task[p][t].pc \in {"pair_lock", "reconnect_lock", "logout_lock", "resume_lock"}
          /\ UNCHANGED <<row, live, held>> /\ To(p, t, "idle", NoRow, None) /\ SameRuntime(p)
      BY <1>0, <1>1, AnswerEffect
    <2> QED BY <1>d, <2>1, Plain DEF Carrying
  <1>2. ASSUME Resumed(p, t) PROVE TurnsInv'
    <2>1. From(p, t, "resume_lock") /\ call[p][t].op = "yes" /\ UNCHANGED <<row, held>>
      BY <1>0, <1>2, ResumedEffect
    <2>2. PICK c \in Clients : /\ NewClient(p, c, task[p][t].row.enc) /\ Has(p, c, rt[p].pairing)
                              /\ To(p, t, "connect", task[p][t].row, c)
      BY <1>0, <1>2, ResumedEffect
    <2>3. Session \in held[p] /\ row.enc # None /\ rt[p].client = None /\ Elsewhere(p)
      BY <2>1, Now DEF Local, NoClient
    <2>4. Solo(p, t)
      BY <1>a, <2>1, <2>2, Alone
    <2>5. \A l \in live : l.proc # p
      BY <2>1, <2>3, <2>4, ReachedAlone DEF Carrying
    <2>6. LiveInv'
      BY <2>1, <2>2, <2>3, <2>5, LiveFirst
    <2>7. Local("connect", task[p][t].row.enc, c, c, Session \in held'[p], row'.enc)
      BY <2>1, <2>3 DEF Local, NoClient
    <2>8. t # Tick /\ rt[p].pairing # "none" => rt[p].pairing # "none" \/ task[p][Tick].pc = "idle"
      OBVIOUS
    <2> QED BY <1>c, <2>1, <2>2, <2>3, <2>4, <2>6, <2>7, <2>8, Moves
  <1>3. ASSUME Connected(p, t) PROVE TurnsInv'
    <2>1. /\ From(p, t, "connect") /\ UNCHANGED <<row, live, held>> /\ SameRuntime(p)
          /\ To(p, t, "record_me", task[p][t].row, task[p][t].client)
      BY <1>0, <1>3, ConnectedEffect
    <2>2. Local("record_me", task[p][t].row.enc, task[p][t].client, rt[p].client, Session \in held[p], row.enc)
      BY <2>1, Now DEF Local, Holding, NoClient
    <2> QED BY <1>c, <2>1, <2>2, Plain DEF Carrying
  <1>4. ASSUME RecordMe(p, t) PROVE TurnsInv'
    <2>1. /\ From(p, t, "record_me") /\ row' = [row EXCEPT !.me = TRUE] /\ UNCHANGED <<live, rt, held>>
          /\ To(p, t, "idle", NoRow, None)
      BY <1>0, <1>4, RecordMeEffect
    <2>2. row'.enc = row.enc
      BY <1>0, <2>1, RowType
    <2> QED BY <1>b, <1>d, <2>1, <2>2, Plain DEF Carrying
  <1>5. ASSUME ConnectFails(p, t) PROVE TurnsInv'
    <2>1. /\ task[p][t].pc \in {"connect", "record_me"} /\ UNCHANGED <<row, held>>
          /\ live' = Destroy(rt[p].client) /\ Has(p, None, rt[p].pairing) /\ To(p, t, "idle", NoRow, None)
      BY <1>0, <1>5, ConnectFailsEffect
    <2>2. Solo(p, t)
      BY <1>a, <2>1, Alone
    <2>3. Local("idle", NoRow.enc, None, None, Session \in held[p], row.enc)
      BY Free DEF Holding, NoClient
    <2> QED BY <2>1, <2>2, <2>3, Drops DEF Carrying
  <1>6. ASSUME Refused(p, t) PROVE TurnsInv'
    <2>1. /\ task[p][t].pc \in {"connect", "probe"} /\ UNCHANGED <<row, held>>
          /\ live' = Destroy(rt[p].client) /\ Has(p, None, rt[p].pairing)
          /\ To(p, t, "mark_revoked", task[p][t].row, task[p][t].client)
      BY <1>0, <1>6, RefusedEffect
    <2>2. Solo(p, t)
      BY <1>a, <2>1, Alone
    <2>3. Session \in held[p]
      BY <2>1, Now DEF Local, Holding
    <2>4. Local("mark_revoked", task[p][t].row.enc, task[p][t].client, None, Session \in held[p], row.enc)
      BY <2>3 DEF Local
    <2> QED BY <1>c, <2>1, <2>2, <2>4, Drops DEF Carrying
  <1>7. ASSUME MarkRevoked(p, t) PROVE TurnsInv'
    <2>1. /\ From(p, t, "mark_revoked") /\ UNCHANGED live /\ SameRuntime(p) /\ Elsewhere(p)
          /\ To(p, t, "done", task[p][t].row, task[p][t].client)
      BY <1>0, <1>7, MarkRevokedEffect
    <2>2. rt[p].client = None /\ Session \in held[p]
      BY <2>1, Now DEF Local, Holding, NoClient
    <2>3. Solo(p, t)
      BY <1>a, <2>1, Alone
    <2>4. "done" \notin Holding \union NoClient \union {"forget", "pair_lock", "reconnect_drop", "claim"}
      BY DEF Holding, NoClient
    <2> QED BY <1>c, <2>1, <2>2, <2>3, <2>4, GivesBack DEF Carrying
  <1>8. ASSUME MarkRevokedFails(p, t) \/ Done(p, t) PROVE TurnsInv'
    <2>1. /\ task[p][t].pc \in {"mark_revoked", "done"} /\ UNCHANGED <<row, live, rt, held>>
          /\ To(p, t, "idle", NoRow, None)
      BY <1>0, <1>8, DoneEffect
    <2> QED BY <1>b, <1>d, <2>1, Plain DEF Carrying
  <1> QED BY <1>1, <1>2, <1>3, <1>4, <1>5, <1>6, <1>7, <1>8 DEF ResumeStep

\* The heartbeat.
LEMMA TickTurns ==
    ASSUME Good, Turns', CalmInv', NEW p \in Procs, TickStep(p)
    PROVE  TurnsInv'
PROOF
  <1> USE DEF From
  <1>0. TypeInv /\ Tick \in Tasks
    BY DEF Good, Tasks
  <1>a. \A pc, r, c : To(p, Tick, pc, r, c) => \A u \in Tasks \ {Tick} : task'[p][u] = task[p][u]
    BY <1>0 DEF To
  <1>b. UNCHANGED rt => SameRuntime(p)
    BY <1>0, HasIs
  <1>c. task[p][Tick].pc \notin {"idle", "tick_drop", "tick_row"} => rt[p].pairing = "none"
    BY DEF Good, TurnsInv, TickInv
  <1>d. ASSUME NEW pc \in {"idle", "tick_drop", "tick_row"}, NEW r, NEW c, To(p, Tick, pc, r, c), SameRuntime(p),
               UNCHANGED <<row, held, live>>, task[p][Tick].pc \notin Carrying
        PROVE  TurnsInv'
    <2>1. Local(pc, r.enc, c, rt[p].client, Session \in held[p], row.enc)
      BY Free DEF Holding, NoClient
    <2> QED BY <1>0, <1>d, <2>1, Plain
  <1>e. "tick_row" \notin Holding \union NoClient \union {"forget", "pair_lock", "reconnect_drop", "claim"}
    BY DEF Holding, NoClient
  <1>1. ASSUME TickRead(p) PROVE TurnsInv'
    BY <1>0, <1>1, <1>b, <1>d, TickReadEffect DEF Carrying
  <1>2. ASSUME TickDrop(p) PROVE TurnsInv'
    <2>1. From(p, Tick, "tick_drop") /\ UNCHANGED row /\ Elsewhere(p)
      BY <1>0, <1>2, TickDropEffect
    <2>2. CASE UNCHANGED <<live, rt, held>> /\ To(p, Tick, "tick_row", task[p][Tick].row, task[p][Tick].client)
      BY <1>b, <1>d, <2>1, <2>2 DEF Carrying
    <2>3. CASE /\ rt[p].pairing = "none" /\ UNCHANGED held /\ live' = Destroy(rt[p].client) /\ Has(p, None, rt[p].pairing)
               /\ To(p, Tick, "tick_release", task[p][Tick].row, task[p][Tick].client)
      <3>1. Solo(p, Tick)
        BY <1>0, <1>a, <2>1, <2>3, Alone
      <3>2. Local("tick_release", task[p][Tick].row.enc, task[p][Tick].client, None, Session \in held[p], row.enc)
        BY DEF Local, Holding
      <3> QED BY <1>0, <2>1, <2>3, <3>1, <3>2, Drops DEF Carrying
    <2>4. CASE /\ rt[p].pairing = "none" /\ rt[p].client = None /\ UNCHANGED <<live, rt>>
               /\ To(p, Tick, "tick_row", task[p][Tick].row, task[p][Tick].client)
      <3>1. Solo(p, Tick)
        BY <1>0, <1>a, <2>1, <2>4, Alone
      <3> QED BY <1>0, <1>b, <1>e, <2>1, <2>4, <3>1, GivesBack DEF Carrying
    <2> QED BY <1>0, <1>2, <2>2, <2>3, <2>4, TickDropEffect
  <1>3. ASSUME TickRelease(p) PROVE TurnsInv'
    <2>1. /\ From(p, Tick, "tick_release") /\ UNCHANGED <<row, live, rt>> /\ Elsewhere(p)
          /\ To(p, Tick, "tick_row", task[p][Tick].row, task[p][Tick].client)
      BY <1>0, <1>3, TickReleaseEffect
    <2>2. rt[p].client = None
      BY <1>0, <2>1, Now DEF Local, NoClient
    <2>3. Solo(p, Tick)
      BY <1>0, <1>a, <2>1, Alone
    <2> QED BY <1>0, <1>b, <1>e, <2>1, <2>2, <2>3, GivesBack DEF Carrying
  <1>4. ASSUME TickRow(p) PROVE TurnsInv'
    <2>1. From(p, Tick, "tick_row") /\ UNCHANGED <<row, live, held>> /\ SameRuntime(p)
      BY <1>0, <1>4, TickRowEffect
    <2>2. CASE To(p, Tick, "idle", NoRow, None)
      BY <1>d, <2>1, <2>2 DEF Carrying
    <2>3. CASE /\ To(p, Tick, "resume_lock", task[p][Tick].row, task[p][Tick].client)
               /\ rt[p].client = None /\ rt[p].pairing = "none"
      <3>1. Local("resume_lock", task[p][Tick].row.enc, task[p][Tick].client, rt[p].client, Session \in held[p], row.enc)
        BY <2>3 DEF Local, Holding
      <3> QED BY <1>0, <2>1, <2>3, <3>1, Plain DEF Carrying
    <2>4. CASE /\ To(p, Tick, "probe", task[p][Tick].row, rt[p].client)
               /\ rt[p].client # None /\ rt[p].pairing = "none"
      <3>1. Session \in held[p]
        BY <1>0, <2>4, Now
      <3>2. Local("probe", task[p][Tick].row.enc, rt[p].client, rt[p].client, Session \in held[p], row.enc)
        BY <3>1 DEF Local, NoClient
      <3> QED BY <1>0, <2>1, <2>4, <3>2, Plain DEF Carrying
    <2> QED BY <1>0, <1>4, <2>2, <2>3, <2>4, TickRowEffect
  <1>5. ASSUME ProbeOk(p) \/ ProbeFails(p) PROVE TurnsInv'
    BY <1>0, <1>5, <1>d, ProbeEffect DEF Carrying
  <1> QED BY <1>1, <1>2, <1>3, <1>4, <1>5 DEF TickStep

\* A check of the lock connection finds the backend it knows, so nothing is lost.
LEMMA CheckFinds ==
    ASSUME Good, Turns', NEW p \in Procs, Locks!Verify(p), OnLocksLost(p)
    PROVE  UNCHANGED <<held, rt, closing>> /\ pid' = [pid EXCEPT ![p] = conn[p]]
PROOF
  <1>1. fails \in [Procs -> Nat] /\ held \in [Procs -> SUBSET {Session}] /\ pid[p] \in {0, conn[p]}
    BY DEF Good, TypeInv, TypeOK, Locks!TypeOK, TurnsInv, CalmInv
  <1>2. ~Locks!VerifyFails(p)
    <2>1. fails[p] = 0 /\ fails'[p] = 0
      BY DEF Good, Turns, LocksLast
    <2> QED BY <1>1, <2>1 DEF Locks!VerifyFails
  <1>3. pid' = [pid EXCEPT ![p] = conn[p]] /\ held' = held
    BY <1>1, <1>2 DEF Locks!Verify, Locks!VerifyOk
  <1>4. Locks!Lost(p) = {}
    BY <1>3 DEF Locks!Lost
  <1> QED BY <1>3, <1>4 DEF OnLocksLost

\* The lock connection at work: what is granted is held.
LEMMA LockTurns ==
    ASSUME Good, Turns', NEW p \in Procs, TimerChecks(p) \/ \E t \in Tasks : LockStep(p, t)
    PROVE  TurnsInv'
PROOF
  <1>1. /\ call \in [Procs -> [Tasks -> Locks!Calls]] /\ held \in [Procs -> SUBSET {Session}]
        /\ pid \in [Procs -> Nat] /\ rt \in [Procs -> Runtimes]
        /\ \A q \in Procs : closing[q] = {} /\ pid[q] \in {0, conn[q]}
        /\ \A q \in Procs, u \in Tasks : call[q][u].op = "yes" => Session \in held[q]
        /\ \A q \in Procs, u \in Tasks : call[q][u].s = Session
    BY DEF Good, TurnsInv, CalmInv, TypeInv, TypeOK, Locks!TypeOK, Locks!Calls
  <1>2. ASSUME NEW t \in Tasks, NEW op, NEW s, Locks!Proceed(p, t, op, s), UNCHANGED <<conn, rt, closing>>,
               \A q \in Procs : pid'[q] \in {0, conn[q]} /\ (Session \in held[q] => Session \in held'[q]),
               op = "yes" => Session \in held'[p], UNCHANGED <<task, row, live>>
        PROVE  TurnsInv'
    <2>1. \A q \in Procs, u \in Tasks : <<q, u>> # <<p, t>> => call'[q][u] = call[q][u]
      BY <1>1, <1>2 DEF Locks!Proceed
    <2>2. call'[p][t].op = op
      BY <1>1, <1>2 DEF Locks!Proceed, Locks!Idle
    <2>3. CalmInv'
      BY <1>1, <1>2, <2>1, <2>2 DEF CalmInv
    <2> QED BY <1>1, <1>2, <2>3, Quiet
  <1>3. ASSUME TimerChecks(p) PROVE TurnsInv'
    <2>1. Locks!Verify(p) /\ OnLocksLost(p) /\ UNCHANGED <<conn, call, row, live, task>>
      BY <1>3 DEF TimerChecks, Locks!TimerVerify
    <2>2. UNCHANGED <<held, rt, closing>> /\ pid' = [pid EXCEPT ![p] = conn[p]]
      BY <2>1, CheckFinds
    <2>3. CalmInv'
      BY <1>1, <2>1, <2>2 DEF CalmInv
    <2> QED BY <1>1, <2>1, <2>2, <2>3, Quiet
  <1>4. ASSUME NEW t \in Tasks, AcquireChecks(p, t) PROVE TurnsInv'
    <2>1. /\ Locks!Verify(p) /\ OnLocksLost(p) /\ UNCHANGED <<conn, row, live, task>>
          /\ Locks!Proceed(p, t, IF call[p][t].s \in held'[p] THEN "yes" ELSE "try", call[p][t].s)
      BY <1>4 DEF AcquireChecks, Locks!AcquireChecked
    <2>2. UNCHANGED <<held, rt, closing>> /\ pid' = [pid EXCEPT ![p] = conn[p]]
      BY <2>1, CheckFinds
    <2>3. \A q \in Procs : pid'[q] \in {0, conn[q]}
      BY <1>1, <2>2
    <2>4. (IF call[p][t].s \in held'[p] THEN "yes" ELSE "try") = "yes" => Session \in held'[p]
      BY <1>1
    <2> QED BY <1>2, <2>1, <2>2, <2>3, <2>4
  <1>5. ASSUME NEW t \in Tasks, LockAnswers(p, t) PROVE TurnsInv'
    <2>1. UNCHANGED <<row, live, rt, task, closing>> /\ (Locks!TryLock(p, t) \/ Locks!Unlock(p, t))
      BY <1>5 DEF LockAnswers
    <2>2. CASE Locks!TryLock(p, t)
      <3>1. UNCHANGED <<conn, pid>>
        BY <2>2 DEF Locks!TryLock
      <3>2. CASE held' = [held EXCEPT ![p] = held[p] \union {call[p][t].s}] /\ Locks!Proceed(p, t, "yes", call[p][t].s)
        <4>1. Session \in held'[p] /\ \A q \in Procs : Session \in held[q] => Session \in held'[q]
          BY <1>1, <3>2
        <4> QED BY <1>1, <1>2, <2>1, <3>1, <3>2, <4>1
      <3>3. CASE UNCHANGED held /\ Locks!Proceed(p, t, "no", call[p][t].s)
        BY <1>1, <1>2, <2>1, <3>1, <3>3
      <3> QED BY <2>2, <3>2, <3>3 DEF Locks!TryLock
    <2>3. CASE Locks!Unlock(p, t)
      <3>1. UNCHANGED <<conn, pid, held>> /\ Locks!Proceed(p, t, "idle", call[p][t].s)
        BY <2>3 DEF Locks!Unlock
      <3> QED BY <1>1, <1>2, <2>1, <3>1
    <2> QED BY <2>1, <2>2, <2>3
  <1> QED BY <1>3, <1>4, <1>5 DEF LockStep

\* A process ends: the others keep what they have.
LEMMA CrashTurns ==
    ASSUME Good, NEW p \in Procs, Crash(p)
    PROVE  TurnsInv'
PROOF
  <1>1. /\ live' = {l \in live : l.proc # p} /\ rt' = [rt EXCEPT ![p] = NewRuntime] /\ UNCHANGED row
        /\ task' = [task EXCEPT ![p] = [t \in Tasks |-> NoTask]] /\ closing' = [closing EXCEPT ![p] = {}]
        /\ conn' = [conn EXCEPT ![p] = @ + 1] /\ pid' = [pid EXCEPT ![p] = 0] /\ held' = [held EXCEPT ![p] = {}]
        /\ call' = [call EXCEPT ![p] = [t \in Tasks |-> Locks!Idle]]
    BY DEF Crash, Locks!Restart
  <1>2. /\ rt \in [Procs -> Runtimes] /\ task \in [Procs -> [Tasks -> TaskStates]] /\ closing \in [Procs -> SUBSET Clients]
        /\ conn \in [Procs -> Nat \ {0}] /\ pid \in [Procs -> Nat] /\ held \in [Procs -> SUBSET {Session}]
        /\ call \in [Procs -> [Tasks -> Locks!Calls]] /\ \A l \in live : l.proc \in Procs
    BY DEF Good, TypeInv, TypeOK, TaskStates, Locks!TypeOK
  <1>3. /\ rt'[p] = NewRuntime /\ closing'[p] = {} /\ pid'[p] = 0 /\ \A t \in Tasks : task'[p][t] = NoTask /\ call'[p][t] = Locks!Idle
        /\ \A q \in Procs \ {p} : /\ rt'[q] = rt[q] /\ task'[q] = task[q] /\ closing'[q] = closing[q] /\ conn'[q] = conn[q]
                                   /\ pid'[q] = pid[q] /\ held'[q] = held[q] /\ call'[q] = call[q]
    BY <1>1, <1>2
  <1>4. NoTask.pc = "idle" /\ NewRuntime.client = None /\ Locks!Idle.op = "idle"
    BY DEF NoTask, NewRuntime, Locks!Idle
  <1>5. LocalInv'
    <2> SUFFICES ASSUME NEW q \in Procs, NEW u \in Tasks
                 PROVE  Local(task'[q][u].pc, task'[q][u].row.enc, task'[q][u].client, rt'[q].client,
                              Session \in held'[q], row'.enc)
      BY DEF LocalInv
    <2>1. CASE q = p
      BY <1>3, <1>4, <2>1, Free DEF Holding, NoClient
    <2>2. CASE q # p
      BY <1>1, <1>3, <2>2 DEF Good, TurnsInv, LocalInv
    <2> QED BY <2>1, <2>2
  <1>6. ProcInv'
    BY <1>1, <1>3, <1>4 DEF Good, TurnsInv, ProcInv
  <1>7. TickInv'
    <2>1. Tick \in Tasks
      BY DEF Tasks
    <2> QED BY <1>3, <1>4, <2>1 DEF Good, TurnsInv, TickInv
  <1>8. CalmInv'
    BY <1>3, <1>4 DEF Good, TurnsInv, CalmInv
  <1>9. LiveInv'
    BY <1>1, <1>2, <1>3 DEF Good, TurnsInv, LiveInv
  <1> QED BY <1>5, <1>6, <1>7, <1>8, <1>9 DEF TurnsInv

LEMMA TurnsStep == Good /\ Next /\ Turns' => TurnsInv'
PROOF
  <1> SUFFICES ASSUME Good, Next, Turns' PROVE TurnsInv'
    OBVIOUS
  <1>0. TypeInv /\ rt \in [Procs -> Runtimes] /\ Tick \in Tasks
    BY DEF Good, TypeInv, TypeOK, Tasks
  <1>a. ASSUME UNCHANGED <<lockVars, task, row, live, rt, closing>> PROVE TurnsInv'
    <2>1. CalmInv'
      BY <1>a DEF lockVars, Good, TurnsInv, CalmInv
    <2> QED BY <1>0, <1>a, <2>1, Quiet DEF lockVars
  <1>1. ASSUME NEW p \in Procs, NEW t \in Tasks, TaskStep(p, t) PROVE TurnsInv'
    <2>1. CASE t \in Slots /\ RequestStep(p, t)
      <3>1. CalmInv'
        BY <2>1, RequestCalm
      <3> QED BY <2>1, <3>1, PairTurns, ReconnectTurns, LogoutTurns DEF RequestStep
    <2>2. CASE t = Tick /\ TickStep(p)
      BY <2>2, TickCalm, TickTurns
    <2>3. CASE ResumeStep(p, t)
      BY <2>3, ResumeCalm, ResumeTurns
    <2>4. CASE LockStep(p, t)
      BY <2>4, LockTurns
    <2> QED BY <1>1, <2>1, <2>2, <2>3, <2>4 DEF TaskStep
  <1>2. ASSUME NEW p \in Procs, NEW t \in Tasks, NEW r \in Requests, Request(p, t, r) PROVE TurnsInv'
    <2>1. /\ task[p][t].pc = "idle" /\ t \in Slots /\ r \in {"pair", "reconnect", "logout"}
          /\ To(p, t, r, row, None) /\ UNCHANGED <<lockVars, row, live, rt, closing>>
      BY <1>0, <1>2, RequestEffect
    <2>2. CalmInv'
      BY <2>1 DEF lockVars, Good, TurnsInv, CalmInv
    <2>3. SameRuntime(p) /\ UNCHANGED held /\ t # Tick
      BY <1>0, <2>1, HasIs, BridgeAssumption DEF lockVars
    <2>4. Local(r, row.enc, None, rt[p].client, Session \in held[p], row.enc)
      BY <2>1, Free DEF Holding, NoClient
    <2> QED BY <2>1, <2>2, <2>3, <2>4, Plain DEF Carrying
  <1>3. ASSUME NEW p \in Procs, TimerChecks(p) PROVE TurnsInv'
    BY <1>3, LockTurns
  <1>4. ASSUME NEW p \in Procs, SubmitPassword(p) PROVE TurnsInv'
    <2>1. UNCHANGED <<row, live, task, held, closing>> /\ rt[p].pairing # "none" /\ \E x : Has(p, rt[p].client, x)
      BY <1>0, <1>4, PasswordEffect
    <2>2. UNCHANGED lockVars
      BY <1>4 DEF SubmitPassword
    <2>3. CalmInv'
      BY <2>1, <2>2 DEF lockVars, Good, TurnsInv, CalmInv
    <2> QED BY <2>1, <2>3, Quiet DEF Has
  <1>5. ASSUME NEW p \in Procs, NEW c \in Clients, LostClosed(p, c) PROVE TurnsInv'
    BY <1>5 DEF LostClosed, Good, TurnsInv, CalmInv
  <1>6. ASSUME NEW p \in Procs, LockConnectionDrops(p) PROVE TurnsInv'
    <2>1. spent' = [spent EXCEPT !.drops = spent.drops + 1] /\ spent.drops = 0 /\ spent'.drops = 0
      BY <1>6 DEF LockConnectionDrops, Good, Turns, LocksLast
    <2>2. spent'.drops = 1
      BY <2>1 DEF Good, TypeInv, TypeOK
    <2> QED BY <2>1, <2>2
  <1>7. ASSUME NEW p \in Procs, Crash(p) PROVE TurnsInv'
    BY <1>7, CrashTurns
  <1>8. ASSUME NEW p \in Procs, Start(p) PROVE TurnsInv'
    BY <1>8, <1>a DEF Start
  <1>9. ASSUME LockReaped PROVE TurnsInv'
    <2>1. UNCHANGED <<conn, pid, held, call, task, row, live, rt, closing>>
      BY <1>9 DEF LockReaped, Locks!Reap
    <2>2. CalmInv'
      BY <2>1 DEF Good, TurnsInv, CalmInv
    <2> QED BY <1>0, <2>1, <2>2, Quiet
  <1>10. ASSUME NEW k \in Keys, OwnerTerminates(k) \/ KeyDuplicated(k) PROVE TurnsInv'
    BY <1>10, <1>a DEF OwnerTerminates, KeyDuplicated
  <1> QED BY <1>1, <1>2, <1>3, <1>4, <1>5, <1>6, <1>7, <1>8, <1>9, <1>10 DEF Next

LEMMA TurnsInit == Init => Turns /\ TurnsInv
PROOF
  <1> SUFFICES ASSUME Init PROVE Turns /\ TurnsInv
    OBVIOUS
  <1>1. /\ \A p \in Procs, t \in Tasks : task[p][t] = NoTask /\ call[p][t] = Locks!Idle
        /\ \A p \in Procs : /\ rt[p] = NewRuntime /\ closing[p] = {} /\ pid[p] = 0 /\ fails[p] = 0
        /\ live = {} /\ spent.drops = 0
    BY DEF Init, Locks!Init
  <1>2. NoTask.pc = "idle" /\ NewRuntime.client = None /\ Locks!Idle.op = "idle" /\ Tick \in Tasks /\ Slots \subseteq Tasks
    BY DEF NoTask, NewRuntime, Locks!Idle, Tasks
  <1>3. Turns
    <2>1. \A p \in Procs : Busy(p) = {} /\ {t \in Slots : task[p][t].pc # "idle"} = {}
      BY <1>1, <1>2 DEF Busy
    <2>2. OneAtATime
      <3>1. \A p \in Procs : Cardinality(Busy(p)) = 0 /\ Cardinality({t \in Slots : task[p][t].pc # "idle"}) = 0
        BY <2>1, FS_EmptySet
      <3>2. 0 <= 1
        OBVIOUS
      <3> QED BY ONLY <3>1, <3>2 DEF OneAtATime
    <2>3. RowsAsRead
      BY <1>1, <1>2 DEF RowsAsRead, Acting
    <2> QED BY <1>1, <2>2, <2>3 DEF Turns, LocksLast
  <1>4. LocalInv
    BY <1>1, <1>2, Free DEF LocalInv, Holding, NoClient
  <1>5. ProcInv /\ TickInv /\ CalmInv /\ LiveInv
    BY <1>1, <1>2 DEF ProcInv, TickInv, CalmInv, LiveInv
  <1> QED BY <1>3, <1>4, <1>5 DEF TurnsInv

\* In the world of turns the invariant holds, in every world what holds of the bridge anyway.
WorldInv == TypeInv /\ LocksInv /\ FlowInv /\ (world = "turns" => Turns /\ TurnsInv)

LEMMA WorldStep == WorldInv /\ [WorldsNext]_<<vars, world>> => WorldInv'
PROOF
  <1> SUFFICES ASSUME WorldInv, [WorldsNext]_<<vars, world>> PROVE WorldInv'
    OBVIOUS
  <1>1. [Next]_vars /\ UNCHANGED world
    BY DEF WorldsNext
  <1>2. TypeInv' /\ LocksInv' /\ FlowInv'
    BY <1>1, TypeStep, LocksInvStep, FlowStep DEF WorldInv
  <1>3. ASSUME world = "turns", WorldsNext PROVE Turns' /\ TurnsInv'
    BY <1>3, TurnsStep DEF WorldsNext, Bound, WorldInv, Good
  <1>4. ASSUME world = "turns", UNCHANGED <<vars, world>> PROVE Turns' /\ TurnsInv'
    <2>1. UNCHANGED <<conn, pid, held, fails, call, row, live, rt, task, closing, spent>>
      BY <1>4 DEF vars, lockVars
    <2>2. Turns'
      BY <1>4, <2>1 DEF WorldInv, Turns, OneAtATime, Busy, RowsAsRead, LocksLast
    <2>3. TurnsInv'
      BY <1>4, <2>1 DEF WorldInv, TurnsInv, LocalInv, ProcInv, TickInv, CalmInv, LiveInv
    <2> QED BY <2>2, <2>3
  <1> QED BY <1>1, <1>2, <1>3, <1>4 DEF WorldInv

\* Two clients are of one process, for both are under the lock; there they are the Runtime's or a
\* pairing's, never both at a time.
LEMMA OneInTurns == Good => OneClientPerKey /\ ClientHoldsLock /\ NoStrayClient
PROOF
  <1> SUFFICES ASSUME Good PROVE OneClientPerKey /\ ClientHoldsLock /\ NoStrayClient
    OBVIOUS
  <1>1. \A l \in live : l.proc \in Procs /\ l.id \in Clients /\ l.id # None
    BY Bounds DEF Good, TypeInv, TypeOK, Clients, None
  <1>2. ClientHoldsLock
    BY DEF Good, TurnsInv, ProcInv, ClientHoldsLock
  <1>3. NoStrayClient
    BY <1>1 DEF Good, TurnsInv, LiveInv, NoStrayClient
  <1>4. ASSUME NEW l \in live, NEW m \in live PROVE l = m
    <2>1. l.proc = m.proc
      BY <1>1, Exclusive DEF Good, TurnsInv, LiveInv
    <2> DEFINE p == l.proc
    <2>2. p \in Procs /\ \A t \in Tasks : task[p][t].pc \in Carrying => rt[p].client = None
      BY <1>1, Now DEF Local, Carrying, NoClient
    <2>3. \A t, u \in Tasks : task[p][t].pc \in Carrying /\ task[p][u].pc \in Carrying => t = u
      BY <2>2 DEF Good, FlowInv, FlowPcs, Carrying
    <2>4. l.id = m.id
      BY <1>1, <2>1, <2>2, <2>3 DEF Good, TurnsInv, LiveInv
    <2> QED BY <2>4 DEF Good, TurnsInv, LiveInv
  <1> QED BY <1>2, <1>3, <1>4 DEF OneClientPerKey

\* Telegram never sees one key in two clients (sessions.ts:132-133), a process with a client has the
\* lock (sessions.ts:27-28), and whoever has to stop a client can reach it: through pairings,
\* logouts, reconnects, terminated devices and crashes of any number of processes, while in each of
\* them operations take turns and act on the row as it is, and the lock connections last.
THEOREM OneClientInEachTurn == WorldsSpec => []ClientsInTurns
PROOF
  <1>1. WorldsInit => WorldInv
    BY TypeInit, LocksInvInit, FlowInit, TurnsInit DEF WorldsInit, WorldInv
  <1>2. WorldInv => ClientsInTurns
    BY OneInTurns DEF WorldInv, Good, ClientsInTurns, OneClientInTurns, LockedInTurns, ReachableInTurns
  <1> QED BY <1>1, <1>2, WorldStep, PTL DEF WorldsSpec

=============================================================================

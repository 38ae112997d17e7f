---------------------------- MODULE SessionLocks ----------------------------
(***************************************************************************)
(* apps/telegram-bridge/src/locks.ts: "one process per Telegram session,   *)
(* enforced by Postgres advisory locks".                                   *)
(*                                                                         *)
(* Every process keeps all its locks on one dedicated connection.  A       *)
(* session-level advisory lock belongs to the backend serving that         *)
(* connection and is re-entrant: taking it twice takes two unlocks.  When  *)
(* the connection is replaced every lock is gone, and the process learns   *)
(* of it only when verify() next compares backend pids.                    *)
(*                                                                         *)
(* A Task is one asynchronous operation of a process (a request handler,   *)
(* the heartbeat, a pairing).  Tasks interleave at awaits only, and each   *)
(* has at most one query outstanding.  The connection answers in the order *)
(* the queries were sent: ahead[p][t] are the tasks whose queries were     *)
(* sent before t's and are not answered yet.                               *)
(***************************************************************************)
EXTENDS Naturals, FiniteSets

CONSTANTS
    Procs,      \* bridge processes
    Sessions,   \* Telegram sessions
    Tasks,      \* asynchronous operations one process can have in flight
    NoBackend,  \* the owner of a lock nobody has
    MaxConn,    \* bound: connections (backends) a process goes through
    MaxFails,   \* bound: checks that fail in one life of a process
    MaxDepth    \* bound: how often one backend takes the same lock

ASSUME BoundsAssumption == MaxConn \in Nat /\ MaxFails \in Nat /\ MaxDepth \in Nat
ASSUME TasksAssumption == IsFiniteSet(Tasks)
ASSUME SessionsAssumption == Sessions # {}
ASSUME NoBackendAssumption == NoBackend \notin Procs \X Nat

VARIABLES
    conn,   \* conn[p]: pid of the backend now serving p's lock connection
    owner,  \* owner[s]: the backend, <<p, pid>>, that has s's advisory lock
    depth,  \* depth[s]: how often that backend has taken it
    pid,    \* SessionLocks.pid: the backend p last saw, 0 for undefined
    held,   \* SessionLocks.held: the sessions p believes it has locked
    fails,  \* checks that failed since p started
    call,   \* call[p][t]: the call into SessionLocks that t has open
    ahead   \* ahead[p][t]: the tasks whose queries are answered before t's

lockVars == <<conn, owner, depth, pid, held, fails, call, ahead>>

Ops == {"idle", "check", "try", "unlock", "yes", "no", "error"}
Calls == [op : Ops, s : Sessions]

\* No call open; the session of such a record means nothing.
Idle == [op |-> "idle", s |-> CHOOSE s \in Sessions : TRUE]

\* The phases in which a query is on its way.
Waiting == {"check", "try", "unlock"}

TypeOK ==
    /\ conn \in [Procs -> Nat \ {0}]
    /\ owner \in [Sessions -> (Procs \X Nat) \union {NoBackend}]
    /\ depth \in [Sessions -> Nat]
    /\ pid \in [Procs -> Nat]
    /\ held \in [Procs -> SUBSET Sessions]
    /\ fails \in [Procs -> Nat]
    /\ call \in [Procs -> [Tasks -> Calls]]
    /\ ahead \in [Procs -> [Tasks -> SUBSET Tasks]]

Init ==
    /\ conn = [p \in Procs |-> 1]
    /\ owner = [s \in Sessions |-> NoBackend]
    /\ depth = [s \in Sessions |-> 0]
    /\ pid = [p \in Procs |-> 0]
    /\ held = [p \in Procs |-> {}]
    /\ fails = [p \in Procs |-> 0]
    /\ call = [p \in Procs |-> [t \in Tasks |-> Idle]]
    /\ ahead = [p \in Procs |-> [t \in Tasks |-> {}]]

-----------------------------------------------------------------------------
\* The connection.

Backend(p) == <<p, conn[p]>>

Outstanding(p) == {t \in Tasks : call[p][t].op \in Waiting}

\* The call t has open moves to phase op; a query goes to the back of the queue.
Proceed(p, t, op, s) ==
    /\ call' = [call EXCEPT ![p][t] = IF op = "idle" THEN Idle ELSE [op |-> op, s |-> s]]
    /\ ahead' = [ahead EXCEPT ![p] = [u \in Tasks |->
           IF u = t THEN (IF op \in Waiting THEN Outstanding(p) \ {t} ELSE {})
                    ELSE ahead[p][u] \ {t}]]

\* It is t's turn to be answered.
Answered(p, t, op) == call[p][t].op = op /\ ahead[p][t] = {}

-----------------------------------------------------------------------------
\* verify(): the part that follows the answer of SELECT pg_backend_pid().

\* Mutant: another pid is taken over like the first.
VerifyOkKeepsHeld(p) == pid' = [pid EXCEPT ![p] = conn[p]] /\ UNCHANGED <<held, fails>>

\* The answer: the first pid seen is taken as it is, another one than before
\* means that every lock is gone.
VerifyOk(p) ==
    /\ pid' = [pid EXCEPT ![p] = conn[p]]
    /\ held' = IF pid[p] \in {0, conn[p]} THEN held ELSE [held EXCEPT ![p] = {}]
    /\ UNCHANGED fails

\* The query failed: treated as a loss of every lock.
VerifyFails(p) ==
    /\ fails[p] < MaxFails
    /\ fails' = [fails EXCEPT ![p] = @ + 1]
    /\ pid' = [pid EXCEPT ![p] = 0]
    /\ held' = [held EXCEPT ![p] = {}]

Verify(p) == VerifyOk(p) \/ VerifyFails(p)

\* The sessions onLost is called with in this step.
Lost(p) == held[p] \ held'[p]

\* The 5 s timer.  It asks for the pid and nothing waits for it.
TimerVerify(p) == Verify(p) /\ UNCHANGED <<conn, owner, depth, call, ahead>>

-----------------------------------------------------------------------------
\* acquire(id)

Acquire(p, t, s) ==
    /\ call[p][t].op = "idle"
    /\ Proceed(p, t, "check", s)
    /\ UNCHANGED <<conn, owner, depth, pid, held, fails>>

\* Mutant: whether the session is held is looked up before the check.
AcquireCheckedEarly(p, t) ==
    /\ Answered(p, t, "check")
    /\ Verify(p)
    /\ LET s == call[p][t].s
       IN  Proceed(p, t, IF s \in held[p] THEN "yes" ELSE "try", s)
    /\ UNCHANGED <<conn, owner, depth>>

\* verify() returned: a session already held is answered at once, another one
\* is asked for in the same breath.
AcquireChecked(p, t) ==
    /\ Answered(p, t, "check")
    /\ Verify(p)
    /\ LET s == call[p][t].s
       IN  Proceed(p, t, IF s \in held'[p] THEN "yes" ELSE "try", s)
    /\ UNCHANGED <<conn, owner, depth>>

\* pg_try_advisory_lock: granted to the backend that has the lock already.
TryLock(p, t) ==
    /\ Answered(p, t, "try")
    /\ LET s == call[p][t].s
       IN  \/ /\ owner[s] \in {NoBackend, Backend(p)} /\ depth[s] < MaxDepth
              /\ owner' = [owner EXCEPT ![s] = Backend(p)]
              /\ depth' = [depth EXCEPT ![s] = @ + 1]
              /\ held' = [held EXCEPT ![p] = @ \union {s}]
              /\ Proceed(p, t, "yes", s)
           \/ /\ owner[s] \notin {NoBackend, Backend(p)}
              /\ Proceed(p, t, "no", s)
              /\ UNCHANGED <<owner, depth, held>>
    /\ UNCHANGED <<conn, pid, fails>>

\* The caller goes on with the answer.
Return(p, t) ==
    /\ call[p][t].op \in {"yes", "no", "error"}
    /\ Proceed(p, t, "idle", call[p][t].s)
    /\ UNCHANGED <<conn, owner, depth, pid, held, fails>>

-----------------------------------------------------------------------------
\* release(id): a session that is not held is left alone.

\* Mutant: the session is unlocked whether it is held or not.
ReleaseAlways(p, t, s) ==
    /\ call[p][t].op = "idle"
    /\ held' = [held EXCEPT ![p] = @ \ {s}]
    /\ Proceed(p, t, "unlock", s)
    /\ UNCHANGED <<conn, owner, depth, pid, fails>>

\* Mutant: the unlock does not ask whose lock it is.
UnlockAnyone(p, t) ==
    /\ Answered(p, t, "unlock")
    /\ LET s == call[p][t].s
       IN  /\ depth' = [depth EXCEPT ![s] = @ - 1]
           /\ owner' = [owner EXCEPT ![s] = IF depth[s] = 1 THEN NoBackend ELSE @]
           /\ Proceed(p, t, "idle", s)
    /\ UNCHANGED <<conn, pid, held, fails>>

Release(p, t, s) ==
    /\ call[p][t].op = "idle"
    /\ s \in held[p]
    /\ held' = [held EXCEPT ![p] = @ \ {s}]
    /\ Proceed(p, t, "unlock", s)
    /\ UNCHANGED <<conn, owner, depth, pid, fails>>

\* pg_advisory_unlock: does nothing on a backend that does not have the lock.
Unlock(p, t) ==
    /\ Answered(p, t, "unlock")
    /\ LET s == call[p][t].s
       IN  /\ IF owner[s] = Backend(p)
              THEN /\ depth' = [depth EXCEPT ![s] = @ - 1]
                   /\ owner' = [owner EXCEPT ![s] = IF depth[s] = 1 THEN NoBackend ELSE @]
              ELSE UNCHANGED <<owner, depth>>
           /\ Proceed(p, t, "idle", s)
    /\ UNCHANGED <<conn, pid, held, fails>>

-----------------------------------------------------------------------------
\* Failures.

\* p's connection is replaced.  Queries on the wire are rejected: a lock
\* request throws to its caller, an unlock's error is swallowed, and a check is
\* sent again or fails (AcquireChecked).  Until Postgres notices (Reap), the
\* lock stays with the backend p no longer talks to.
Drop(p) ==
    /\ conn[p] < MaxConn
    /\ conn' = [conn EXCEPT ![p] = @ + 1]
    /\ call' = [call EXCEPT ![p] = [t \in Tasks |->
           CASE call[p][t].op = "try"    -> [call[p][t] EXCEPT !.op = "error"]
             [] call[p][t].op = "unlock" -> Idle
             [] OTHER                    -> call[p][t]]]
    /\ ahead' = [ahead EXCEPT ![p] = [t \in Tasks |->
               {u \in @[t] : call[p][u].op = "check" /\ call[p][t].op = "check"}]]
    /\ UNCHANGED <<owner, depth, pid, held, fails>>

\* Postgres ends a backend that has no client any more.
Reap(s) ==
    /\ \E p \in Procs, n \in 1 .. MaxConn : n < conn[p] /\ owner[s] = <<p, n>>
    /\ owner' = [owner EXCEPT ![s] = NoBackend]
    /\ depth' = [depth EXCEPT ![s] = 0]
    /\ UNCHANGED <<conn, pid, held, fails, call, ahead>>

\* The process ends, or is killed, and is started again: close() releases what
\* is held and ends the connection, a crash leaves both to Postgres.
Restart(p) ==
    /\ conn[p] < MaxConn
    /\ conn' = [conn EXCEPT ![p] = @ + 1]
    /\ pid' = [pid EXCEPT ![p] = 0]
    /\ held' = [held EXCEPT ![p] = {}]
    /\ fails' = [fails EXCEPT ![p] = 0]
    /\ call' = [call EXCEPT ![p] = [t \in Tasks |-> Idle]]
    /\ ahead' = [ahead EXCEPT ![p] = [t \in Tasks |-> {}]]
    /\ UNCHANGED <<owner, depth>>

-----------------------------------------------------------------------------
TaskStep(p, t) ==
    \/ \E s \in Sessions : Acquire(p, t, s) \/ Release(p, t, s)
    \/ AcquireChecked(p, t) \/ TryLock(p, t) \/ Return(p, t) \/ Unlock(p, t)

ProcStep(p) == TimerVerify(p) \/ Drop(p) \/ Restart(p)

Next ==
    \/ \E p \in Procs : ProcStep(p) \/ \E t \in Tasks : TaskStep(p, t)
    \/ \E s \in Sessions : Reap(s)

Spec == Init /\ [][Next]_lockVars

-----------------------------------------------------------------------------
\* p's own view of its connection is right, and no check of it ever failed.
Current(p) == fails[p] = 0 /\ pid[p] = conn[p]

\* A session in `held` is really locked by this process's backend, unless the
\* connection was replaced and no check has seen it yet.  Concurrent acquires
\* and releases of the same session and unlocks still on the wire included
\* (the accounting between `held` and the re-entrant lock, locks.ts:49-60).
HeldIsLocked ==
    \A p \in Procs, s \in Sessions :
        Current(p) /\ s \in held[p] => owner[s] = Backend(p)

\* Two processes whose connection is as they last saw it never both hold a
\* session: what the module exists for ("one process per Telegram session").
MutualExclusion ==
    \A p, q \in Procs : p # q /\ Current(p) /\ Current(q) => held[p] \intersect held[q] = {}

\* acquire() answers true only with the lock: the session is in `held` of that
\* process when the lock is granted, and a true answer for a session held
\* already is given only to a process whose connection was checked since it
\* asked.
TrueMeansLocked ==
    [][\A p \in Procs, t \in Tasks :
        call'[p][t].op = "yes" /\ call[p][t].op # "yes" /\ fails'[p] = 0
            => owner'[call[p][t].s] = Backend(p) /\ call[p][t].s \in held'[p]]_lockVars

-----------------------------------------------------------------------------
(* The strengthening that makes HeldIsLocked inductive.                      *)

Unlocking(p, s) == {t \in Tasks : call[p][t] = [op |-> "unlock", s |-> s]}
Trying(p, s) == {t \in Tasks : call[p][t] = [op |-> "try", s |-> s]}

\* Postgres counts a lock exactly while a backend has it, and no backend that
\* is still to come has one.
LockState ==
    \A s \in Sessions :
        /\ owner[s] = NoBackend <=> depth[s] = 0
        /\ owner[s] # NoBackend => owner[s][2] <= conn[owner[s][1]]

\* The pid last seen is one the process had; before the first nothing is held.
PidState ==
    \A p \in Procs : pid[p] <= conn[p] /\ (fails[p] = 0 /\ pid[p] = 0 => held[p] = {})

\* On a connection that was replaced unnoticed nothing is locked or asked for:
\* a lock request follows its check on the same connection.
NothingUnchecked ==
    \A p \in Procs : fails[p] = 0 /\ pid[p] # conn[p] =>
        /\ \A s \in Sessions : owner[s] # Backend(p)
        /\ \A t \in Tasks : call[p][t].op # "try"

\* The lock is counted at least once for `held` and once for every unlock sent.
Balanced(p, s) ==
    Cardinality(Unlocking(p, s)) + (IF s \in held[p] THEN 1 ELSE 0)
        <= IF owner[s] = Backend(p) THEN depth[s] ELSE 0

\* The session is not locked and the unlocks on the wire, for a lock that went
\* with an earlier connection, are answered before any request for it.
UnlocksFirst(p, s) == \A u \in Unlocking(p, s), t \in Trying(p, s) : u \in ahead[p][t]

Drained(p, s) == s \notin held[p] /\ owner[s] # Backend(p) /\ UnlocksFirst(p, s)

Accounted ==
    \A p \in Procs, s \in Sessions : Current(p) => Balanced(p, s) \/ Drained(p, s)

IInv == TypeOK /\ LockState /\ PidState /\ NothingUnchecked /\ Accounted
=============================================================================

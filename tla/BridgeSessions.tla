--------------------------- MODULE BridgeSessions ---------------------------
(***************************************************************************)
(* apps/telegram-bridge/src/sessions.ts: the life of one Telegram session  *)
(* in the bridge processes that share a database.                          *)
(*                                                                         *)
(* Sessions meet only on the lock connection (SessionLocks), so one        *)
(* session is modelled.  Its state is the database row, the auth keys      *)
(* Telegram accepts, the clients that are connected, and in each process   *)
(* the Runtime object.  Requests, the heartbeat and a pairing are tasks    *)
(* that interleave at every await: a row a task has read is its snapshot,  *)
(* and may be stale when the task goes on.                                 *)
(***************************************************************************)
EXTENDS Naturals, FiniteSets

CONSTANTS
    Procs, Session, NoBackend, MaxConn, MaxFails, MaxDepth,
    Requests,     \* the requests that arrive: "pair", "reconnect", "logout"
    Slots,        \* requests one process works on at a time
    Tick,         \* the heartbeat's task; `ticking` allows one
    MaxRequests,  \* bound: requests that arrive
    MaxKeys,      \* bound: auth keys Telegram hands out
    MaxRevoked,   \* bound: keys the owner terminates on Telegram's side
    MaxDrops,     \* bound: lock connections that are replaced
    MaxCrashes,   \* bound: processes that end
    MaxClients    \* bound: client objects at one time

ASSUME BridgeAssumption ==
    /\ {MaxConn, MaxFails, MaxDepth, MaxRequests, MaxKeys, MaxRevoked, MaxDrops, MaxCrashes, MaxClients} \subseteq Nat
    /\ IsFiniteSet(Slots) /\ Tick \notin Slots
    /\ Requests \subseteq {"pair", "reconnect", "logout"}
    /\ NoBackend \notin Procs \X Nat

Tasks == Slots \union {Tick}
Keys == 1 .. MaxKeys
Clients == 1 .. MaxClients
None == 0            \* no key, no client

VARIABLES
    conn, owner, depth, pid, held, fails, call, ahead,  \* see SessionLocks
    row,       \* sessions: [enc, revoked, me] (session_enc, revoked_at, me_id)
    valid,     \* auth keys Telegram accepts
    made,      \* auth keys it handed out so far
    live,      \* client objects connected to Telegram: [id, proc, key]
    rt,        \* the Runtime of the session in each process
    task,      \* task[p][t]: where t stands, the row it read, the client it holds
    closing,   \* closing[p]: clients that onLocksLost is disposing of
    up,        \* up[p]: the process runs
    spent      \* what is used up of the bounds

lockVars == <<conn, owner, depth, pid, held, fails, call, ahead>>
vars == <<lockVars, row, valid, made, live, rt, task, closing, up, spent>>

Locks == INSTANCE SessionLocks WITH Sessions <- {Session}

Rows == [enc : Keys \union {None}, revoked : BOOLEAN, me : BOOLEAN]
Runtimes == [client : Clients \union {None}, healthy : BOOLEAN,
             pairing : {"none", "qr", "password", "checking"}, aborted : BOOLEAN,
             revoked : BOOLEAN, elsewhere : BOOLEAN]
NoRow == [enc |-> None, revoked |-> FALSE, me |-> FALSE]
NewRuntime == [client |-> None, healthy |-> FALSE, pairing |-> "none", aborted |-> FALSE,
               revoked |-> FALSE, elsewhere |-> FALSE]
NoTask == [pc |-> "idle", row |-> NoRow, client |-> None]

Init ==
    /\ Locks!Init
    /\ row = NoRow /\ valid = {} /\ made = 0 /\ live = {}
    /\ rt = [p \in Procs |-> NewRuntime]
    /\ task = [p \in Procs |-> [t \in Tasks |-> NoTask]]
    /\ closing = [p \in Procs |-> {}]
    /\ up = [p \in Procs |-> TRUE]
    /\ spent = [requests |-> 0, revoked |-> 0, crashes |-> 0, drops |-> 0]

-----------------------------------------------------------------------------
\* Steps of a task.

\* An answer of the lock connection and what its caller does next are one turn
\* of the event loop: no other step of the process comes between.
Turn(p) == up[p] /\ \A t \in Tasks : call[p][t].op \notin {"yes", "no", "error"}

At(p, t, pc) == Turn(p) /\ task[p][t].pc = pc /\ call[p][t].op = "idle"

\* The lock call t waits for was answered; t takes the answer.
Told(p, t, pc, op) ==
    /\ up[p] /\ task[p][t].pc = pc /\ call[p][t].op = op
    /\ Locks!Return(p, t)

Goto(p, t, pc) == task' = [task EXCEPT ![p][t].pc = pc]
Finish(p, t) == task' = [task EXCEPT ![p][t] = NoTask]

\* locks.release(id), awaited: the task goes on when the unlock is answered.
GiveBack(p, t) ==
    IF Session \in held[p] THEN Locks!Release(p, t, Session) ELSE UNCHANGED lockVars

\* A client object no one refers to any more can stand for a new one.
Referred(c) ==
    \/ \E l \in live : l.id = c
    \/ \E p \in Procs : rt[p].client = c \/ c \in closing[p] \/ \E t \in Tasks : task[p][t].client = c

NewClient(p, c, k) ==
    /\ c \in Clients /\ ~Referred(c) /\ \A d \in Clients : d < c => Referred(d)
    /\ live' = live \union {[id |-> c, proc |-> p, key |-> k]}

Destroy(c) == {l \in live : l.id # c}
Accepted(c) == \E l \in live : l.id = c /\ l.key \in valid

\* Mutant: the client is destroyed and still referred to.
DisposeKeepsReference(p) ==
    /\ live' = Destroy(rt[p].client)
    /\ rt' = [rt EXCEPT ![p].healthy = FALSE]

\* dispose(rt, {saveState: false}): no await between reading and clearing rt.client.
Dispose(p) ==
    /\ live' = Destroy(rt[p].client)
    /\ rt' = [rt EXCEPT ![p].client = None, ![p].healthy = FALSE]

-----------------------------------------------------------------------------
\* A request arrives; its handler reads the row first.

Request(p, t, r) ==
    /\ At(p, t, "idle") /\ t \in Slots /\ r \in Requests
    /\ spent.requests < MaxRequests
    /\ spent' = [spent EXCEPT !.requests = @ + 1]
    /\ task' = [task EXCEPT ![p][t] = [pc |-> r, row |-> row, client |-> None]]
    /\ UNCHANGED <<lockVars, row, valid, made, live, rt, closing, up>>

-----------------------------------------------------------------------------
\* pair(id)

Pair(p, t) ==
    /\ At(p, t, "pair")
    /\ IF rt[p].pairing # "none" \/ task[p][t].row.enc # None
       THEN Finish(p, t) /\ UNCHANGED lockVars
       ELSE Goto(p, t, "pair_lock") /\ Locks!Acquire(p, t, Session)
    /\ UNCHANGED <<row, valid, made, live, rt, closing, up, spent>>

\* Mutant: rt.pairing is not looked at again after the await.
PairLockedUnchecked(p, t) ==
    /\ Told(p, t, "pair_lock", "yes")
    /\ Goto(p, t, "sign_in")
    /\ rt' = [rt EXCEPT ![p].elsewhere = FALSE, ![p].pairing = "qr",
                        ![p].aborted = FALSE, ![p].revoked = FALSE]
    /\ UNCHANGED <<row, valid, made, live, closing, up, spent>>

PairLocked(p, t) ==
    /\ Told(p, t, "pair_lock", "yes")
    /\ IF rt[p].pairing # "none"
       THEN Finish(p, t) /\ rt' = [rt EXCEPT ![p].elsewhere = FALSE]
       ELSE /\ Goto(p, t, "sign_in")
            /\ rt' = [rt EXCEPT ![p].elsewhere = FALSE, ![p].pairing = "qr",
                                ![p].aborted = FALSE, ![p].revoked = FALSE]
    /\ UNCHANGED <<row, valid, made, live, closing, up, spent>>

\* Every request that finds the session locked by another process answers 409;
\* a resume gives up until the next heartbeat.
HeldElsewhere(p, t) ==
    /\ \E pc \in {"pair_lock", "reconnect_lock", "logout_lock", "resume_lock"} : Told(p, t, pc, "no")
    /\ rt' = [rt EXCEPT ![p].elsewhere = TRUE]
    /\ Finish(p, t)
    /\ UNCHANGED <<row, valid, made, live, closing, up, spent>>

\* acquire() threw.
LockError(p, t) ==
    /\ \E pc \in {"pair_lock", "reconnect_lock", "logout_lock", "resume_lock"} : Told(p, t, pc, "error")
    /\ Finish(p, t)
    /\ UNCHANGED <<row, valid, made, live, rt, closing, up, spent>>

\* runPairing(): Telegram asks for the two-step password, gets it, refuses it.
AskPassword(p, t) ==
    /\ At(p, t, "sign_in") /\ rt[p].pairing = "qr" /\ ~rt[p].aborted
    /\ rt' = [rt EXCEPT ![p].pairing = "password"]
    /\ UNCHANGED <<lockVars, row, valid, made, live, task, closing, up, spent>>

\* submitPassword(id): handed over once; a second submission finds no `submit`.
SubmitPassword(p) ==
    /\ Turn(p) /\ rt[p].pairing = "password"
    /\ rt' = [rt EXCEPT ![p].pairing = "checking"]
    /\ UNCHANGED <<lockVars, row, valid, made, live, task, closing, up, spent>>

WrongPassword(p, t) ==
    /\ At(p, t, "sign_in") /\ rt[p].pairing = "checking" /\ ~rt[p].aborted
    /\ rt' = [rt EXCEPT ![p].pairing = "password"]
    /\ UNCHANGED <<lockVars, row, valid, made, live, task, closing, up, spent>>

\* The QR code was scanned: Telegram hands out a key, and the flow is past its
\* check of the abort signal.
SignedIn(p, t) ==
    /\ At(p, t, "sign_in") /\ rt[p].pairing \in {"qr", "checking"} /\ ~rt[p].aborted
    /\ made < MaxKeys
    /\ made' = made + 1
    /\ valid' = valid \union {made'}
    /\ \E c \in Clients : /\ NewClient(p, c, made')
                          /\ task' = [task EXCEPT ![p][t].client = c, ![p][t].pc = "save_key"]
    /\ UNCHANGED <<lockVars, row, rt, closing, up, spent>>

\* UPDATE sessions SET session_enc, authorized_at, revoked_at = NULL
SaveKey(p, t) ==
    /\ At(p, t, "save_key")
    /\ \E l \in live : l.id = task[p][t].client
                       /\ row' = [row EXCEPT !.enc = l.key, !.revoked = FALSE]
    /\ Goto(p, t, "claim")
    /\ UNCHANGED <<lockVars, valid, made, live, rt, closing, up, spent>>

\* Mutant: rt.pairing is cleared by the failures only.
LinkedStaysPairing(p, t) ==
    /\ At(p, t, "claim")
    /\ row' = [row EXCEPT !.me = TRUE]
    /\ rt' = [rt EXCEPT ![p].client = task[p][t].client, ![p].healthy = TRUE,
                        ![p].revoked = FALSE]
    /\ Finish(p, t)
    /\ UNCHANGED <<lockVars, valid, made, live, closing, up, spent>>

\* recordMe(), claimData(), and what follows them up to the end of the flow.
Linked(p, t) ==
    /\ At(p, t, "claim")
    /\ row' = [row EXCEPT !.me = TRUE]
    /\ rt' = [rt EXCEPT ![p].client = task[p][t].client, ![p].healthy = TRUE,
                        ![p].revoked = FALSE, ![p].pairing = "none", ![p].aborted = FALSE]
    /\ Finish(p, t)
    /\ UNCHANGED <<lockVars, valid, made, live, closing, up, spent>>

\* Mutant: the lock is released and the client left running.
PairingFailsKeepsClient(p, t) ==
    /\ \E pc \in {"sign_in", "save_key", "claim"} : At(p, t, pc)
    /\ GiveBack(p, t)
    /\ task' = [task EXCEPT ![p][t].pc = "pairing_over", ![p][t].client = None]
    /\ UNCHANGED <<row, valid, made, live, rt, closing, up, spent>>

\* The window passed, the flow was aborted, or Telegram or the database failed:
\* the client is destroyed, then the lock released.
PairingFails(p, t) ==
    /\ \E pc \in {"sign_in", "save_key", "claim"} : At(p, t, pc)
    /\ live' = Destroy(task[p][t].client)
    /\ GiveBack(p, t)
    /\ task' = [task EXCEPT ![p][t].pc = "pairing_over", ![p][t].client = None]
    /\ UNCHANGED <<row, valid, made, rt, closing, up, spent>>

PairingOver(p, t) ==
    /\ At(p, t, "pairing_over")
    /\ rt' = [rt EXCEPT ![p].pairing = "none", ![p].aborted = FALSE]
    /\ Finish(p, t)
    /\ UNCHANGED <<lockVars, row, valid, made, live, closing, up, spent>>

-----------------------------------------------------------------------------
\* resume(rt, row), reached from the heartbeat and from reconnect.

Resume(p, t) ==
    IF rt[p].client # None \/ rt[p].pairing # "none" \/ task[p][t].row.enc = None
    THEN Finish(p, t) /\ UNCHANGED lockVars
    ELSE Goto(p, t, "resume_lock") /\ Locks!Acquire(p, t, Session)

Resumed(p, t) ==
    /\ Told(p, t, "resume_lock", "yes")
    /\ \E c \in Clients :
          /\ NewClient(p, c, task[p][t].row.enc)
          /\ rt' = [rt EXCEPT ![p].elsewhere = FALSE, ![p].client = c]
          /\ task' = [task EXCEPT ![p][t].pc = "connect", ![p][t].client = c]
    /\ UNCHANGED <<row, valid, made, closing, up, spent>>

Connected(p, t) ==
    /\ At(p, t, "connect") /\ Accepted(task[p][t].client)
    /\ rt' = [rt EXCEPT ![p].healthy = TRUE]
    /\ Goto(p, t, "record_me")
    /\ UNCHANGED <<lockVars, row, valid, made, live, closing, up, spent>>

RecordMe(p, t) ==
    /\ At(p, t, "record_me")
    /\ row' = [row EXCEPT !.me = TRUE]
    /\ Finish(p, t)
    /\ UNCHANGED <<lockVars, valid, made, live, rt, closing, up, spent>>

\* Transient: drop the client, keep the lock.
ConnectFails(p, t) ==
    /\ At(p, t, "connect") \/ At(p, t, "record_me")
    /\ Dispose(p)
    /\ Finish(p, t)
    /\ UNCHANGED <<lockVars, row, valid, made, closing, up, spent>>

\* Telegram refuses the key, at connect or at a probe: markRevoked() begins.
Refused(p, t) ==
    /\ At(p, t, "connect") \/ At(p, t, "probe")
    /\ \E l \in live : l.id = task[p][t].client /\ l.key \notin valid
    /\ Dispose(p)
    /\ Goto(p, t, "mark_revoked")
    /\ UNCHANGED <<lockVars, row, valid, made, closing, up, spent>>

\* UPDATE sessions SET session_enc = NULL, revoked_at = now()
MarkRevoked(p, t) ==
    /\ At(p, t, "mark_revoked")
    /\ row' = [row EXCEPT !.enc = None, !.revoked = TRUE]
    /\ rt' = [rt EXCEPT ![p].revoked = TRUE]
    /\ GiveBack(p, t)
    /\ Goto(p, t, "done")
    /\ UNCHANGED <<valid, made, live, closing, up, spent>>

\* The database failed: the row keeps the key for the next heartbeat.
MarkRevokedFails(p, t) ==
    /\ At(p, t, "mark_revoked")
    /\ Finish(p, t)
    /\ UNCHANGED <<lockVars, row, valid, made, live, rt, closing, up, spent>>

Done(p, t) ==
    /\ At(p, t, "done")
    /\ Finish(p, t)
    /\ UNCHANGED <<lockVars, row, valid, made, live, rt, closing, up, spent>>

-----------------------------------------------------------------------------
\* reconnect(id)

Reconnect(p, t) ==
    /\ At(p, t, "reconnect")
    /\ IF task[p][t].row.enc = None
       THEN Finish(p, t) /\ UNCHANGED lockVars
       ELSE Goto(p, t, "reconnect_lock") /\ Locks!Acquire(p, t, Session)
    /\ UNCHANGED <<row, valid, made, live, rt, closing, up, spent>>

\* dispose(rt) saves the update state first: the client is read before that
\* await, and rt.client cleared after it.
ReconnectLocked(p, t) ==
    /\ Told(p, t, "reconnect_lock", "yes")
    /\ rt' = [rt EXCEPT ![p].elsewhere = FALSE]
    /\ task' = [task EXCEPT ![p][t].pc = "reconnect_drop", ![p][t].client = rt[p].client]
    /\ UNCHANGED <<row, valid, made, live, closing, up, spent>>

ReconnectDrop(p, t) ==
    /\ At(p, t, "reconnect_drop")
    /\ live' = Destroy(task[p][t].client)
    /\ rt' = [rt EXCEPT ![p].client = None, ![p].healthy = FALSE]
    /\ task' = [task EXCEPT ![p][t].pc = "reconnect_row", ![p][t].client = None]
    /\ UNCHANGED <<lockVars, row, valid, made, closing, up, spent>>

ReconnectRow(p, t) ==
    /\ At(p, t, "reconnect_row")
    /\ task' = [task EXCEPT ![p][t].pc = "resume", ![p][t].row = row]
    /\ UNCHANGED <<lockVars, row, valid, made, live, rt, closing, up, spent>>

ReconnectResume(p, t) ==
    /\ At(p, t, "resume")
    /\ Resume(p, t)
    /\ UNCHANGED <<row, valid, made, live, rt, closing, up, spent>>

-----------------------------------------------------------------------------
\* logout(id)

Logout(p, t) ==
    /\ At(p, t, "logout")
    /\ LET abort == [rt EXCEPT ![p].aborted = rt[p].pairing # "none"]
       IN  IF task[p][t].row.enc = None
           THEN /\ rt' = [abort EXCEPT ![p].client = None, ![p].healthy = FALSE]
                /\ live' = Destroy(rt[p].client)
                /\ Goto(p, t, "forget")
                /\ UNCHANGED lockVars
           ELSE /\ rt' = abort
                /\ Goto(p, t, "logout_lock")
                /\ Locks!Acquire(p, t, Session)
                /\ UNCHANGED live
    /\ UNCHANGED <<row, valid, made, closing, up, spent>>

\* Mutant: the client the process has is not used.
LogoutLockedConnectsAgain(p, t) ==
    /\ Told(p, t, "logout_lock", "yes")
    /\ \E c \in Clients : /\ NewClient(p, c, task[p][t].row.enc)
                          /\ rt' = [rt EXCEPT ![p].elsewhere = FALSE, ![p].client = c]
    /\ Goto(p, t, "log_out")
    /\ UNCHANGED <<row, valid, made, closing, up, spent>>

\* Without a client one is connected from the stored session, to log out with.
LogoutLocked(p, t) ==
    /\ Told(p, t, "logout_lock", "yes")
    /\ \/ /\ rt[p].client # None
          /\ rt' = [rt EXCEPT ![p].elsewhere = FALSE]
          /\ UNCHANGED live
       \/ /\ rt[p].client = None
          /\ \E c \in Clients : /\ NewClient(p, c, task[p][t].row.enc)
                                /\ rt' = [rt EXCEPT ![p].elsewhere = FALSE, ![p].client = c]
    /\ Goto(p, t, "log_out")
    /\ UNCHANGED <<row, valid, made, closing, up, spent>>

\* client.logOut(), or its failure.  It is the client rt has by then.
LogOut(p, t) ==
    /\ At(p, t, "log_out")
    /\ \/ valid' = valid \ {l.key : l \in {m \in live : m.id = rt[p].client}}
       \/ UNCHANGED valid
    /\ Goto(p, t, "logged_out")
    /\ UNCHANGED <<lockVars, row, made, live, rt, closing, up, spent>>

\* Mutant: logOut() is taken to have ended the client.
LoggedOutKeepsClient(p, t) ==
    /\ At(p, t, "logged_out")
    /\ Goto(p, t, "forget")
    /\ UNCHANGED <<lockVars, row, valid, made, live, rt, closing, up, spent>>

LoggedOut(p, t) ==
    /\ At(p, t, "logged_out")
    /\ Dispose(p)
    /\ Goto(p, t, "forget")
    /\ UNCHANGED <<lockVars, row, valid, made, closing, up, spent>>

\* wipe(), the UPDATE that clears the row, and release().
Forget(p, t) ==
    /\ At(p, t, "forget")
    /\ row' = NoRow
    /\ rt' = [rt EXCEPT ![p].revoked = FALSE]
    /\ GiveBack(p, t)
    /\ Goto(p, t, "done")
    /\ UNCHANGED <<valid, made, live, closing, up, spent>>

-----------------------------------------------------------------------------
\* tick(): read the rows, drop what the table does not say, then probe or resume.

TickRead(p) ==
    /\ At(p, Tick, "idle")
    /\ task' = [task EXCEPT ![p][Tick] = [pc |-> "tick_drop", row |-> row, client |-> None]]
    /\ UNCHANGED <<lockVars, row, valid, made, live, rt, closing, up, spent>>

\* The first loop: logged out by another process, or revoked.
TickDrop(p) ==
    /\ At(p, Tick, "tick_drop")
    /\ \/ /\ task[p][Tick].row.enc # None \/ rt[p].pairing # "none"
          /\ Goto(p, Tick, "tick_row")
          /\ UNCHANGED <<lockVars, live, rt>>
       \/ /\ task[p][Tick].row.enc = None /\ rt[p].pairing = "none" /\ rt[p].client # None
          /\ Dispose(p)
          /\ Goto(p, Tick, "tick_release")
          /\ UNCHANGED lockVars
       \/ /\ task[p][Tick].row.enc = None /\ rt[p].pairing = "none" /\ rt[p].client = None
          /\ GiveBack(p, Tick)
          /\ Goto(p, Tick, "tick_row")
          /\ UNCHANGED <<live, rt>>
    /\ UNCHANGED <<row, valid, made, closing, up, spent>>

TickRelease(p) ==
    /\ At(p, Tick, "tick_release")
    /\ GiveBack(p, Tick)
    /\ Goto(p, Tick, "tick_row")
    /\ UNCHANGED <<row, valid, made, live, rt, closing, up, spent>>

\* The second loop.  revoked_at is the snapshot's.
TickRow(p) ==
    /\ At(p, Tick, "tick_row")
    /\ rt' = [rt EXCEPT ![p].revoked = @ \/ task[p][Tick].row.revoked]
    /\ IF rt[p].client = None THEN Resume(p, Tick)
       ELSE /\ UNCHANGED lockVars
            /\ IF rt[p].pairing # "none" THEN Finish(p, Tick)
               ELSE task' = [task EXCEPT ![p][Tick].pc = "probe", ![p][Tick].client = rt[p].client]
    /\ UNCHANGED <<row, valid, made, live, closing, up, spent>>

\* probe(): the call answers, or fails for a reason that is not a revocation.
ProbeOk(p) ==
    /\ At(p, Tick, "probe") /\ Accepted(task[p][Tick].client)
    /\ rt' = [rt EXCEPT ![p].healthy = TRUE]
    /\ Finish(p, Tick)
    /\ UNCHANGED <<lockVars, row, valid, made, live, closing, up, spent>>

ProbeFails(p) ==
    /\ At(p, Tick, "probe")
    /\ rt' = [rt EXCEPT ![p].healthy = FALSE]
    /\ Finish(p, Tick)
    /\ UNCHANGED <<lockVars, row, valid, made, live, closing, up, spent>>

-----------------------------------------------------------------------------
\* The lock connection.  onLocksLost() runs in the step that notices the loss:
\* it aborts a pairing and starts to dispose of the client.

OnLocksLost(p) ==
    IF Locks!Lost(p) = {} THEN UNCHANGED <<rt, closing>>
    ELSE /\ rt' = [rt EXCEPT ![p].aborted = rt[p].pairing # "none"]
         /\ closing' = [closing EXCEPT ![p] = @ \union ({rt[p].client} \ {None})]

TimerChecks(p) ==
    /\ Turn(p)
    /\ Locks!TimerVerify(p)
    /\ OnLocksLost(p)
    /\ UNCHANGED <<row, valid, made, live, task, up, spent>>

AcquireChecks(p, t) ==
    /\ Turn(p)
    /\ Locks!AcquireChecked(p, t)
    /\ OnLocksLost(p)
    /\ UNCHANGED <<row, valid, made, live, task, up, spent>>

LockAnswers(p, t) ==
    /\ Turn(p)
    /\ Locks!TryLock(p, t) \/ Locks!Unlock(p, t)
    /\ UNCHANGED <<row, valid, made, live, rt, task, closing, up, spent>>

\* The update state is saved: rt.client, whichever it is by now, is cleared and
\* the client that was read is destroyed.
LostClosed(p, c) ==
    /\ Turn(p) /\ c \in closing[p]
    /\ closing' = [closing EXCEPT ![p] = @ \ {c}]
    /\ rt' = [rt EXCEPT ![p].client = None, ![p].healthy = FALSE]
    /\ live' = Destroy(c)
    /\ UNCHANGED <<lockVars, row, valid, made, task, up, spent>>

-----------------------------------------------------------------------------
\* The world.

LockConnectionDrops(p) ==
    /\ Turn(p) /\ spent.drops < MaxDrops
    /\ Locks!Drop(p)
    /\ spent' = [spent EXCEPT !.drops = @ + 1]
    /\ UNCHANGED <<row, valid, made, live, rt, task, closing, up>>

LockReaped ==
    /\ Locks!Reap(Session)
    /\ UNCHANGED <<row, valid, made, live, rt, task, closing, up, spent>>

\* The process ends.  Nobody is logged out; its clients and its backend go.
Crash(p) ==
    /\ up[p] /\ spent.crashes < MaxCrashes
    /\ Locks!Restart(p)
    /\ up' = [up EXCEPT ![p] = FALSE]
    /\ spent' = [spent EXCEPT !.crashes = @ + 1]
    /\ live' = {l \in live : l.proc # p}
    /\ rt' = [rt EXCEPT ![p] = NewRuntime]
    /\ task' = [task EXCEPT ![p] = [t \in Tasks |-> NoTask]]
    /\ closing' = [closing EXCEPT ![p] = {}]
    /\ UNCHANGED <<row, valid, made>>

Start(p) ==
    /\ ~up[p]
    /\ up' = [up EXCEPT ![p] = TRUE]
    /\ UNCHANGED <<lockVars, row, valid, made, live, rt, task, closing, spent>>

\* The owner terminates the device in Telegram, or Telegram sees a key used
\* from two connections at once (AUTH_KEY_DUPLICATED).
OwnerTerminates(k) ==
    /\ k \in valid /\ spent.revoked < MaxRevoked
    /\ valid' = valid \ {k}
    /\ spent' = [spent EXCEPT !.revoked = @ + 1]
    /\ UNCHANGED <<lockVars, row, made, live, rt, task, closing, up>>

KeyDuplicated(k) ==
    /\ k \in valid /\ \E l, m \in live : l # m /\ l.key = k /\ m.key = k
    /\ valid' = valid \ {k}
    /\ UNCHANGED <<lockVars, row, made, live, rt, task, closing, up, spent>>

-----------------------------------------------------------------------------
RequestStep(p, t) ==
    \/ Pair(p, t) \/ PairLocked(p, t) \/ AskPassword(p, t) \/ WrongPassword(p, t)
    \/ SignedIn(p, t) \/ SaveKey(p, t) \/ Linked(p, t) \/ PairingFails(p, t) \/ PairingOver(p, t)
    \/ Reconnect(p, t) \/ ReconnectLocked(p, t) \/ ReconnectDrop(p, t) \/ ReconnectRow(p, t)
    \/ ReconnectResume(p, t)
    \/ Logout(p, t) \/ LogoutLocked(p, t) \/ LogOut(p, t) \/ LoggedOut(p, t) \/ Forget(p, t)

ResumeStep(p, t) ==
    \/ HeldElsewhere(p, t) \/ LockError(p, t)
    \/ Resumed(p, t) \/ Connected(p, t) \/ RecordMe(p, t) \/ ConnectFails(p, t)
    \/ Refused(p, t) \/ MarkRevoked(p, t) \/ MarkRevokedFails(p, t) \/ Done(p, t)

TickStep(p) ==
    TickRead(p) \/ TickDrop(p) \/ TickRelease(p) \/ TickRow(p) \/ ProbeOk(p) \/ ProbeFails(p)

LockStep(p, t) == AcquireChecks(p, t) \/ LockAnswers(p, t)

\* A request goes on until it is answered, the heartbeat comes again and again.
TaskStep(p, t) ==
    \/ t \in Slots /\ RequestStep(p, t)
    \/ t = Tick /\ TickStep(p)
    \/ ResumeStep(p, t) \/ LockStep(p, t)

Next ==
    \/ \E p \in Procs :
          \/ \E t \in Tasks : TaskStep(p, t) \/ \E r \in Requests : Request(p, t, r)
          \/ TimerChecks(p) \/ SubmitPassword(p)
          \/ \E c \in Clients : LostClosed(p, c)
          \/ LockConnectionDrops(p) \/ Crash(p) \/ Start(p)
    \/ LockReaped
    \/ \E k \in Keys : OwnerTerminates(k) \/ KeyDuplicated(k)

Spec == Init /\ [][Next]_vars

\* The event loop runs every task on; Postgres notices connections that ended;
\* the container is started again; the pairing window runs out (sessions.ts:248); and
\* an attempt to connect, or to store what
\* Telegram refused, that is made again and again does not fail every time.
Fairness ==
    /\ \A p \in Procs :
          /\ WF_vars(Start(p))
          /\ \A c \in Clients : WF_vars(LostClosed(p, c))
          /\ \A t \in Tasks : /\ WF_vars(TaskStep(p, t))
                             /\ SF_vars(Connected(p, t))
          /\ \A t \in Slots : SF_vars(PairingFails(p, t))
    /\ WF_vars(LockReaped)

FairSpec == Spec /\ Fairness

-----------------------------------------------------------------------------
Pcs == {"idle", "pair", "pair_lock", "sign_in", "save_key", "claim", "pairing_over",
        "reconnect", "reconnect_lock", "reconnect_drop", "reconnect_row", "resume",
        "resume_lock", "connect", "record_me", "mark_revoked", "done",
        "logout", "logout_lock", "log_out", "logged_out", "forget",
        "tick_drop", "tick_release", "tick_row", "probe"}

\* The shape of the state.
TypeOK ==
    /\ Locks!TypeOK
    /\ row \in Rows
    /\ valid \subseteq Keys /\ made \in 0 .. MaxKeys
    /\ live \subseteq [id : Clients, proc : Procs, key : Keys]
    /\ rt \in [Procs -> Runtimes]
    /\ task \in [Procs -> [Tasks -> [pc : Pcs, row : Rows, client : Clients \union {None}]]]
    /\ closing \in [Procs -> SUBSET Clients]
    /\ up \in [Procs -> BOOLEAN]
    /\ spent \in [requests : 0 .. MaxRequests, revoked : 0 .. MaxRevoked,
                 crashes : 0 .. MaxCrashes, drops : 0 .. MaxDrops]

\* A session whose stored key Telegram accepts is connected again and again, by
\* some process, whatever request, crash or lock loss came before: the heartbeat
\* resumes it and no lock stays behind for ever (sessions.ts:645-690).
Served == <>[](row.enc \in valid) => []<>(\E l \in live : l.key = row.enc)

\* A pairing ends: `rt.pairing` is cleared on every way out (sessions.ts:484-556).
PairingEnds == \A p \in Procs : (rt[p].pairing # "none") ~> (rt[p].pairing = "none")

\* One QR flow at a time: "two requests can both get past the first check"
\* (sessions.ts:240), and a flow that ends does not end another one's `rt.pairing`.
OnePairing ==
    \A p \in Procs :
        LET flows == {t \in Tasks : task[p][t].pc \in {"sign_in", "save_key", "claim", "pairing_over"}}
        IN  Cardinality(flows) = IF rt[p].pairing = "none" THEN 0 ELSE 1

\* Telegram never sees one auth key in two clients, of one process or of two
\* (sessions.ts:132-133), through crashes, takeovers and terminated devices.
OneClientPerKey == \A l, m \in live : l.key = m.key => l = m

\* A process that has a client for the session has its lock (sessions.ts:27-28):
\* no path releases the lock first and drops the client later.
ClientHoldsLock == \A p \in Procs : rt[p].client # None => Session \in held[p]

\* Whoever has to stop a connected client can reach it: it is the Runtime's, an
\* operation under way holds it, or it is being disposed of.
NoStrayClient ==
    \A l \in live :
        \/ rt[l.proc].client = l.id \/ l.id \in closing[l.proc]
        \/ \E t \in Tasks : task[l.proc][t].client = l.id
=============================================================================

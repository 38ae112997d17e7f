-------------------------- MODULE MCBridgeSessions --------------------------
(* Model values for BridgeSessions. *)
EXTENDS BridgeSessions, TLC

CONSTANTS
    p1, p2, r1, r2,
    MaxSpent   \* bound: requests, crashes, terminated devices and lost lock connections together

OneProc == {p1}
TwoProcs == {p1, p2}
OneSlot == {r1}
TwoSlots == {r1, r2}
AllRequests == {"pair", "reconnect", "logout"}
NoLogout == {"pair", "reconnect"}

\* Two worlds: "turns", in which the operations of a process on the session take
\* turns, or one process that is alone, in which they interleave freely.
VARIABLE world

\* What the bridge keeps when, in each process, an operation on the session is
\* over before the next begins.  Nothing in the code makes them wait for each
\* other: this names the assumption that the findings show to be needed.  A
\* pairing that waits for the owner is not counted, so the heartbeat comes during
\* it; processes interleave freely.
Busy(p) == {t \in Tasks : task[p][t].pc \notin {"idle", "sign_in"}}
OneAtATime ==
    \A p \in Procs : /\ Cardinality(Busy(p)) <= 1
                     /\ Cardinality({t \in Slots : task[p][t].pc # "idle"}) <= 1

Untouched(p) == /\ conn[p] = 1 /\ pid[p] = 0 /\ up[p]
                /\ \A t \in Tasks : task[p][t] = NoTask /\ call[p][t].op = "idle"

\* The row an operation acts on, while it waits for the lock or clears the row, is
\* as the operation read it; the code does not look again (sessions.ts:235,290,332,564).
Acting == {"pair_lock", "resume_lock", "logout_lock", "forget"}
RowsAsRead == \A p \in Procs, t \in Tasks : task[p][t].pc \in Acting => task[p][t].row.enc = row.enc

\* The lock connections last.
LocksLast == spent.drops = 0 /\ \A p \in Procs : fails[p] = 0

Turns == OneAtATime /\ RowsAsRead /\ LocksLast
Spent == spent.requests + spent.crashes + spent.revoked + spent.drops
Bound == IF world = "turns" THEN Turns /\ Spent <= MaxSpent
                            ELSE made <= 1 /\ spent.requests <= 2 /\ Spent < MaxSpent /\ \A p \in Procs \ {world} : Untouched(p)

WorldsInit == Init /\ world \in {"turns"} \union Procs
WorldsNext == Next /\ UNCHANGED world /\ Bound'
WorldsSpec == WorldsInit /\ [][WorldsNext]_<<vars, world>>

\* Telegram never sees one key in two clients, of one process or of two, while
\* the operations of a process take turns (sessions.ts:132-133).
OneClientInTurns == world = "turns" => OneClientPerKey

\* A process with a client has the lock, while its operations take turns
\* (sessions.ts:27-28).
LockedInTurns == world = "turns" => ClientHoldsLock

\* Whoever has to stop a client can reach it, while operations take turns.
ReachableInTurns == world = "turns" => NoStrayClient

\* The three of them: of every session at most one client of one key, which its process
\* may have and can stop.
ClientsInTurns == OneClientInTurns /\ LockedInTurns /\ ReachableInTurns

\* For the runs that look at one of the two.
OneWorldInit == Init /\ world = "turns"
OneWorld == OneWorldInit /\ [][Next /\ UNCHANGED world]_<<vars, world>>
LiveSpec == OneWorld /\ Fairness

Symmetry == Permutations(TwoProcs) \union Permutations(TwoSlots)
=============================================================================

---------------------------- MODULE Connections ----------------------------
(***************************************************************************)
(* apps/web/server/utils/instances.ts and unpaired-reaper.ts: the life of  *)
(* one WhatsApp connection, kept in two places: the row in app.instances   *)
(* and the instance on an Evolution server.                                *)
(*                                                                         *)
(* The replicas of the web application share the row and nothing else.     *)
(* Each has a request under way ("web") and the ten-minute reaper ("reap") *)
(* and the calls to Evolution come between their statements.               *)
(***************************************************************************)
EXTENDS Naturals

CONSTANTS
    Procs,       \* replicas of the web application
    Crews,       \* the tasks that may be under way at one time: sets of <<process, task>>
    Alone,       \* whether no logout comes while Evolution is about to reconnect by itself
    MaxFaults,   \* bound: calls that fail
    MaxCrashes,  \* bound: replicas that end
    MaxScans     \* bound: times a QR code is scanned

VARIABLES
    evo,       \* the instance: [there, live, owner, history]
    crew,      \* the tasks there are
    readable,  \* whether its message database can be read
    row,       \* app.instances: [there, paired, hold, lease, old]
    task,      \* task[p][t]: [pc, claimed]
    fresh,     \* fresh[p]: the hold was set less than HOLD_REFRESH_MS ago (holdRefreshedAt)
    noted,     \* noted[p]: pairedNoted has the connection
    storing,   \* storing[p]: notePaired()'s write is on its way
    watch,     \* watch[p]: the account was linked when p claimed it for reaping, and still is
    orphaned,  \* a failed or lost compensation left the instance without a row
    spent      \* what is used up of the bounds

vars == <<evo, crew, readable, row, task, fresh, noted, storing, watch, orphaned, spent>>
memory == <<fresh, noted, storing>>
given == <<crew, readable>>

Tasks == {"web", "reap"}
Lives == {"close", "connecting", "retry", "open"}  \* "retry": close, with Evolution's own reconnect coming
NoEvo == [there |-> FALSE, live |-> "close", owner |-> FALSE, history |-> FALSE]
NoRow == [there |-> FALSE, paired |-> FALSE, hold |-> FALSE, lease |-> FALSE, old |-> FALSE]
Idle == [pc |-> "idle", claimed |-> FALSE]

Init ==
    /\ evo = NoEvo /\ row = NoRow /\ readable \in BOOLEAN /\ crew \in Crews
    /\ task = [p \in Procs |-> [t \in Tasks |-> Idle]]
    /\ fresh = [p \in Procs |-> FALSE] /\ noted = [p \in Procs |-> FALSE]
    /\ storing = [p \in Procs |-> FALSE] /\ watch = [p \in Procs |-> FALSE]
    /\ orphaned = FALSE
    /\ spent = [faults |-> 0, crashes |-> 0, scans |-> 0]

-----------------------------------------------------------------------------
At(p, t, pc) == task[p][t].pc = pc
Free(p, t) == <<p, t>> \in crew /\ At(p, t, "idle")
Goto(p, t, pc) == task' = [task EXCEPT ![p][t].pc = pc]
Done(p, t) == task' = [task EXCEPT ![p][t] = Idle]

Fault == spent.faults < MaxFaults /\ spent' = [spent EXCEPT !.faults = @ + 1]
NoFault == UNCHANGED spent

\* The live read: the close of a retry reads like any other.
Reads(live) == evo.live = live \/ (live = "close" /\ evo.live = "retry")

\* The account is linked, as far as anybody who asks can see.
LinkedOf(e, r) == e.there /\ (e.live = "open" \/ e.owner \/ (r /\ e.history))
Linked == LinkedOf(evo, readable)

SetEvo(e) == evo' = e /\ watch' = [p \in Procs |-> watch[p] /\ LinkedOf(e, readable)]

ClaimUnderWay == \E p \in Procs : task[p]["web"].claimed

-----------------------------------------------------------------------------
\* provisionWhatsappInstance(): the instance first, then the row, and a
\* best-effort delete when the row cannot be made.

Create(p) ==
    /\ Free(p, "web") /\ ~evo.there /\ ~row.there /\ ~orphaned
    /\ row = NoRow /\ spent.scans = 0
    /\ \A q \in Procs : At(q, "web", "idle")
    /\ SetEvo([NoEvo EXCEPT !.there = TRUE])
    /\ Goto(p, "web", "insert")
    /\ UNCHANGED <<given, row, memory, orphaned, spent>>

Insert(p) ==
    /\ At(p, "web", "insert")
    /\ row' = [NoRow EXCEPT !.there = TRUE]
    /\ Done(p, "web")
    /\ UNCHANGED <<evo, given, memory, watch, orphaned, spent>>

\* Evolution gave no token, or the insert failed.
InsertFails(p) ==
    /\ At(p, "web", "insert") /\ Fault
    /\ Goto(p, "web", "undo")
    /\ UNCHANGED <<evo, given, row, memory, watch, orphaned>>

Undo(p) ==
    /\ At(p, "web", "undo")
    /\ \/ NoFault /\ SetEvo(NoEvo) /\ UNCHANGED orphaned
       \/ Fault /\ orphaned' = TRUE /\ UNCHANGED <<evo, watch>>
    /\ Done(p, "web")
    /\ UNCHANGED <<given, row, memory>>

-----------------------------------------------------------------------------
\* The connect hold, kept on the row.

\* Mutant: the conditional UPDATE has lost its condition.
ClaimAlways(p) ==
    /\ At(p, "web", "claim")
    /\ IF row.there
       THEN /\ row' = [row EXCEPT !.hold = TRUE]
            /\ fresh' = [fresh EXCEPT ![p] = TRUE]
            /\ task' = [task EXCEPT ![p]["web"] = [pc |-> "connect", claimed |-> TRUE]]
       ELSE Done(p, "web") /\ UNCHANGED <<row, fresh>>
    /\ UNCHANGED <<evo, given, noted, storing, watch, orphaned, spent>>

\* claimConnect(): nobody saw the socket alive, or asked for a connect, within
\* the hold.
Claim(p) ==
    /\ At(p, "web", "claim")
    /\ IF row.there /\ ~row.hold
       THEN /\ row' = [row EXCEPT !.hold = TRUE]
            /\ fresh' = [fresh EXCEPT ![p] = TRUE]
            /\ task' = [task EXCEPT ![p]["web"] = [pc |-> "connect", claimed |-> TRUE]]
       ELSE Done(p, "web") /\ UNCHANGED <<row, fresh>>
    /\ UNCHANGED <<evo, given, noted, storing, watch, orphaned, spent>>

\* extendConnectHold(): the socket was just seen connecting.
Extend(p) ==
    /\ At(p, "web", "extend")
    /\ IF fresh[p] THEN UNCHANGED <<row, fresh>>
       ELSE /\ row' = [row EXCEPT !.hold = row.there]
            /\ fresh' = [fresh EXCEPT ![p] = TRUE]
    /\ Goto(p, "web", "connect")
    /\ UNCHANGED <<evo, given, noted, storing, watch, orphaned, spent>>

\* Time.  The hold outlasts a request that read the state before it, and Evolution's
\* own reconnect after a scan, and it ends no sooner than its last refresh.
HoldEnds ==
    /\ row.hold /\ evo.live # "retry" /\ ~ClaimUnderWay
    /\ \A p \in Procs : ~fresh[p] /\ ~At(p, "web", "claim") /\ ~At(p, "web", "reclaim")
    /\ row' = [row EXCEPT !.hold = FALSE]
    /\ UNCHANGED <<evo, given, task, memory, watch, orphaned, spent>>

FreshEnds(p) ==
    /\ fresh[p] /\ fresh' = [fresh EXCEPT ![p] = FALSE]
    /\ UNCHANGED <<evo, given, row, task, noted, storing, watch, orphaned, spent>>

-----------------------------------------------------------------------------
\* notePaired(): once per process, not awaited; a failed write is noted no more.

Note(p) ==
    IF row.paired \/ noted[p] THEN UNCHANGED <<noted, storing>>
    ELSE /\ noted' = [noted EXCEPT ![p] = TRUE]
         /\ storing' = [storing EXCEPT ![p] = TRUE]

\* Mutant: the write makes the row when there is none.
StorePairedUpserts(p) ==
    /\ storing[p]
    /\ storing' = [storing EXCEPT ![p] = FALSE]
    /\ row' = [row EXCEPT !.paired = TRUE]
    /\ UNCHANGED <<evo, given, task, fresh, noted, watch, orphaned, spent>>

StorePaired(p) ==
    /\ storing[p]
    /\ storing' = [storing EXCEPT ![p] = FALSE]
    /\ \/ NoFault /\ row' = [row EXCEPT !.paired = row.there] /\ UNCHANGED noted
       \/ Fault /\ noted' = [noted EXCEPT ![p] = FALSE] /\ UNCHANGED row
    /\ UNCHANGED <<evo, given, task, fresh, watch, orphaned>>

\* readStatus(), of the dashboard, a tool or the sweep: live state and row.
ReadStatus(p) ==
    /\ row.there /\ evo.there /\ (evo.live = "open" \/ evo.owner)
    /\ Note(p)
    /\ UNCHANGED <<evo, given, row, task, fresh, watch, orphaned, spent>>

-----------------------------------------------------------------------------
\* getInstanceQr(), polled by the pairing page, and reconnectInstance().

\* An answer that names no state, or none at all, ends the poll.  In open the hold
\* is extended at once: later it would only hold longer.
PollRead(p) ==
    /\ Free(p, "web") /\ row.there /\ evo.there
    /\ \/ Reads("connecting") /\ Goto(p, "web", "extend")
       \/ Reads("close") /\ Goto(p, "web", "claim")
    /\ UNCHANGED <<evo, given, row, memory, watch, orphaned, spent>>

PollOpen(p) ==
    /\ Free(p, "web") /\ row.there /\ evo.live = "open"
    /\ row' = [row EXCEPT !.hold = @ \/ ~fresh[p]]
    /\ fresh' = [fresh EXCEPT ![p] = TRUE]
    /\ Note(p)
    /\ UNCHANGED <<evo, given, task, watch, orphaned, spent>>

\* GET /instance/connect: in close it builds a new socket, whatever else
\* Evolution is about to do; in any other state it only answers.
Connect(p) ==
    /\ At(p, "web", "connect")
    /\ SetEvo(IF evo.there /\ Reads("close") THEN [evo EXCEPT !.live = "connecting"] ELSE evo)
    /\ IF evo.there /\ evo.live = "open" /\ row.there THEN Note(p) ELSE UNCHANGED <<noted, storing>>
    /\ Done(p, "web")
    /\ UNCHANGED <<given, row, fresh, orphaned, spent>>

\* The call fails, or never arrives.
ConnectFails(p) ==
    /\ At(p, "web", "connect") /\ Fault
    /\ Done(p, "web")
    /\ UNCHANGED <<evo, given, row, memory, watch, orphaned>>

\* A reconnect goes on only from close; forgetInstanceStatus() then drops the
\* refresh time the claim has set.
Reconnect(p) ==
    /\ Free(p, "web") /\ row.there /\ evo.there /\ Reads("close")
    /\ Goto(p, "web", "reclaim")
    /\ UNCHANGED <<evo, given, row, memory, watch, orphaned, spent>>

Reclaim(p) ==
    /\ At(p, "web", "reclaim")
    /\ IF row.there /\ ~row.hold
       THEN /\ row' = [row EXCEPT !.hold = TRUE]
            /\ fresh' = [fresh EXCEPT ![p] = FALSE]
            /\ task' = [task EXCEPT ![p]["web"] = [pc |-> "connect", claimed |-> TRUE]]
       ELSE Done(p, "web") /\ UNCHANGED <<row, fresh>>
    /\ UNCHANGED <<evo, given, noted, storing, watch, orphaned, spent>>

-----------------------------------------------------------------------------
\* logoutInstance(), also what enableFullHistorySync() ends with.  Evolution
\* answers 400 in close, which counts as done; then the hold is released.

Logout(p) ==
    /\ Free(p, "web") /\ row.there /\ evo.there
    /\ Alone => evo.live # "retry"
    /\ fresh' = [fresh EXCEPT ![p] = FALSE]
    /\ SetEvo(IF Reads("close") THEN evo ELSE [evo EXCEPT !.live = "close", !.owner = FALSE])
    /\ Goto(p, "web", "release")
    /\ UNCHANGED <<given, row, noted, storing, orphaned, spent>>

Release(p) ==
    /\ At(p, "web", "release")
    /\ Alone => evo.live # "retry"
    /\ \/ NoFault /\ row' = [row EXCEPT !.hold = FALSE]
       \/ Fault /\ UNCHANGED row
    /\ fresh' = [fresh EXCEPT ![p] = FALSE]
    /\ Done(p, "web")
    /\ UNCHANGED <<evo, given, noted, storing, watch, orphaned>>

-----------------------------------------------------------------------------
\* deleteInstance(), of a request or of the reaper: Evolution first.

Delete(p) ==
    /\ Free(p, "web") /\ row.there
    /\ Goto(p, "web", "evo_delete")
    /\ UNCHANGED <<evo, given, row, memory, watch, orphaned, spent>>

\* Mutant: the row goes whether or not Evolution let go of the instance.
EvoDeleteForced(p, t) ==
    /\ At(p, t, "evo_delete")
    /\ \/ NoFault /\ SetEvo(NoEvo)
       \/ Fault /\ UNCHANGED <<evo, watch>>
    /\ Goto(p, t, "row_delete")
    /\ UNCHANGED <<given, row, memory, orphaned>>

\* 404 is as good; a call that fails keeps the row, done or not.
EvoDelete(p, t) ==
    /\ At(p, t, "evo_delete")
    /\ \/ NoFault /\ SetEvo(NoEvo) /\ Goto(p, t, "row_delete")
       \/ Fault /\ SetEvo(NoEvo) /\ Done(p, t)
       \/ Fault /\ UNCHANGED <<evo, watch>> /\ Done(p, t)
    /\ UNCHANGED <<given, row, memory, orphaned>>

RowDelete(p, t) ==
    /\ At(p, t, "row_delete")
    /\ row' = [NoRow EXCEPT !.old = TRUE]   \* gone: nothing is created again
    /\ Done(p, t)
    /\ UNCHANGED <<evo, given, memory, watch, orphaned, spent>>

-----------------------------------------------------------------------------
\* reapUnpairedConnections() for this connection.

Due == row.there /\ row.old /\ ~row.paired /\ ~row.lease

\* Mutant: the claim does not look at the lease.
ReapClaimAnyway(p) ==
    /\ Free(p, "reap") /\ row.there /\ row.old /\ ~row.paired
    /\ row' = [row EXCEPT !.lease = TRUE]
    /\ watch' = [watch EXCEPT ![p] = Linked]
    /\ Goto(p, "reap", "live")
    /\ UNCHANGED <<evo, given, memory, orphaned, spent>>

\* The claim re-reads what the SELECT saw.
ReapClaim(p) ==
    /\ Free(p, "reap") /\ Due
    /\ row' = [row EXCEPT !.lease = TRUE]
    /\ watch' = [watch EXCEPT ![p] = Linked]
    /\ Goto(p, "reap", "live")
    /\ UNCHANGED <<evo, given, memory, orphaned, spent>>

\* Mutant: an instance Evolution no longer knows is one that could not be asked.
SeeLiveMissing(p) ==
    /\ At(p, "reap", "live")
    /\ CASE ~evo.there -> Done(p, "reap")
         [] evo.there /\ evo.live = "open" -> Goto(p, "reap", "record")
         [] evo.there /\ evo.live # "open" -> Goto(p, "reap", "owner")
    /\ UNCHANGED <<evo, given, row, memory, watch, orphaned, spent>>

\* pairingEvidence(): the live state, the row's owner, the stored messages.
\* A read that fails, or misses its deadline, makes the verdict "unknown".
SeeLive(p) ==
    /\ At(p, "reap", "live")
    /\ IF evo.there /\ evo.live = "open" THEN Goto(p, "reap", "record")
                                          ELSE Goto(p, "reap", "owner")
    /\ UNCHANGED <<evo, given, row, memory, watch, orphaned, spent>>

SeeOwner(p) ==
    /\ At(p, "reap", "owner")
    /\ Goto(p, "reap", CASE evo.owner -> "record"
                         [] ~evo.owner /\ readable -> "messages"
                         [] ~evo.owner /\ ~readable -> "evo_delete")
    /\ UNCHANGED <<evo, given, row, memory, watch, orphaned, spent>>

SeeMessages(p) ==
    /\ At(p, "reap", "messages")
    /\ Goto(p, "reap", IF evo.history THEN "record" ELSE "evo_delete")
    /\ UNCHANGED <<evo, given, row, memory, watch, orphaned, spent>>

\* Mutant: what cannot be counted is taken for nothing.
EvidenceFailsOpen(p) ==
    /\ At(p, "reap", "live") \/ At(p, "reap", "owner") \/ At(p, "reap", "messages")
    /\ Fault
    /\ IF At(p, "reap", "messages") THEN Goto(p, "reap", "evo_delete") ELSE Done(p, "reap")
    /\ UNCHANGED <<evo, given, row, memory, watch, orphaned>>

EvidenceFails(p) ==
    /\ At(p, "reap", "live") \/ At(p, "reap", "owner") \/ At(p, "reap", "messages")
    /\ Fault
    /\ Done(p, "reap")
    /\ UNCHANGED <<evo, given, row, memory, watch, orphaned>>

\* storePaired(), awaited.
Record(p) ==
    /\ At(p, "reap", "record")
    /\ \/ /\ NoFault
          /\ row' = [row EXCEPT !.paired = row.there]
          /\ noted' = [noted EXCEPT ![p] = TRUE]
       \/ Fault /\ UNCHANGED <<row, noted>>
    /\ Done(p, "reap")
    /\ UNCHANGED <<evo, given, fresh, storing, watch, orphaned>>

\* UNPAIRED_TTL_MS, and REAP_LEASE_MS: "longer than one candidate's probe and
\* delete can take", unless the process that has it ended.
Ages ==
    /\ \E p \in Procs : <<p, "reap">> \in crew
    /\ row.there /\ ~row.old /\ row' = [row EXCEPT !.old = TRUE]
    /\ UNCHANGED <<evo, given, task, memory, watch, orphaned, spent>>

LeaseEnds ==
    /\ row.lease /\ \A p \in Procs : At(p, "reap", "idle")
    /\ row' = [row EXCEPT !.lease = FALSE]
    /\ UNCHANGED <<evo, given, task, memory, watch, orphaned, spent>>

-----------------------------------------------------------------------------
\* Evolution and the account's owner.

Become(e) == SetEvo(e) /\ UNCHANGED <<given, row, task, memory, orphaned, spent>>

\* A code on the screen was polled for a moment ago, so the hold is running, and no
\* connect is on its way for as long as a person takes; the scan makes WhatsApp
\* close the socket once and Evolution reconnect.
Scan ==
    /\ evo.live = "connecting" /\ ~evo.owner /\ spent.scans < MaxScans
    /\ row.hold /\ ~ClaimUnderWay
    /\ SetEvo([evo EXCEPT !.live = "retry"])
    /\ spent' = [spent EXCEPT !.scans = @ + 1]
    /\ UNCHANGED <<given, row, task, memory, orphaned>>

RetryLands == evo.live = "retry" /\ Become([evo EXCEPT !.live = "open", !.owner = TRUE])
History == evo.live = "open" /\ ~evo.history /\ Become([evo EXCEPT !.history = TRUE])
Expires == evo.live = "connecting" /\ Become([evo EXCEPT !.live = "close", !.owner = FALSE])
Opens == evo.live = "connecting" /\ evo.owner /\ Become([evo EXCEPT !.live = "open"])

\* The connection is lost and Evolution reconnects at once, or the device was
\* unlinked on the phone, which it does not.
Drops == evo.live = "open" /\ Become([evo EXCEPT !.live = "connecting"])
Unlinked == evo.live = "open" /\ Become([evo EXCEPT !.live = "close", !.owner = FALSE])

\* A replica ends; one that was provisioning leaves what it made.
Crash(p) ==
    /\ spent.crashes < MaxCrashes /\ \E t \in Tasks : <<p, t>> \in crew
    /\ spent' = [spent EXCEPT !.crashes = @ + 1]
    /\ task' = [task EXCEPT ![p] = [t \in Tasks |-> Idle]]
    /\ fresh' = [fresh EXCEPT ![p] = FALSE] /\ noted' = [noted EXCEPT ![p] = FALSE]
    /\ storing' = [storing EXCEPT ![p] = FALSE]
    /\ watch' = [watch EXCEPT ![p] = FALSE]
    /\ orphaned' = (orphaned \/ At(p, "web", "insert") \/ At(p, "web", "undo"))
    /\ UNCHANGED <<evo, given, row>>

-----------------------------------------------------------------------------
Provision(p) == Create(p) \/ Insert(p) \/ InsertFails(p) \/ Undo(p)
Pairing(p) ==
    \/ PollRead(p) \/ PollOpen(p) \/ Extend(p) \/ Claim(p) \/ Connect(p) \/ ConnectFails(p)
    \/ Reconnect(p) \/ Reclaim(p) \/ Logout(p) \/ Release(p)
Evidence(p) == SeeLive(p) \/ SeeOwner(p) \/ SeeMessages(p) \/ EvidenceFails(p) \/ Record(p)
Reap(p) == ReapClaim(p) \/ Evidence(p) \/ EvoDelete(p, "reap") \/ RowDelete(p, "reap")

Next ==
    \/ \E p \in Procs : \/ Provision(p) \/ Pairing(p) \/ Reap(p)
                        \/ Delete(p) \/ EvoDelete(p, "web") \/ RowDelete(p, "web")
                        \/ ReadStatus(p) \/ StorePaired(p) \/ FreshEnds(p) \/ Crash(p)
    \/ HoldEnds \/ Ages \/ LeaseEnds
    \/ Scan \/ RetryLands \/ History \/ Expires \/ Opens \/ Drops \/ Unlinked

\* The reaper's task comes again and again, every call in it ends by its
\* deadline, and the lease runs out.
Fairness == WF_vars(LeaseEnds) /\ \A p \in Procs : WF_vars(Reap(p)) /\ WF_vars(StorePaired(p))

Spec == Init /\ [][Next]_vars
FairSpec == Spec /\ Fairness

-----------------------------------------------------------------------------
\* The shape of the state.
TypeOK ==
    /\ crew \in Crews
    /\ evo \in [there : BOOLEAN, live : Lives, owner : BOOLEAN, history : BOOLEAN]
    /\ row \in [there : BOOLEAN, paired : BOOLEAN, hold : BOOLEAN, lease : BOOLEAN, old : BOOLEAN]
    /\ \A p \in Procs, t \in Tasks : task[p][t].claimed \in BOOLEAN
    /\ (~evo.there => evo = NoEvo) /\ (~row.there => ~row.paired /\ ~row.hold)

\* "Deleting a connection that was paired throws away its tokens and access to its
\* history" (unpaired-reaper.ts:16): an account that was linked when the reaper
\* claimed it, and still is, is not what the reaper goes on to delete, whichever
\* of the reads sees it and whatever fails.
PairedIsKept ==
    \A p \in Procs : At(p, "reap", "evo_delete") \/ At(p, "reap", "row_delete") => ~watch[p]

\* A connect that was claimed never reaches Evolution while it is about to
\* reconnect by itself, which would make two sockets of one account
\* (instances.ts:1255-1272): two tabs, a reload and two replicas share the hold.
OneSocket == ClaimUnderWay => evo.live # "retry"

\* "two replicas never both ask Evolution to delete one instance"
\* (unpaired-reaper.ts:29-30).
ReapedByOne ==
    \A p, q \in Procs : task[p]["reap"].pc # "idle" /\ task[q]["reap"].pc # "idle" => p = q

\* "a live instance nobody has a record of is not [recoverable]"
\* (instances.ts:1444-1446): no order of deletes, retries and reaping leaves an
\* instance without its row, only a provisioning that could not be undone.
NoOrphan ==
    evo.there /\ ~row.there =>
        orphaned \/ \E p \in Procs : At(p, "web", "insert") \/ At(p, "web", "undo")

\* A connection nobody paired is removed, and one that is linked is recorded as
\* paired, in the end: the reaper asks every ten minutes (unpaired-reaper.ts).
Settled == row.there /\ row.old ~> ~row.there \/ row.paired

\* The reaper deletes what nobody paired, and of two replicas one does.
ReapsRightly == PairedIsKept /\ ReapedByOne

\* What Evolution has and what the rows say stay together.
EvolutionAgrees == OneSocket /\ NoOrphan
=============================================================================

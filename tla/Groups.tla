------------------------------- MODULE Groups -------------------------------
(***************************************************************************)
(* apps/web/server/utils/whatsapp-groups.ts, groupsFor() of chats.ts and   *)
(* staleWhileRevalidate() of lookup-cache.ts: the subjects of one          *)
(* account's groups, asked of WhatsApp by one replica at a time and shown  *)
(* by each from its memory.                                                *)
(*                                                                         *)
(* What is known is the version of the account's groups it was read from;  *)
(* 0 is nothing.                                                           *)
(***************************************************************************)
EXTENDS Naturals

CONSTANTS
    Replicas,
    MaxVersion, \* bound: versions of the account's groups
    MaxFaults   \* bound: restarts, scans that fail and results that are not stored

Assumption == MaxVersion \in Nat \ {0} /\ MaxFaults \in Nat

VARIABLES
    groups,  \* the version of the account's groups
    stored,  \* app.whatsapp_groups
    scans,   \* app.whatsapp_group_scans: [scanned, failed: within the interval or the
             \* back-off, lease]
    cache,   \* [replica -> [value, fresh] or NoEntry]
    seed,    \* [replica -> what its seed has read, "none" or "asked"]
    waits,   \* [replica -> whether a reader waits for the seed]
    load,    \* [replica -> [pc, value]]: the load in flight
    shown,   \* [replica -> the version its last reader was shown]
    faults

vars == <<groups, stored, scans, cache, seed, waits, load, shown, faults>>

NoEntry == [value |-> 0, fresh |-> FALSE, there |-> FALSE]
NoLoad == [pc |-> "idle", value |-> 0]
NoSeed == [pc |-> "none", value |-> 0]

Init ==
    /\ groups = 1 /\ stored = 0
    /\ scans = [scanned |-> FALSE, failed |-> FALSE, lease |-> FALSE]
    /\ cache = [r \in Replicas |-> NoEntry] /\ seed = [r \in Replicas |-> NoSeed]
    /\ waits = [r \in Replicas |-> FALSE]
    /\ load = [r \in Replicas |-> NoLoad]
    /\ shown = [r \in Replicas |-> 0] /\ faults = 0

-----------------------------------------------------------------------------
Loading(r) == load[r].pc # "idle"
At(r, pc) == load[r].pc = pc
Goes(r, pc, value) == load' = [load EXCEPT ![r] = [pc |-> pc, value |-> value]]
Fails == faults < MaxFaults /\ faults' = faults + 1

\* A load starts when the entry is missing or expired and none is in flight.
Wants(r, entry) == ~entry.fresh /\ ~Loading(r)

Refresh(r, entry) ==
    load' = IF Wants(r, entry) THEN [load EXCEPT ![r] = [pc |-> "claim", value |-> 0]] ELSE load

-----------------------------------------------------------------------------
\* peek().

\* A reader of a cold entry waits for the one seed.
PeekCold(r) ==
    /\ ~cache[r].there /\ ~waits[r] /\ waits' = [waits EXCEPT ![r] = TRUE]
    /\ seed' = IF seed[r].pc = "none" THEN [seed EXCEPT ![r] = [pc |-> "asked", value |-> 0]] ELSE seed
    /\ UNCHANGED <<groups, stored, scans, cache, load, shown, faults>>

Peek(r) ==
    /\ cache[r].there /\ Refresh(r, cache[r])
    /\ shown' = [shown EXCEPT ![r] = cache[r].value]
    /\ UNCHANGED <<groups, stored, scans, cache, seed, waits, faults>>

\* readStoredGroups(), which answers nothing when it fails.
SeedReads(r, found) ==
    /\ seed[r].pc = "asked"
    /\ (found = stored /\ UNCHANGED faults) \/ (found = 0 /\ Fails)
    /\ seed' = [seed EXCEPT ![r] = [pc |-> "read", value |-> found]]
    /\ UNCHANGED <<groups, stored, scans, cache, waits, load, shown>>

\* Mutant: the seed does not ask whether a refresh has settled.
SeededOver(r, value) == IF value # 0 THEN [value |-> value, fresh |-> FALSE, there |-> TRUE] ELSE cache[r]

\* "A refresh may have settled while the seed was being read; it wins."
Seeded(r, value) ==
    IF value # 0 /\ ~cache[r].there THEN [value |-> value, fresh |-> FALSE, there |-> TRUE] ELSE cache[r]

\* seedOnce() settles, and the readers that waited for it go on.
SeedSettles(r) ==
    LET entry == Seeded(r, seed[r].value) IN
    /\ seed[r].pc = "read" /\ seed' = [seed EXCEPT ![r] = NoSeed]
    /\ cache' = [cache EXCEPT ![r] = entry]
    /\ IF waits[r]
       THEN /\ Refresh(r, entry) /\ shown' = [shown EXCEPT ![r] = entry.value]
       ELSE UNCHANGED <<load, shown>>
    /\ waits' = [waits EXCEPT ![r] = FALSE]
    /\ UNCHANGED <<groups, stored, scans, faults>>

-----------------------------------------------------------------------------
\* groupsFor()'s load.

\* Mutant: a scan that is under way is not waited for.
FreeUnleased == ~scans.scanned /\ ~scans.failed

\* claimGroupScan()'s condition.
Free == ~scans.lease /\ ~scans.scanned /\ ~scans.failed

Claim(r) ==
    /\ At(r, "claim")
    /\ IF Free THEN scans' = [scans EXCEPT !.lease = TRUE] /\ Goes(r, "scan", 0)
               ELSE UNCHANGED scans /\ Goes(r, "stored", 0)
    /\ UNCHANGED <<groups, stored, cache, seed, waits, shown, faults>>

\* It cannot ask, or does not learn the answer: it does not scan.
ClaimLost(r) ==
    /\ At(r, "claim") /\ Fails /\ Goes(r, "stored", 0)
    /\ UNCHANGED scans \/ (Free /\ scans' = [scans EXCEPT !.lease = TRUE])
    /\ UNCHANGED <<groups, stored, cache, seed, waits, shown>>

ScanAnswers(r) ==
    /\ At(r, "scan") /\ Goes(r, "replace", groups)
    /\ UNCHANGED <<groups, stored, scans, cache, seed, waits, shown, faults>>

ScanFails(r) ==
    /\ At(r, "scan") /\ Fails /\ Goes(r, "failed", 0)
    /\ UNCHANGED <<groups, stored, scans, cache, seed, waits, shown>>

\* settle(): a failure keeps what there was, for a while.
Settled(r, value) == [value |-> IF value = 0 THEN cache[r].value ELSE value, fresh |-> TRUE, there |-> TRUE]

\* A load settles with the answer to its last statement.
Settle(r, value) ==
    /\ load' = [load EXCEPT ![r] = NoLoad]
    /\ cache' = [cache EXCEPT ![r] = Settled(r, value)]
    /\ UNCHANGED <<groups, seed, waits, shown>>

\* recordGroupScanFailure(), replaceStoredGroups(): neither throws when it fails.
RecordFailure(r) ==
    /\ At(r, "failed") /\ Goes(r, "stored", 0)
    /\ scans' = [scans EXCEPT !.failed = TRUE, !.lease = FALSE]
    /\ UNCHANGED <<groups, stored, cache, seed, waits, shown, faults>>

FailureLost(r) ==
    /\ At(r, "failed") /\ Fails /\ Goes(r, "stored", 0)
    /\ UNCHANGED <<groups, stored, scans, cache, seed, waits, shown>>

Replace(r) ==
    /\ At(r, "replace") /\ Settle(r, load[r].value)
    /\ stored' = load[r].value /\ scans' = [scans EXCEPT !.scanned = TRUE, !.lease = FALSE]
    /\ UNCHANGED faults

ReplaceFails(r) == At(r, "replace") /\ Fails /\ Settle(r, load[r].value) /\ UNCHANGED <<stored, scans>>

ReadStored(r) == At(r, "stored") /\ Settle(r, stored) /\ UNCHANGED <<stored, scans, faults>>

-----------------------------------------------------------------------------
\* Time, WhatsApp, and restarts.  The lease is longer than a scan with what is written
\* after it.
Scanning(r) == load[r].pc \in {"scan", "failed", "replace"}

Expire(r) ==
    /\ cache[r].fresh /\ cache' = [cache EXCEPT ![r].fresh = FALSE]
    /\ UNCHANGED <<groups, stored, scans, seed, waits, load, shown, faults>>

IntervalEnds ==
    /\ scans.scanned \/ scans.failed
    /\ scans' = [scans EXCEPT !.scanned = FALSE, !.failed = FALSE]
    /\ UNCHANGED <<groups, stored, cache, seed, waits, load, shown, faults>>

LeaseEnds ==
    /\ scans.lease /\ \A r \in Replicas : ~Scanning(r)
    /\ scans' = [scans EXCEPT !.lease = FALSE]
    /\ UNCHANGED <<groups, stored, cache, seed, waits, load, shown, faults>>

Changes ==
    /\ groups < MaxVersion /\ groups' = groups + 1
    /\ UNCHANGED <<stored, scans, cache, seed, waits, load, shown, faults>>

Restart(r) ==
    /\ Fails
    /\ cache' = [cache EXCEPT ![r] = NoEntry] /\ seed' = [seed EXCEPT ![r] = NoSeed]
    /\ waits' = [waits EXCEPT ![r] = FALSE] /\ load' = [load EXCEPT ![r] = NoLoad]
    /\ shown' = [shown EXCEPT ![r] = 0]
    /\ UNCHANGED <<groups, stored, scans>>

Seeds(r) == SeedSettles(r) \/ \E found \in 0 .. MaxVersion : SeedReads(r, found)
Loads(r) == Claim(r) \/ ScanAnswers(r) \/ RecordFailure(r) \/ Replace(r) \/ ReadStored(r)

Next ==
    \/ \E r \in Replicas :
        \/ PeekCold(r) \/ Peek(r) \/ Seeds(r) \/ Loads(r)
        \/ ClaimLost(r) \/ ScanFails(r) \/ FailureLost(r) \/ ReplaceFails(r) \/ Expire(r) \/ Restart(r)
    \/ IntervalEnds \/ LeaseEnds \/ Changes

Spec == Init /\ [][Next]_vars

-----------------------------------------------------------------------------
\* The shape of the state.
TypeOK ==
    /\ groups \in 1 .. MaxVersion /\ stored \in 0 .. groups
    /\ \A r \in Replicas : {cache[r].value, seed[r].value, load[r].value, shown[r]} \subseteq 0 .. groups

\* "A scan still running is never claimed twice" (whatsapp-groups.ts:49).
OneScan == \A r, q \in Replicas : Scanning(r) /\ Scanning(q) => r = q

\* "A name from a minute ago still beats a raw id on screen" (lookup-cache.ts:25-27), and a
\* seed never replaces what a refresh stored (:125): until it restarts, a replica that
\* has shown names never shows none, nor older ones unless something failed.
NamesStay ==
    [][\A r \in Replicas :
         cache'[r] = NoEntry \/ shown'[r] >= shown[r] \/ (faults > 0 /\ shown'[r] # 0)]_vars
=============================================================================

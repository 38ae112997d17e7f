------------------------------ MODULE ImapSync ------------------------------
(***************************************************************************)
(* apps/web/server/utils/imap-sync.ts, and updateImapCredentials() of      *)
(* instances.ts: the headers of a mailbox, copied into app.mail_* by the   *)
(* task of every replica.                                                  *)
(*                                                                         *)
(* One folder of each mailbox, on a server that files, deletes, renumbers  *)
(* and marks as it likes.  A run holds the lease, logs in with the         *)
(* credentials its row had, and writes one statement at a time.            *)
(***************************************************************************)
EXTENDS Naturals, FiniteSets, FiniteSetsExt

CONSTANTS
    Procs,      \* replicas
    Worlds,     \* [procs, boxes, uids, calm, marks, renumbers, faults]: who runs, the
                \* mailboxes the credentials may name, uids of a numbering, whether the
                \* credentials change only between runs, whether a folder may be marked
                \* as Junk for a while, and how often it is numbered again and runs fail,
                \* are refused or crash
    Chunk,      \* BACKFILL_CHUNK, and NEW_CHUNK
    Limit       \* mailSyncLimits().max

Assumption == Chunk \in Nat \ {0} /\ Limit \in Nat /\ \A w \in Worlds : w.uids \in Nat

VARIABLES
    world,
    server,  \* [box -> [validity, next, junk, date: uid -> "none", "new" or "old"]]: a
             \* date is old once the age limit is past it
    cred,    \* the credentials of the row: [box, n]
    patch,   \* updateImapCredentials(): "idle", "reset" or "auth"
    state,   \* app.mail_sync_state: [identity, leased, auth]
    folder,  \* app.mail_folders: [validity, last, oldest, complete, stopped, synced]
    rows,    \* app.mail_messages: [uid -> [box, validity] or NoRow]
    run,     \* the runs
    faults   \* so far

vars == <<world, server, cred, patch, state, folder, rows, run, faults>>

Uids == UNION {1 .. w.uids : w \in Worlds}
Boxes == UNION {w.boxes : w \in Worlds}
NoRow == [box |-> "", validity |-> 0]
NoFolder == [validity |-> 0, last |-> 0, oldest |-> 0, complete |-> FALSE, stopped |-> "",
              there |-> FALSE, synced |-> FALSE]
\* validity, next: of the folder when it was selected; todo: uids to fetch and store;
\* then: where to save what was stored.
Idle == [pc |-> "idle", cred |-> [box |-> "", n |-> 0], validity |-> 0, next |-> 0,
         todo |-> {}, then |-> "", last |-> 0, oldest |-> 0]

Init ==
    /\ world \in Worlds
    /\ \E b \in world.boxes : cred = [box |-> b, n |-> 1]
    /\ server = [b \in Boxes |-> [validity |-> 1, next |-> 1, junk |-> FALSE, date |-> [u \in Uids |-> "none"]]]
    /\ patch = "idle"
    /\ state = [identity |-> "", leased |-> FALSE, auth |-> FALSE]
    /\ folder = NoFolder /\ rows = [u \in Uids |-> NoRow]
    /\ run = [p \in Procs |-> Idle] /\ faults = 0

-----------------------------------------------------------------------------
Stored == {u \in Uids : rows[u] # NoRow}
Empty == [u \in Uids |-> NoRow]
Running == {p \in Procs : run[p].pc \notin {"idle", "loaded"}}
Between == world.calm => \A p \in Procs : run[p] = Idle
At(p, pc) == run[p].pc = pc
Go(p, r) == run' = [run EXCEPT ![p] = r]

\* What the server of the run's mailbox answers to a search.
Box(p) == server[run[p].cred.box]
Connected(p) == run[p].validity = Box(p).validity
Found(p, dates) == {u \in Uids : Box(p).date[u] \in dates}
Newest(n, S) == {u \in S : Cardinality({v \in S : v > u}) < n}
Oldest(n, S) == {u \in S : Cardinality({v \in S : v < u}) < n}

-----------------------------------------------------------------------------
\* The mail server and its owner.

Arrive(b, d) ==
    /\ b \in world.boxes /\ server[b].next <= world.uids
    /\ server' = [server EXCEPT ![b].date[server[b].next] = d, ![b].next = @ + 1]
    /\ UNCHANGED <<world, cred, patch, state, folder, rows, run, faults>>

Expunge(b, u) ==
    /\ server[b].date[u] # "none"
    /\ server' = [server EXCEPT ![b].date[u] = "none"]
    /\ UNCHANGED <<world, cred, patch, state, folder, rows, run, faults>>

Age(b, u) ==
    /\ server[b].date[u] = "new"
    /\ server' = [server EXCEPT ![b].date[u] = "old"]
    /\ UNCHANGED <<world, cred, patch, state, folder, rows, run, faults>>

\* A folder deleted and made again; sessions that have it selected end.
Renumber(b) ==
    /\ server[b].validity <= world.renumbers
    /\ server' = [server EXCEPT ![b].validity = @ + 1, ![b].next = 1, ![b].date = [u \in Uids |-> "none"]]
    /\ UNCHANGED <<world, cred, patch, state, folder, rows, run, faults>>

Mark(b) ==
    /\ world.marks
    /\ server' = [server EXCEPT ![b].junk = ~@]
    /\ UNCHANGED <<world, cred, patch, state, folder, rows, run, faults>>

-----------------------------------------------------------------------------
\* Mutant: what was synced under the old identity is left.
ResetKeeps(box) == state' = [state EXCEPT !.identity = box, !.auth = FALSE] /\ UNCHANGED <<folder, rows>>

\* resetIfIdentityChanged(), one transaction.
Reset(box) ==
    IF state.identity = box THEN UNCHANGED <<state, folder, rows>>
    ELSE /\ folder' = NoFolder /\ rows' = Empty
         /\ state' = [state EXCEPT !.identity = box, !.auth = FALSE]

\* updateImapCredentials(): the row, the reset, the stop an old password put.
Patch(b) ==
    /\ patch = "idle" /\ b \in world.boxes /\ world.procs # {} /\ cred.n = 1 /\ Between
    /\ cred' = [box |-> b, n |-> 2] /\ patch' = "reset"
    /\ UNCHANGED <<world, server, state, folder, rows, run, faults>>

PatchReset ==
    /\ patch = "reset" /\ patch' = "auth" /\ Reset(cred.box)
    /\ UNCHANGED <<world, server, cred, run, faults>>

PatchAuth ==
    /\ patch = "auth" /\ patch' = "idle" /\ state' = [state EXCEPT !.auth = FALSE]
    /\ UNCHANGED <<world, server, cred, folder, rows, run, faults>>

-----------------------------------------------------------------------------
\* runImapSync() reads the rows first; requestImapSync() has just read its own.
Load(p) ==
    /\ At(p, "idle") /\ p \in world.procs
    /\ Go(p, [Idle EXCEPT !.pc = "loaded", !.cred = cred])
    /\ UNCHANGED <<world, server, cred, patch, state, folder, rows, faults>>

\* claimLease(); a run that was asked for tries a refused password again.
Claim(p, asked) ==
    /\ At(p, "loaded") /\ ~state.leased /\ (asked \/ ~state.auth)
    /\ state' = [state EXCEPT !.leased = TRUE]
    /\ Go(p, [run[p] EXCEPT !.pc = "reset"])
    /\ UNCHANGED <<world, server, cred, patch, folder, rows, faults>>

Busy(p) ==
    /\ At(p, "loaded") /\ (state.leased \/ state.auth) /\ Go(p, Idle)
    /\ UNCHANGED <<world, server, cred, patch, state, folder, rows, faults>>

CheckIdentity(p) ==
    /\ At(p, "reset") /\ Reset(run[p].cred.box)
    /\ Go(p, [run[p] EXCEPT !.pc = "list"])
    /\ UNCHANGED <<world, server, cred, patch, faults>>

\* syncFolders(): the folder is listed, loses its rows when it is not synced, and is
\* selected when it is.
List(p) ==
    /\ At(p, "list")
    /\ folder' = [folder EXCEPT !.there = TRUE, !.synced = ~Box(p).junk]
    /\ IF Box(p).junk
       THEN rows' = Empty /\ Go(p, [run[p] EXCEPT !.pc = "end"])
       ELSE UNCHANGED rows /\ Go(p, [run[p] EXCEPT !.pc = "folder"])
    /\ UNCHANGED <<world, server, cred, patch, state, faults>>

-----------------------------------------------------------------------------
\* syncFolder().

\* Mutant: a folder that was numbered again is not noticed.
SelectBlind(p) ==
    /\ At(p, "folder") /\ UNCHANGED rows
    /\ Go(p, [run[p] EXCEPT !.pc = IF folder.oldest = 0 THEN "first" ELSE "new", !.validity = Box(p).validity,
                            !.next = Box(p).next, !.last = folder.last, !.oldest = folder.oldest])
    /\ UNCHANGED <<world, server, cred, patch, state, folder, faults>>

Select(p) ==
    LET known == folder.validity \in {0, Box(p).validity} IN
    /\ At(p, "folder")
    /\ rows' = IF known THEN rows ELSE Empty
    /\ Go(p, [run[p] EXCEPT !.pc = IF ~known THEN "renumbered" ELSE IF folder.oldest = 0 THEN "first" ELSE "new",
                            !.validity = Box(p).validity, !.next = Box(p).next,
                            !.last = IF known THEN folder.last ELSE 0,
                            !.oldest = IF known THEN folder.oldest ELSE 0])
    /\ UNCHANGED <<world, server, cred, patch, state, folder, faults>>

Renumbered(p) ==
    /\ At(p, "renumbered")
    /\ folder' = IF folder.there THEN [NoFolder EXCEPT !.validity = folder.validity, !.there = TRUE, !.synced = TRUE]
                  ELSE folder
    /\ Go(p, [run[p] EXCEPT !.pc = "first"])
    /\ UNCHANGED <<world, server, cred, patch, state, rows, faults>>

\* First sight: the newest that are not too old.
First(p) ==
    LET newest == Newest(Chunk, Found(p, {"new"})) IN
    /\ At(p, "first") /\ Connected(p)
    /\ LET last == Max({run[p].next - 1} \union newest) IN
       Go(p, [run[p] EXCEPT !.pc = "store", !.then = "saveFirst", !.todo = newest, !.last = last,
                            !.oldest = IF newest = {} THEN last + 1 ELSE Min(newest)])
    /\ UNCHANGED <<world, server, cred, patch, state, folder, rows, faults>>

\* Mutant: one message is not yet news.
NewLate(p) ==
    LET r == run[p]
        fresh == Oldest(Chunk, {u \in Found(p, {"new", "old"}) : u > r.last})
    IN /\ At(p, "new") /\ Connected(p)
       /\ IF r.next - 1 > r.last + 1
          THEN Go(p, [r EXCEPT !.pc = "store", !.then = "saveNew", !.todo = fresh,
                               !.last = Max({@} \union fresh \union (IF Cardinality(fresh) < Chunk THEN {r.next - 1} ELSE {}))])
          ELSE Go(p, [r EXCEPT !.pc = "expunge"])
       /\ UNCHANGED <<world, server, cred, patch, state, folder, rows, faults>>

\* Mail since the last run, of any age.
New(p) ==
    LET r == run[p]
        fresh == Oldest(Chunk, {u \in Found(p, {"new", "old"}) : u > r.last})
    IN /\ At(p, "new") /\ Connected(p)
       /\ IF r.next - 1 > r.last
          THEN Go(p, [r EXCEPT !.pc = "store", !.then = "saveNew", !.todo = fresh,
                               !.last = Max({@} \union fresh \union (IF Cardinality(fresh) < Chunk THEN {r.next - 1} ELSE {}))])
          ELSE Go(p, [r EXCEPT !.pc = "expunge"])
       /\ UNCHANGED <<world, server, cred, patch, state, folder, rows, faults>>

\* storeMessages(): a batch of one.  Rows name their folder: without it the run skips it.
Store(p) ==
    LET r == run[p]
        u == IF r.then = "saveNew" THEN Min(r.todo) ELSE Max(r.todo)
        there == Box(p).date[u] # "none"
    IN /\ At(p, "store") /\ Connected(p) /\ r.todo # {}
       /\ rows' = IF there /\ folder.there THEN [rows EXCEPT ![u] = [box |-> r.cred.box, validity |-> r.validity]] ELSE rows
       /\ Go(p, IF there /\ ~folder.there THEN [r EXCEPT !.pc = "end"] ELSE [r EXCEPT !.todo = @ \ {u}])
       /\ UNCHANGED <<world, server, cred, patch, state, folder, faults>>

\* save(): an UPDATE of a folder that may be gone.
Save(p) ==
    LET r == run[p] IN
    /\ At(p, "store") /\ r.todo = {}
    /\ folder' = IF ~folder.there THEN folder ELSE
                 CASE r.then = "saveFirst" ->
                        [folder EXCEPT !.validity = r.validity, !.last = r.last, !.oldest = r.oldest]
                   [] r.then = "saveNew" -> [folder EXCEPT !.validity = r.validity, !.last = r.last]
                   [] r.then = "saveOld" -> [folder EXCEPT !.oldest = r.oldest]
    /\ Go(p, [r EXCEPT !.pc = IF r.then = "saveOld" THEN "end" ELSE "expunge"])
    /\ UNCHANGED <<world, server, cred, patch, state, rows, faults>>

\* Every fifth run, and when there are more rows than messages.
ExpungeRows(p, due) ==
    LET present == Found(p, {"new", "old"}) IN
    /\ At(p, "expunge") /\ Connected(p)
    /\ Cardinality(Stored) > Cardinality(present) => due
    /\ rows' = IF due THEN [u \in Uids |-> IF u \in present THEN rows[u] ELSE NoRow] ELSE rows
    /\ Go(p, [run[p] EXCEPT !.pc = "backfill"])
    /\ UNCHANGED <<world, server, cred, patch, state, folder, faults>>

-----------------------------------------------------------------------------
\* Mutant: reaching the first uid is enough.
FinishedByUid(p) == [complete |-> TRUE, stopped |-> ""]

\* Whether the folder's history is complete is decided by date.
Finished(p) ==
    IF Found(p, {"old"}) = {} THEN [complete |-> TRUE, stopped |-> ""] ELSE [complete |-> FALSE, stopped |-> "days"]

\* Mutant: a folder that was complete stays so.
EndsComplete(p, said) ==
    /\ folder' = IF folder.there THEN [folder EXCEPT !.complete = @ \/ said.complete, !.stopped = said.stopped] ELSE folder
    /\ Go(p, [run[p] EXCEPT !.pc = "end"])

Ends(p, said) ==
    /\ folder' = IF folder.there THEN [folder EXCEPT !.complete = said.complete, !.stopped = said.stopped] ELSE folder
    /\ Go(p, [run[p] EXCEPT !.pc = "end"])

Backfill(p) ==
    LET r == run[p]
        older == {u \in Found(p, {"new"}) : u < r.oldest}
        room == IF Limit > Cardinality(Stored) THEN Limit - Cardinality(Stored) ELSE 0
        chunk == Newest(IF Chunk < room THEN Chunk ELSE room, older)
    IN /\ At(p, "backfill") /\ Connected(p)
       /\ IF r.oldest <= 1 \/ older = {} THEN Ends(p, Finished(p))
          ELSE IF room = 0 THEN Ends(p, [complete |-> FALSE, stopped |-> "count"])
          ELSE /\ Go(p, [r EXCEPT !.pc = "store", !.then = "saveOld", !.todo = chunk, !.oldest = Min(chunk)])
               /\ UNCHANGED folder
       /\ UNCHANGED <<world, server, cred, patch, state, rows, faults>>

\* RUN_BUDGET_MS is over.
OutOfTime(p) ==
    /\ At(p, "backfill") /\ run[p].oldest > 1 /\ faults < world.faults /\ faults' = faults + 1
    /\ Go(p, [run[p] EXCEPT !.pc = "end"])
    /\ UNCHANGED <<world, server, cred, patch, state, folder, rows>>

-----------------------------------------------------------------------------
\* runClaimed() ends: the lease is given back to nobody in particular.
Over(p, auth) ==
    /\ state' = [state EXCEPT !.leased = FALSE, !.auth = auth]
    /\ Go(p, Idle)
    /\ UNCHANGED <<world, server, cred, patch, folder, rows>>

Succeed(p) == At(p, "end") /\ Over(p, FALSE) /\ UNCHANGED faults

\* The connection, which a folder that is numbered again takes along.
Drops(p) ==
    /\ p \in Running
    /\ (run[p].validity # 0 /\ ~Connected(p)) \/ faults < world.faults
    /\ faults' = faults + 1
    /\ Over(p, FALSE)

Refused(p) ==
    /\ At(p, "list") /\ faults < world.faults /\ faults' = faults + 1
    /\ Over(p, TRUE)

Crash(p) ==
    /\ ~At(p, "idle") /\ faults < world.faults /\ faults' = faults + 1 /\ Go(p, Idle)
    /\ UNCHANGED <<world, server, cred, patch, state, folder, rows>>

\* LEASE_MS outlives RUN_HARD_LIMIT_MS.
LeaseEnds ==
    /\ state.leased /\ Running = {} /\ state' = [state EXCEPT !.leased = FALSE]
    /\ UNCHANGED <<world, server, cred, patch, folder, rows, run, faults>>

Steps(p) ==
    \/ Load(p) \/ Claim(p, FALSE) \/ CheckIdentity(p) \/ List(p) \/ Select(p) \/ Renumbered(p)
    \/ First(p) \/ New(p) \/ Store(p) \/ Save(p) \/ \E due \in BOOLEAN : ExpungeRows(p, due)
    \/ Backfill(p) \/ Succeed(p)

Next ==
    \/ \E p \in Procs :
        \/ Steps(p) \/ Claim(p, TRUE) \/ Busy(p)
        \/ OutOfTime(p) \/ Drops(p) \/ Refused(p) \/ Crash(p)
    \/ LeaseEnds
    \/ \E b \in Boxes :
        \/ \E d \in {"new", "old"} : Arrive(b, d)
        \/ \E u \in Uids : Expunge(b, u) \/ Age(b, u)
        \/ Renumber(b) \/ Mark(b) \/ Patch(b)
    \/ PatchReset \/ PatchAuth

Spec == Init /\ [][Next]_vars
Fairness ==
    /\ \A p \in Procs : WF_vars(Steps(p)) /\ WF_vars(Busy(p)) /\ WF_vars(Drops(p))
    /\ WF_vars(LeaseEnds) /\ WF_vars(PatchReset \/ PatchAuth)

-----------------------------------------------------------------------------
\* The shape of the state.
TypeOK ==
    /\ \A u \in Uids : rows[u] = NoRow \/ (rows[u].box \in Boxes /\ folder.there)
    /\ \A p \in Procs : run[p].todo \subseteq Uids
    /\ folder.stopped \in {"", "days", "count"} /\ (folder.complete => folder.stopped = "")

\* "Headers from one person's inbox must not appear under another's"
\* (instances.ts:530-531, imap-sync.ts:23-24): once updateImapCredentials() is
\* through its writes and no run is under way, every row is of the mailbox the
\* connection names.
OneMailbox == patch = "idle" /\ Running = {} => \A u \in Stored : rows[u].box = cred.box

\* "Keeping them would attach one message's headers to another's body"
\* (imap-sync.ts:19-22): a folder that is synced has the rows of one numbering, as
\* long as no run was cut short.
OneNumbering ==
    faults = 0 /\ folder.oldest # 0 => \A u \in Stored : rows[u].validity = folder.validity

\* "A folder that said "complete" over a year of skipped mail would tell the model
\* there is no older mail when there is" (imap-sync.ts:376-377): what is said to be
\* complete lacks no message up to the newest seen, whatever order mail was filed in,
\* aged or was cut short in.
HistoryIsTrue ==
    LET box == server[cred.box] IN
    patch = "idle" /\ folder.synced /\ folder.complete /\ folder.validity = box.validity =>
        \A u \in Uids : u <= folder.last /\ box.date[u] # "none" => rows[u] # NoRow

\* The three of them: what is stored is of this mailbox and this numbering, and what is
\* said of it is so.
RowsAreTrue == OneMailbox /\ OneNumbering /\ HistoryIsTrue

\* "A run that dies halfway leaves nothing a later run cannot redo"
\* (imap-sync.ts:28-29): when the mailbox and its owner rest, all its mail inside the
\* limits comes to be stored, unless its password was refused.
MailIsSynced ==
    LET box == server[cred.box] IN
    <>[](\/ state.auth \/ Cardinality(Stored) >= Limit
         \/ \A u \in Uids : box.date[u] = "new" => rows[u] = [box |-> cred.box, validity |-> box.validity])
=============================================================================

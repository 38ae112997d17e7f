----------------------------- MODULE Statements -----------------------------
(***************************************************************************)
(* apps/web/server/utils/pg-run.ts, pg-guard.ts and pg-catalog.ts with the *)
(* tools of server/mcp/tools/sql: the SQL a caller sends to a user's own   *)
(* database, checked on its plan and run in the same transaction, and the  *)
(* listing it starts from.  Meanwhile others migrate and write.            *)
(*                                                                         *)
(* Postgres is external: what a name resolves to, which locks a statement  *)
(* takes and which migration waits for them, statements that each read     *)
(* what is committed, and a cursor that reads what was when it was opened. *)
(*                                                                         *)
(* "orders" is partitioned: "first" is always its partition, "part" when   *)
(* it is attached.  "view" is over a table.  A user's function reads       *)
(* "other".                                                                *)
(***************************************************************************)
EXTENDS Naturals, FiniteSets, FiniteSetsExt, Sequences

CONSTANTS
    Callers,
    Worlds   \* [calls, stmts, scope, hidden, ddl, rows, most, faults]: who calls, with which
             \* statements, the token's tables, the relations the role may not read, the
             \* migrations there are, how many rows match at first and ever, and how many
             \* calls fail

VARIABLES
    sql,      \* of the world
    db,       \* [view, attached, rels, rows]: what the view is over, whether "part" is a
              \* partition, the relations there are, how many rows the statements match
    call,     \* [caller -> its call]
    locks,    \* [caller -> the relations its transaction has locked]
    session,  \* [caller -> what its connection keeps when the transaction ends]
    read,     \* [caller -> the tables that were read for its last call]
    reply,    \* [caller -> [status, count]]: the answer to its last call
    changed,  \* [caller -> rows its last call has changed and committed]
    walk,     \* [caller -> [stmt, seen, page, more, quiet]]: the pages it has followed, and
              \* whether nothing has changed since it began
    faults

vars == <<sql, db, call, locks, session, read, reply, changed, walk, faults>>

Relations == <<"orders", "other", "part", "view">>   \* by name
Every == {Relations[i] : i \in DOMAIN Relations}
Tools == {"read", "explain", "write", "list", "describe"}
NoStmt == [tool |-> "none", names |-> "", kind |-> "", fn |-> "", filtered |-> TRUE, whole |-> FALSE, max |-> 0]
NoFacts == [rels |-> {}, calls |-> FALSE, modifies |-> FALSE, root |-> FALSE, unfiltered |-> FALSE]
NoCall == [pc |-> "idle", stmt |-> NoStmt, page |-> 0, facts |-> NoFacts, snap |-> 0, count |-> 0]
NoReply == [status |-> "none", count |-> 0]
NoWalk == [stmt |-> NoStmt, seen |-> {}, page |-> 0, more |-> FALSE, quiet |-> TRUE]

\* A token's tables are chosen from a listing (tables.get.ts:13), which has no partitions
\* (pg-catalog.ts:79).  The server would take any names (scope-schema.ts:18).
Assumption ==
    \A w \in Worlds :
        /\ w.rows \in Nat /\ w.most \in Nat /\ w.rows <= w.most /\ "first" \notin w.scope
        /\ \A s \in w.stmts : s.tool \in Tools /\ s.max \in Nat

Init ==
    /\ sql \in Worlds
    /\ db = [view |-> "orders", attached |-> TRUE, rels |-> Every, rows |-> sql.rows]
    /\ call = [c \in Callers |-> NoCall]
    /\ locks = [c \in Callers |-> {}] /\ session = [c \in Callers |-> {}]
    /\ read = [c \in Callers |-> {}] /\ reply = [c \in Callers |-> NoReply]
    /\ changed = [c \in Callers |-> 0] /\ walk = [c \in Callers |-> NoWalk] /\ faults = 0

-----------------------------------------------------------------------------
\* Postgres.

\* A view that "calls" is over "orders" and calls a user's function.
Base(name) == IF name # "view" THEN name ELSE IF db.view = "calls" THEN "orders" ELSE db.view
Partitions == {"first"} \union (IF db.attached THEN {"part"} ELSE {})

\* The plan of a partitioned table names its partitions and not the table.
Resolved(name) == IF Base(name) = "orders" THEN Partitions ELSE {Base(name)}
Calls(name) == name = "view" /\ db.view = "calls"

\* Mutant: the statement runs in another transaction than its EXPLAIN did.
Unlocked(name) == {}

\* EXPLAIN locks what it names and resolves to, until the transaction ends.
Locked(name) == {name, Base(name)} \union Resolved(name)

Free(rels) == \A c \in Callers : locks[c] \intersect rels = {}

-----------------------------------------------------------------------------
At(c, pc) == call[c].pc = pc
Stmt(c) == call[c].stmt
Goes(c, pc) == call' = [call EXCEPT ![c].pc = pc]

\* The transaction ends and the connection goes back to the pool.
Ends(c, status) ==
    /\ call' = [call EXCEPT ![c] = [NoCall EXCEPT !.stmt = Stmt(c)]] /\ locks' = [locks EXCEPT ![c] = {}]
    /\ reply' = [reply EXCEPT ![c] = [NoReply EXCEPT !.status = status]]

\* refuse(): thrown inside begin(), which rolls back.
Refuse(c) == Ends(c, "refused")

\* Page one, or the nextPage of an answer that had one.
Pages(c, s) ==
    {1} \union (IF walk[c].stmt = s /\ walk[c].more THEN {walk[c].page + 1} ELSE {})
Walking(c, s, page) == IF page = 1 THEN [NoWalk EXCEPT !.stmt = s] ELSE walk[c]

\* Mutant: set_config(..., is_local := false).
GuardsOfSession == {"settings"}

\* applySessionGuards(): SET LOCAL, which the connection does not keep.
Guards == {}

Begin(c, s, page) ==
    /\ At(c, "idle") /\ c \in sql.calls /\ s \in sql.stmts /\ s.tool \in {"read", "explain", "write"}
    /\ page \in (IF s.tool = "read" THEN Pages(c, s) ELSE {1})
    /\ call' = [call EXCEPT ![c] = [NoCall EXCEPT !.pc = "text", !.stmt = s, !.page = page]]
    /\ walk' = IF s.tool = "read" THEN [walk EXCEPT ![c] = Walking(c, s, page)] ELSE walk
    /\ session' = [session EXCEPT ![c] = @ \union Guards]
    /\ read' = [read EXCEPT ![c] = {}] /\ changed' = [changed EXCEPT ![c] = 0]
    /\ reply' = [reply EXCEPT ![c] = NoReply]
    /\ UNCHANGED <<sql, db, locks, faults>>

-----------------------------------------------------------------------------
\* withGuardedStatement().

\* Mutant: of the functions in the text, those on the list are refused, and no others.
SafeBuiltins(fn) == fn # "denied"

\* assertFunctionsSafe(): no function of a user, and none on CATALOG_DENYLIST.
Safe(fn) == fn \notin {"own", "denied"}

\* Before the EXPLAIN, "not after".
CheckText(c) ==
    /\ At(c, "text")
    /\ IF Safe(Stmt(c).fn) THEN Goes(c, "explain") /\ UNCHANGED <<locks, reply>> ELSE Refuse(c)
    /\ UNCHANGED <<sql, db, session, read, changed, walk, faults>>

\* readPlan().  A SELECT ... INTO has the plan of its query, a write in a WITH is not
\* the root, and a utility statement has no plan.
Facts(s) ==
    [rels |-> Resolved(s.names), calls |-> Calls(s.names), modifies |-> s.kind \in {"modify", "with"},
     root |-> s.kind = "modify", unfiltered |-> s.kind = "modify" /\ ~s.filtered]

\* planFacts().  Planning runs a function of constant arguments.
Explain(c) ==
    LET s == Stmt(c) IN
    /\ At(c, "explain")
    /\ IF s.names \notin db.rels \ sql.hidden THEN Ends(c, "error") /\ UNCHANGED read
       ELSE IF s.kind = "utility" THEN Refuse(c) /\ UNCHANGED read
       ELSE /\ call' = [call EXCEPT ![c].pc = "check", ![c].facts = Facts(s)]
            /\ locks' = [locks EXCEPT ![c] = Locked(s.names)]
            /\ read' = [read EXCEPT ![c] = @ \union (IF s.fn = "own" THEN {"other"} ELSE {})]
            /\ UNCHANGED reply
    /\ UNCHANGED <<sql, db, session, changed, walk, faults>>

\* assertIsModify(), assertNoWrites().
KindAllowed(s, facts) ==
    IF s.tool = "write" THEN facts.root /\ (facts.unfiltered => s.whole) ELSE ~facts.modifies

\* expandAllowlist(): downward, never upward.
Allowed == sql.scope \union (IF "orders" \in sql.scope THEN Partitions ELSE {})

Check(c) ==
    LET facts == call[c].facts IN
    /\ At(c, "check")
    /\ IF KindAllowed(Stmt(c), facts) /\ ~facts.calls /\ facts.rels \subseteq Allowed
       THEN Goes(c, "body") /\ UNCHANGED <<locks, reply>>
       ELSE Refuse(c)
    /\ UNCHANGED <<sql, db, session, read, changed, walk, faults>>

-----------------------------------------------------------------------------
\* The bodies: a read's cursor, a plan to show, a write.

\* What is resolved and run now.
Executes(c) ==
    LET s == Stmt(c) IN
    /\ read' = [read EXCEPT ![c] = @ \union Resolved(s.names) \union (IF Calls(s.names) THEN {"other"} ELSE {})]
    /\ session' = [session EXCEPT ![c] = @ \union (IF s.fn = "denied" THEN {"lock"} ELSE {})]

\* The cursor.  DECLARE takes no SELECT ... INTO, and neither does EXPLAIN DECLARE.
Declare(c) ==
    /\ At(c, "body") /\ Stmt(c).tool = "read"
    /\ IF Stmt(c).kind = "into"
       THEN Ends(c, "error") /\ UNCHANGED <<session, read>>
       ELSE /\ call' = [call EXCEPT ![c].pc = "fetch", ![c].snap = db.rows] /\ Executes(c)
            /\ UNCHANGED <<locks, reply>>
    /\ UNCHANGED <<sql, db, changed, walk, faults>>

\* explainReadQuery() shows what the cursor would read, and runs nothing.
ShowPlan(c) ==
    /\ At(c, "body") /\ Stmt(c).tool = "explain"
    /\ IF Stmt(c).kind = "into"
       THEN Ends(c, "error") /\ UNCHANGED read
       ELSE /\ Goes(c, "commit") /\ read' = [read EXCEPT ![c] = @ \union Resolved(Stmt(c).names)]
            /\ UNCHANGED <<locks, reply>>
    /\ UNCHANGED <<sql, db, session, changed, walk, faults>>

\* Mutant: MOVE goes to the end of the page.
MovedPast(page, max) == page * max

\* MOVE FORWARD skips the pages before.
Moved(page, max) == (page - 1) * max

\* FETCH FORWARD max + 1 of the rows the cursor sees: what is kept, and hasMore.
Fetched(c) == Min({call[c].snap - Min({call[c].snap, Moved(call[c].page, Stmt(c).max)}), Stmt(c).max + 1})
More(c) == Stmt(c).tool = "read" /\ Fetched(c) > Stmt(c).max
Page(c) == {Moved(call[c].page, Stmt(c).max) + i : i \in 1 .. Min({Fetched(c), Stmt(c).max})}

Fetch(c) ==
    /\ At(c, "fetch") /\ Goes(c, "commit")
    /\ UNCHANGED <<sql, db, locks, session, read, reply, changed, walk, faults>>

\* Mutant: a statement that changes too much is committed and then reported.
RunReported(c) ==
    /\ At(c, "body") /\ Stmt(c).tool = "write" /\ Executes(c)
    /\ IF db.rows > Stmt(c).max
       THEN Ends(c, "capped") /\ changed' = [changed EXCEPT ![c] = db.rows]
       ELSE call' = [call EXCEPT ![c].pc = "commit", ![c].count = db.rows] /\ UNCHANGED <<locks, reply, changed>>
    /\ UNCHANGED <<sql, db, walk, faults>>

\* runWriteStatement(): the cap is on what it has changed, and rolls it back.
Run(c) ==
    /\ At(c, "body") /\ Stmt(c).tool = "write" /\ Executes(c)
    /\ IF db.rows > Stmt(c).max
       THEN Ends(c, "capped")
       ELSE call' = [call EXCEPT ![c].pc = "commit", ![c].count = db.rows] /\ UNCHANGED <<locks, reply>>
    /\ UNCHANGED <<sql, db, changed, walk, faults>>

Commit(c) ==
    /\ At(c, "commit")
    /\ call' = [call EXCEPT ![c] = [NoCall EXCEPT !.stmt = Stmt(c)]] /\ locks' = [locks EXCEPT ![c] = {}]
    /\ reply' = [reply EXCEPT ![c] = [status |-> "ok", count |-> call[c].count]]
    /\ changed' = [changed EXCEPT ![c] = call[c].count]
    /\ walk' = IF Stmt(c).tool = "read"
               THEN [walk EXCEPT ![c].seen = @ \union Page(c), ![c].page = call[c].page, ![c].more = More(c)] ELSE walk
    /\ UNCHANGED <<sql, db, session, read, faults>>

\* timeoutAs504() around the two that read; another error is thrown as it is.
Fails(c, timeout) ==
    /\ call[c].pc \notin {"idle", "described"} /\ faults < sql.faults /\ faults' = faults + 1
    /\ Ends(c, IF timeout /\ Stmt(c).tool # "write" THEN "timeout" ELSE "error")
    /\ UNCHANGED <<sql, db, session, read, changed, walk>>

\* COMMIT was received and its answer was not.
CommitLost(c) ==
    /\ At(c, "commit") /\ faults < sql.faults /\ faults' = faults + 1
    /\ Ends(c, "error") /\ changed' = [changed EXCEPT ![c] = call[c].count]
    /\ UNCHANGED <<sql, db, session, read, walk>>

-----------------------------------------------------------------------------
\* list-tables and describe-table.

\* Mutant: the role's privileges are not asked for.
ListedAny(name) == name \in db.rels \intersect sql.scope /\ ~(name = "part" /\ db.attached)

\* listPgTables(): no partitions, nothing the role cannot read, nothing out of scope.
Listed(name) ==
    /\ name \in (db.rels \intersect sql.scope) \ sql.hidden
    /\ ~(name = "part" /\ db.attached)

\* ORDER BY the name: what is listed, and how many come before.
Found == {i \in DOMAIN Relations : Listed(Relations[i])}
Before(i) == Cardinality({j \in Found : j < i})

\* OFFSET and LIMIT + 1.
List(c, s, page) ==
    LET from == (page - 1) * s.max
        more == Cardinality(Found) > from + s.max
        shown == {Relations[i] : i \in {j \in Found : from <= Before(j) /\ Before(j) < from + s.max}}
    IN
    /\ At(c, "idle") /\ c \in sql.calls /\ s \in sql.stmts /\ s.tool = "list" /\ page \in Pages(c, s)
    /\ walk' = [walk EXCEPT ![c] = [Walking(c, s, page) EXCEPT !.seen = @ \union shown, !.page = page, !.more = more]]
    /\ call' = [call EXCEPT ![c] = [NoCall EXCEPT !.stmt = s]]
    /\ reply' = [reply EXCEPT ![c] = [NoReply EXCEPT !.status = "ok"]]
    /\ UNCHANGED <<sql, db, locks, session, read, changed, faults>>

\* describePgTable(), first query: the relation in scope, or nothing.
Describe(c, s) ==
    /\ At(c, "idle") /\ c \in sql.calls /\ s \in sql.stmts /\ s.tool = "describe"
    /\ LET found == s.names \in (db.rels \intersect sql.scope) \ sql.hidden IN
        /\ call' = [call EXCEPT ![c] = [NoCall EXCEPT !.pc = IF found THEN "described" ELSE "idle", !.stmt = s]]
        /\ reply' = [reply EXCEPT ![c] = [NoReply EXCEPT !.status = IF found THEN "none" ELSE "unknown"]]
    /\ UNCHANGED <<sql, db, locks, session, read, changed, walk, faults>>

\* The four others, of the relation it found: no columns when that has gone.
Described(c) ==
    /\ At(c, "described") /\ Ends(c, IF Stmt(c).names \in db.rels THEN "ok" ELSE "empty")
    /\ UNCHANGED <<sql, db, session, read, changed, walk, faults>>

-----------------------------------------------------------------------------
\* The others: a migration waits for who has locked what it changes.
Becomes(d) ==
    /\ db' = d /\ walk' = [c \in Callers |-> [walk[c] EXCEPT !.quiet = FALSE]]
    /\ UNCHANGED <<sql, call, locks, session, read, reply, changed, faults>>

Repoint(over) == "repoint" \in sql.ddl /\ "view" \in db.rels /\ db.view # over /\ Free({"view"}) /\ Becomes([db EXCEPT !.view = over])
Attach == "attach" \in sql.ddl /\ ~db.attached /\ Free({"part"}) /\ Becomes([db EXCEPT !.attached = TRUE])
Detach == "attach" \in sql.ddl /\ db.attached /\ Free({"part", "orders"}) /\ Becomes([db EXCEPT !.attached = FALSE])
Drop(name) ==
    /\ name \in db.rels \intersect sql.ddl /\ Free({name}) /\ ("view" \in db.rels => name # Base("view"))
    /\ Becomes([db EXCEPT !.rels = @ \ {name}])
Insert == db.rows < sql.most /\ Becomes([db EXCEPT !.rows = @ + 1])

Next ==
    \/ \E c \in Callers :
        \/ \E s \in sql.stmts : Describe(c, s) \/ \E page \in Pages(c, s) : Begin(c, s, page) \/ List(c, s, page)
        \/ CheckText(c) \/ Explain(c) \/ Check(c) \/ Declare(c) \/ ShowPlan(c) \/ Fetch(c) \/ Run(c) \/ Commit(c)
        \/ CommitLost(c) \/ Described(c) \/ \E timeout \in BOOLEAN : Fails(c, timeout)
    \/ \E over \in {"orders", "other", "calls"} : Repoint(over)
    \/ \E name \in {"other", "view"} : Drop(name)
    \/ Attach \/ Detach \/ Insert

Spec == Init /\ [][Next]_vars

-----------------------------------------------------------------------------
\* The shape of the state.
TypeOK ==
    /\ \A c \in Callers :
        /\ call[c].pc \in {"idle", "text", "explain", "check", "body", "fetch", "commit", "described"}
        /\ read[c] \subseteq Every \union {"first"}
        /\ reply[c].status \in {"none", "ok", "refused", "capped", "timeout", "error", "unknown", "empty"}
        /\ locks[c] # {} => call[c].pc \in {"check", "body", "fetch", "commit"}
    /\ db.rows <= sql.most

\* "both run under one SET LOCAL", and the lock of the EXPLAIN is held until the
\* statement has run (pg-run.ts:123-127): whatever is migrated meanwhile, a call reads no
\* table but those in scope and their partitions, through a view or a function neither.
ReadsAreChecked ==
    \A c \in Callers : call[c].pc \in {"check", "body", "fetch", "commit"} => read[c] \subseteq Allowed

\* A call that is refused, capped or stopped "changes nothing at all" (pg-run.ts:356-359),
\* and one that is answered has changed as many rows as it says, and no more than its
\* maxRows; an error says nothing, as one after COMMIT was sent.
ChangesAreTold ==
    \A c \in Callers :
        /\ reply[c].status \in {"ok", "refused", "capped", "timeout"} /\ Stmt(c).tool = "write" => changed[c] = reply[c].count
        /\ Stmt(c).tool = "write" => changed[c] <= Stmt(c).max

\* hasMore is not "a count that could be wrong" (pg-run.ts:228-233), and list-tables pages
\* by a stable order (list-tables.ts:46-49): who follows nextPage to its end while nothing
\* changes has seen every row, or table, and was told of more only when there was more.
WalksAreWhole ==
    \A c \in Callers :
        LET all == IF walk[c].stmt.tool = "list" THEN {Relations[i] : i \in Found} ELSE 1 .. db.rows IN
        walk[c].quiet /\ walk[c].page > 0 => (walk[c].more <=> walk[c].seen # all)

\* "the schema and name returned are exactly the identifiers describe-table ... must use"
\* (list-tables.ts:15-17): what was listed is found while nothing has changed since.
ListedIsFound ==
    \A c \in Callers :
        Stmt(c).tool = "describe" /\ reply[c].status = "unknown" /\ walk[c].stmt.tool = "list" /\ walk[c].quiet
            => Stmt(c).names \notin walk[c].seen

\* What an answer says is so, and says all of it.
AnswersAreTrue == ReadsAreChecked /\ ChangesAreTold /\ WalksAreWhole /\ ListedIsFound

\* "Session-scoped locks outlive the request" (pg-guard.ts:76-81): a connection that goes
\* back to the pool keeps nothing of the call, neither its settings nor a lock.
NothingIsLeft == \A c \in Callers : session[c] = {}
=============================================================================

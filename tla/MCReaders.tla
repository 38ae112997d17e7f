----------------------------- MODULE MCReaders -----------------------------
(***************************************************************************)
(* Readers of databases that others write meanwhile, each in small worlds  *)
(* of its own: the consumers of the cloud service (Outbox) and the         *)
(* statements a token sends to a user's database (Statements).  A part     *)
(* that is not run has an empty world.                                     *)
(***************************************************************************)
EXTENDS Outbox

CONSTANTS SqlCallers, SqlWorlds

VARIABLES sql, db, sqlCall, locks, session, read, reply, changed, walk, sqlFaults

sqlVars == <<sql, db, sqlCall, locks, session, read, reply, changed, walk, sqlFaults>>

-----------------------------------------------------------------------------
\* SqlQueries of every kind beside migrations; pages beside inserts; two callers' writes
\* beside both; the listing of tables.
Sql(calls, stmts, scope, hidden, ddl, number, most, fails) ==
    [calls |-> calls, stmts |-> stmts, scope |-> scope, hidden |-> hidden, ddl |-> ddl,
     rows |-> number, most |-> most, faults |-> fails]
Stmt(tool, names, kind, fn, max) ==
    [tool |-> tool, names |-> names, kind |-> kind, fn |-> fn, filtered |-> TRUE, whole |-> FALSE, max |-> max]
Whole(allowed) == [Stmt("write", "orders", "modify", "none", 2) EXCEPT !.filtered = FALSE, !.whole = allowed]
Select(max) == Stmt("read", "orders", "query", "none", max)
Plan == Stmt("explain", "view", "query", "none", 1)
SqlQueries ==
    {Plan, Stmt("explain", "orders", "into", "none", 1)} \union {Stmt("read", n, k, f, 1) : n \in {"orders", "view", "part"},
                   k \in {"query", "into", "with", "utility"}, f \in {"none", "own", "denied"}}
SqlUpdates ==
    {Plan, Whole(TRUE), Whole(FALSE), Stmt("write", "orders", "modify", "none", 1),
     Stmt("write", "view", "modify", "none", 2), Stmt("write", "orders", "query", "none", 2)}
Listings ==
    {Stmt("list", "", "", "none", max) : max \in {1, 2}}
    \union {Stmt("describe", n, "", "none", 0) : n \in {"orders", "other", "part", "view"}}
NoSql == Sql({}, {}, {}, {}, {}, 0, 0, 0)
MCSqlWorlds ==
    {NoSql, Sql({"c1"}, SqlQueries, {"orders"}, {}, {"repoint", "attach"}, 1, 1, 0),
     Sql({"c1"}, {Select(1), Select(2)}, {"orders"}, {}, {}, 2, 3, 1),
     Sql({"c1", "c2"}, SqlUpdates, {"orders"}, {}, {"attach"}, 1, 2, 1),
     Sql({"c1"}, Listings, {"orders", "other", "part", "view"}, {"view"}, {"attach", "other"}, 0, 0, 0)}

Statements == INSTANCE Statements WITH
    Callers <- SqlCallers, Worlds <- SqlWorlds, call <- sqlCall, faults <- sqlFaults
ASSUME SqlAssumed == Statements!Assumption

-----------------------------------------------------------------------------
MCInit == Init /\ Statements!Init /\ (runs = {} <=> sql # NoSql)

MCNext ==
    \/ runs # {} /\ Next /\ UNCHANGED sqlVars
    \/ sql # NoSql /\ Statements!Next /\ UNCHANGED vars

MCSpec == MCInit /\ [][MCNext]_<<vars, sqlVars>> /\ Fairness

-----------------------------------------------------------------------------
\* The properties of Statements, stated there.
AllTypeOK == TypeOK /\ Statements!TypeOK

\* What a reader makes of rows that change under it is so.
NothingIsMisread == ContactsFollow /\ Statements!AnswersAreTrue /\ Statements!NothingIsLeft
=============================================================================

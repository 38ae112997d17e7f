--------------------------- MODULE MCConnections ---------------------------
(***************************************************************************)
(* One connection's life (Connections), its alerts (Alerts) or what a      *)
(* token's calls read of it (Reading), each in small worlds of its own:    *)
(* the worlds of the others are empty.                                     *)
(***************************************************************************)
EXTENDS Connections

CONSTANTS
    MaxChanges, AlertWorlds,
    Lids, Phones, Callers, Accounts, MaxRows

VARIABLES world, health, alertRow, loaded, eval, last, told, loop, alertSpent,
    account, messages, links, linking, guard, building, asked, used

readingVars == <<account, messages, links, linking, guard, building, asked, used>>
alertVars == <<world, health, alertRow, loaded, eval, last, told, loop, alertSpent>>

\* Two requests of two replicas, or one request and two reapers.
MCCrews ==
    {{}, {<<"p1", "web">>, <<"p2", "web">>}, {<<"p1", "web">>, <<"p1", "reap">>, <<"p2", "reap">>}}

Nobody == [procs |-> {}, healths |-> {"open"}, stale |-> FALSE]
World(procs, healths, stale) == [procs |-> procs, healths |-> healths, stale |-> stale]

\* One process and whatever the connection comes to; one whose sweep holds rows for
\* long; two replicas.
MCWorlds ==
    {Nobody, World({"p1"}, {"open", "loop", "down", "blind", "unlinked"}, FALSE),
     World({"p1"}, {"open", "loop"}, TRUE), World({"p1", "p2"}, {"open", "loop"}, FALSE)}

A == INSTANCE Alerts WITH Worlds <- AlertWorlds, row <- alertRow, spent <- alertSpent
ASSUME AlertsAssumed == A!Assumption

\* A person is "l" and "p", or "m" and "q". A live message of "l" that reveals "p", an
\* imported one that does not, one of "p", one that gives "p" a second LID, and one of a
\* group that mentions "l".
Persons == [j \in {"l", "m", "p", "q", "group"} |->
    IF j \in {"l", "p"} THEN {"l", "p"} ELSE IF j \in {"m", "q"} THEN {"m", "q"} ELSE {j}]
Message(chat, alt, names, live) == [chat |-> chat, alt |-> alt, names |-> names, live |-> live]
Revealing == Message("l", "p", {"l"}, TRUE)
Imported == Message("l", "none", {"l"}, FALSE)
OfPhone == Message("p", "none", {}, TRUE)
Doubtful == Message("m", "p", {"m"}, TRUE)
Mentioning == Message("group", "none", {"l"}, TRUE)

All == DOMAIN Persons
Ask(do, jid) == [do |-> do, jid |-> jid]
Account(scopes, kinds, asks, calls, faults, expiries) ==
    [scope : scopes, messages : {kinds}, asks : {asks}, calls : {calls}, same : {Persons},
     faults : {faults}, expiries : {expiries}]
Unread == CHOOSE u \in Account({{}}, {}, {}, 0, 0, 0) : TRUE
MCAccounts ==
    LET Some == {{"l"}, {"p"}, {"l", "p"}} IN
    UNION {{Unread}, Account(Some, {Revealing, OfPhone, Doubtful}, {Ask("list", "none")}, 1, 0, 1),
           Account(Some, {Revealing, Imported, OfPhone}, {Ask("read", "l"), Ask("read", "p")}, 2, 1, 1),
           Account({All}, {Revealing, Imported, Mentioning}, {Ask("digits", "l")}, 2, 1, 2),
           Account(Some, {Revealing}, {Ask("send", "l"), Ask("send", "p"), Ask("digits", "p")}, 1, 0, 0)}

R == INSTANCE Reading WITH Calls <- Callers, Worlds <- Accounts, rows <- messages, call <- asked
ASSUME ReadingAssumed == R!Assumption

MCInit ==
    /\ Init /\ A!Init /\ R!Init
    /\ world # Nobody => crew = {} /\ account = Unread
    /\ account # Unread => crew = {}
    /\ crew = {} => readable /\ (world = Nobody) = (account # Unread)

MCNext ==
    \/ crew # {} /\ Next /\ UNCHANGED <<alertVars, readingVars>>
    \/ world # Nobody /\ A!Next /\ UNCHANGED <<vars, readingVars>>
    \/ account # Unread /\ R!Next /\ UNCHANGED <<vars, alertVars>>
MCSpec == MCInit /\ [][MCNext]_<<vars, alertVars, readingVars>> /\ Fairness /\ A!Fairness

\* The properties of Alerts and Reading, stated there.
AllTypeOK == TypeOK /\ A!TypeOK /\ R!TypeOK
ScopeIsKept == R!ScopeIsKept
MailedOnce == A!MailedOnce
ToldInTheEnd == A!ToldInTheEnd
=============================================================================

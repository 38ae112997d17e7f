------------------------------- MODULE MCWeb -------------------------------
(***************************************************************************)
(* Parts of the web application that share no state, each in small worlds  *)
(* of its own: the handles a process keeps (Pools), the group names of an  *)
(* account (Groups) and the headers of a mailbox (ImapSync).  The parts    *)
(* that are not run rest in their initial states.                          *)
(***************************************************************************)
EXTENDS Naturals

CONSTANTS
    Parts,
    Callers, PoolWorlds, MaxPools,
    Replicas, MaxVersion, MaxFaults,
    Mailers, MailWorlds, Chunk, Limit

VARIABLES
    part,
    pool, secret, entries, order, handle, poolCall, closes, dropped,
    groups, stored, scans, cache, seed, waits, load, shown, groupFaults,
    world, server, cred, patch, state, folder, rows, run, mailFaults

poolVars == <<pool, secret, entries, order, handle, poolCall, closes, dropped>>
groupVars == <<groups, stored, scans, cache, seed, waits, load, shown, groupFaults>>
mailVars == <<world, server, cred, patch, state, folder, rows, run, mailFaults>>

-----------------------------------------------------------------------------
\* A mailbox whose credentials change and whose server hangs up; a database with one
\* call at a time for a handle, and with two; more connections than there is room for.
Pool(keys, shared, secrets, alone, handles) ==
    [calls |-> {"c1", "c2"}, keys |-> keys, shared |-> shared, secrets |-> secrets,
     drops |-> IF shared THEN 1 ELSE 0, alone |-> alone, ages |-> secrets > 1, handles |-> handles]
MCPoolWorlds ==
    {Pool({"k1"}, TRUE, 2, FALSE, 3), Pool({"k1"}, FALSE, 2, TRUE, 3), Pool({"k1"}, FALSE, 2, FALSE, 3),
     Pool({"k1", "k2", "k3", "k4"}, FALSE, 1, FALSE, 4)}

Pools == INSTANCE Pools WITH Calls <- Callers, Worlds <- PoolWorlds, call <- poolCall
ASSUME PoolsAssumed == Pools!Assumption

Groups == INSTANCE Groups WITH faults <- groupFaults
ASSUME GroupsAssumed == Groups!Assumption

\* A folder that is numbered again; one whose runs fail; two replicas; another mailbox.
World(procs, boxes, uids, calm, renumbers, faults) ==
    [procs |-> procs, boxes |-> boxes, uids |-> uids, calm |-> calm, marks |-> FALSE,
     renumbers |-> renumbers, faults |-> faults]
NoMail == World({}, {"a"}, 0, TRUE, 0, 0)
CalmMail ==
    {NoMail, World({"p1"}, {"a"}, 2, TRUE, 1, 0), World({"p1"}, {"a"}, 3, TRUE, 0, 1),
     World({"p1", "p2"}, {"a"}, 1, TRUE, 0, 1), World({"p1"}, {"a", "b"}, 1, TRUE, 0, 0)}

\* The credentials change during a run.
PatchedMail == {NoMail, World({"p1"}, {"a", "b"}, 1, FALSE, 0, 0)}

Mail == INSTANCE ImapSync WITH Procs <- Mailers, Worlds <- MailWorlds, faults <- mailFaults
ASSUME MailAssumed == Mail!Assumption

-----------------------------------------------------------------------------
\* One initial state of a part that is not run, in which it has nothing to do.
MCInit ==
    /\ part \in Parts /\ Pools!Init /\ Groups!Init /\ Mail!Init
    /\ part # "pools" => pool.shared
    /\ part = "mail" <=> world # NoMail

MCNext ==
    /\ UNCHANGED part
    /\ \/ part = "pools" /\ Pools!Next /\ UNCHANGED <<groupVars, mailVars>>
       \/ part = "groups" /\ Groups!Next /\ UNCHANGED <<poolVars, mailVars>>
       \/ part = "mail" /\ Mail!Next /\ UNCHANGED <<poolVars, groupVars>>

MCSpec ==
    /\ MCInit /\ [][MCNext]_<<part, poolVars, groupVars, mailVars>>
    /\ Mail!Fairness

-----------------------------------------------------------------------------
\* The properties of the parts, stated there; a part that rests has none to break.
TypeOK == Pools!TypeOK /\ Groups!TypeOK /\ Mail!TypeOK

HandlesAreKept == Pools!HandlesAreKept

OneScan == Groups!OneScan
NamesStay == Groups!NamesStay

OneMailbox == Mail!OneMailbox
RowsAreTrue == Mail!RowsAreTrue
MailIsSynced == Mail!MailIsSynced
=============================================================================

------------------------------- MODULE Alerts -------------------------------
(***************************************************************************)
(* apps/web/server/utils/alerts.ts: telling people that a connection broke *)
(* and that it works again, for one connection.                            *)
(*                                                                         *)
(* The five-minute sweep and the webhook each load the row and hand it to  *)
(* evaluateConnectionHealth(), which shares one evaluation at a time per   *)
(* connection and process.  An evaluation decides on the row it was handed *)
(* and sends its mail before it writes what it sent; for the operator's    *)
(* mail it claims first.                                                   *)
(***************************************************************************)
EXTENDS Naturals

CONSTANTS
    Procs,       \* processes of the web application there may be
    Worlds,      \* [procs, healths, stale]: who runs, what the connection comes to,
                 \* whether its row may change between the sweep's query and its turn
    MaxChanges,  \* bound: changes of the connection's state
    MaxFaults,   \* bound: mails that are not sent
    MaxCrashes   \* bound: processes that end

VARIABLES
    world,   \* one of Worlds
    health,  \* the connection as a live read finds it
    row,     \* app.instances: [down, alerted, ops]
    loaded,  \* loaded[p]: the row the sweep selected and has not come to, if any
    eval,    \* eval[p]: the evaluation in flight: [pc, row, health, loop]
    last,    \* the last mail to the people who use the connection
    told,    \* loops the operator was mailed of; a loop is known by its number
    loop,    \* the loops that ended by now
    spent    \* what is used up of the bounds

vars == <<world, health, row, loaded, eval, last, told, loop, spent>>

\* "blind": no owner can be read, as of a WhatsApp account nobody can ask;
\* "unlinked": a Telegram account that was logged out; "loop": flapping.
Healths == {"open", "down", "loop", "blind", "unlinked"}
Unhealthy == {"down", "loop"}

\* down_since is absent, set within GRACE_MS, or older.
Rows == [down : {"no", "new", "old"}, alerted : BOOLEAN, ops : BOOLEAN]
NoRow == [down |-> "no", alerted |-> FALSE, ops |-> FALSE]
Idle == [pc |-> "idle", row |-> NoRow, health |-> "open", loop |-> 0]

Assumption ==
    /\ MaxChanges \in Nat /\ MaxFaults \in Nat /\ MaxCrashes \in Nat
    /\ \A w \in Worlds : w.procs \subseteq Procs /\ w.healths \subseteq Healths /\ "open" \in w.healths /\ w.stale \in BOOLEAN

Init ==
    /\ world \in Worlds
    /\ health = "open" /\ row = NoRow
    /\ loaded = [p \in Procs |-> {}] /\ eval = [p \in Procs |-> Idle]
    /\ last = "none" /\ told = {} /\ loop = 0
    /\ spent = [changes |-> 0, faults |-> 0, crashes |-> 0]

-----------------------------------------------------------------------------
At(p, pc) == eval[p].pc = pc
Goto(p, pc) == eval' = [eval EXCEPT ![p].pc = pc]
Finish(p) == eval' = [eval EXCEPT ![p] = Idle]

Fails == spent.faults < MaxFaults /\ spent' = [spent EXCEPT !.faults = @ + 1]

-----------------------------------------------------------------------------
\* The sweep selects its rows and comes to this one later.
Load(p) ==
    /\ world.stale /\ p \in world.procs /\ loaded[p] = {}
    /\ loaded' = [loaded EXCEPT ![p] = {row}]
    /\ UNCHANGED <<world, health, row, eval, last, told, loop, spent>>

\* The webhook's row is one it just read.
Handed(p, r) ==
    /\ p \in world.procs /\ r \in {row} \cup loaded[p]
    /\ loaded' = [loaded EXCEPT ![p] = @ \ {r}]
    /\ UNCHANGED <<world, health, row, last, told, loop, spent>>

Start(p, r) == eval' = [eval EXCEPT ![p] = [Idle EXCEPT !.pc = "read", !.row = r]]

\* Mutant: the evaluation in flight is not looked for.
EvaluateBeside(p, r) == Handed(p, r) /\ Start(p, r)

\* evaluateConnectionHealth(): join the evaluation in flight, or start one.
Evaluate(p, r) == Handed(p, r) /\ IF At(p, "idle") THEN Start(p, r) ELSE UNCHANGED eval

\* readConnectionHealth()
ReadHealth(p) ==
    /\ At(p, "read")
    /\ eval' = [eval EXCEPT ![p].health = health, ![p].pc = "operator"]
    /\ UNCHANGED <<world, health, row, loaded, last, told, loop, spent>>

-----------------------------------------------------------------------------
\* reportLoopToOperator(): claimed by a conditional UPDATE, then mailed, and put
\* back when the mail was not sent.

OperatorBy(p, claim, release) ==
    /\ At(p, "operator")
    /\ row' = [row EXCEPT !.ops = (@ \/ claim) /\ ~release]
    /\ loop' = IF release THEN loop + 1 ELSE loop
    /\ eval' = [eval EXCEPT ![p].loop = loop',
                  ![p].pc = CASE claim -> "loop_mail" [] release -> "ended_mail" [] OTHER -> "decide"]
    /\ UNCHANGED <<world, health, loaded, last, told, spent>>

Looping(p) == eval[p].health = "loop"

\* Mutant: the row that was loaded decides, and the UPDATE has no condition.
OperatorUnconditional(p) ==
    OperatorBy(p, Looping(p) /\ ~eval[p].row.ops, ~Looping(p) /\ eval[p].row.ops)

Operator(p) ==
    OperatorBy(p, Looping(p) /\ ~eval[p].row.ops /\ ~row.ops,
                  ~Looping(p) /\ eval[p].row.ops /\ row.ops)

\* Mutant: a claim whose mail was not sent is kept.
LoopMailKeepsClaim(p) ==
    /\ At(p, "loop_mail")
    /\ \/ told' = told \cup {eval[p].loop} /\ UNCHANGED spent
       \/ Fails /\ UNCHANGED told
    /\ Goto(p, "decide")
    /\ UNCHANGED <<world, health, row, loaded, last, loop>>

LoopMail(p) ==
    /\ At(p, "loop_mail")
    /\ \/ told' = told \cup {eval[p].loop} /\ UNCHANGED <<row, spent>>
       \/ Fails /\ row' = [row EXCEPT !.ops = FALSE] /\ UNCHANGED told
    /\ Goto(p, "decide")
    /\ UNCHANGED <<world, health, loaded, last, loop>>

\* A loop whose end could not be mailed counts as the one the operator knows of.
EndedMail(p) ==
    /\ At(p, "ended_mail")
    /\ \/ UNCHANGED <<row, told, spent>>
       \/ Fails /\ row' = [row EXCEPT !.ops = TRUE] /\ told' = told \cup {loop}
    /\ Goto(p, "decide")
    /\ UNCHANGED <<world, health, loaded, last, loop>>

-----------------------------------------------------------------------------
\* evaluate(), on the row it was handed.

Clear == row' = [row EXCEPT !.down = "no", !.alerted = FALSE]

\* Nothing to say, or nobody linked: an outage that was open is closed quietly.
Quiet(p) ==
    /\ At(p, "decide")
    /\ LET r == eval[p].row
           open == r.down # "no" \/ r.alerted
       IN  \/ eval[p].health = "blind" /\ UNCHANGED <<row, last>>
           \/ /\ eval[p].health = "unlinked"
              /\ IF open THEN Clear /\ last' = "none" ELSE UNCHANGED <<row, last>>
           \/ /\ eval[p].health = "open" /\ ~r.alerted
              /\ IF open THEN Clear ELSE UNCHANGED row
              /\ UNCHANGED last
    /\ Finish(p)
    /\ UNCHANGED <<world, health, loaded, told, loop, spent>>

Recovered(p) ==
    /\ At(p, "decide") /\ eval[p].health = "open" /\ eval[p].row.alerted
    /\ Goto(p, "recovery")
    /\ UNCHANGED <<world, health, row, loaded, last, told, loop, spent>>

\* Mutant: the row is written before the mail is known to have gone out.
BrokenMarksFirst(p) ==
    /\ At(p, "decide") /\ eval[p].health \in Unhealthy
    /\ LET due == ~eval[p].row.alerted /\ eval[p].row.down = "old"
       IN  /\ row' = [row EXCEPT !.down = IF eval[p].row.down = "no" THEN "new" ELSE @,
                                 !.alerted = @ \/ due]
           /\ IF due THEN Goto(p, "outage") ELSE Finish(p)
    /\ UNCHANGED <<world, health, loaded, last, told, loop, spent>>

\* down_since is set first; the outage is reported when it outlasts the grace.
Broken(p) ==
    /\ At(p, "decide") /\ eval[p].health \in Unhealthy
    /\ row' = IF eval[p].row.down = "no" THEN [row EXCEPT !.down = "new"] ELSE row
    /\ IF ~eval[p].row.alerted /\ eval[p].row.down = "old" THEN Goto(p, "outage") ELSE Finish(p)
    /\ UNCHANGED <<world, health, loaded, last, told, loop, spent>>

\* notifyWatchers(): the mail reaches somebody, or nobody and the state stays.
Notify(p) ==
    /\ At(p, "outage") \/ At(p, "recovery")
    /\ \/ /\ last' = eval[p].pc
          /\ Goto(p, IF At(p, "outage") THEN "alerted" ELSE "clear")
          /\ UNCHANGED spent
       \/ Fails /\ Finish(p) /\ UNCHANGED last
    /\ UNCHANGED <<world, health, row, loaded, told, loop>>

Write(p) ==
    /\ At(p, "alerted") \/ At(p, "clear")
    /\ IF At(p, "alerted") THEN row' = [row EXCEPT !.alerted = TRUE] ELSE Clear
    /\ Finish(p)
    /\ UNCHANGED <<world, health, loaded, last, told, loop, spent>>

-----------------------------------------------------------------------------
\* The connection, time, and a process that ends.

Change(h) ==
    /\ h \in world.healths \ {health} /\ spent.changes < MaxChanges
    /\ health' = h
    /\ spent' = [spent EXCEPT !.changes = @ + 1]
    /\ UNCHANGED <<world, row, loaded, eval, last, told, loop>>

GraceEnds ==
    /\ row.down = "new"
    /\ row' = [row EXCEPT !.down = "old"]
    /\ UNCHANGED <<world, health, loaded, eval, last, told, loop, spent>>

\* Between a mail and the write after it the mail is sent again; between a claim
\* and its mail the mail is lost.
Crash(p) ==
    /\ ~At(p, "idle") /\ spent.crashes < MaxCrashes
    /\ spent' = [spent EXCEPT !.crashes = @ + 1]
    /\ eval' = [eval EXCEPT ![p] = Idle]
    /\ loaded' = [loaded EXCEPT ![p] = {}]
    /\ last' = CASE At(p, "alerted") /\ ~row.alerted -> "none"
                 [] At(p, "clear") /\ row.alerted -> "outage"
                 [] OTHER -> last
    /\ UNCHANGED <<world, health, row, told, loop>>

-----------------------------------------------------------------------------
Step(p) ==
    \/ ReadHealth(p) \/ Operator(p) \/ LoopMail(p) \/ EndedMail(p)
    \/ Quiet(p) \/ Recovered(p) \/ Broken(p) \/ Notify(p) \/ Write(p)

Next ==
    \/ \E p \in Procs : Step(p) \/ Crash(p) \/ Load(p) \/ \E r \in Rows : Evaluate(p, r)
    \/ GraceEnds \/ \E h \in Healths : Change(h)

Spec == Init /\ [][Next]_vars

\* The sweep comes every five minutes, an evaluation settles (its requests have
\* deadlines) and the grace runs out.
Fairness ==
    /\ WF_vars(GraceEnds)
    /\ \A p \in Procs : WF_vars(Step(p)) /\ WF_vars(\E r \in Rows : Evaluate(p, r))

FairSpec == Spec /\ Fairness

-----------------------------------------------------------------------------
\* The shape of the state.
TypeOK ==
    /\ health \in world.healths /\ row \in Rows /\ loop \in Nat /\ told \subseteq 0..loop
    /\ \A p \in Procs : eval[p].row \in Rows /\ eval[p].health \in Healths /\ loaded[p] \subseteq Rows
    /\ last \in {"none", "outage", "recovery"}

OneProcess == \E p \in Procs : world.procs = {p}

\* "Set means the current outage has already been reported" (alerts.ts:191-193),
\* "two evaluations that both read `alerted_at` empty would both mail" (:199-202):
\* with one process an outage is mailed once, however the sweep and the webhook
\* come together, and a recovery only after an outage that was mailed.
MailedInTurn ==
    OneProcess => \A p \in Procs :
        /\ At(p, "outage") => last # "outage"
        /\ At(p, "recovery") => last = "outage"

\* The same, as far as the code has it: the sweep comes to a row as it was read.
FreshMailedInTurn == ~world.stale => MailedInTurn

\* "Two replicas or the sweep and a webhook landing together cannot both mail"
\* (alerts.ts:425-427): of one loop the operator is told once, as long as no mail
\* fails, whatever the replicas read before their claims.
OperatorOnce ==
    spent.faults = 0 =>
        \A p \in Procs : At(p, "loop_mail") =>
            /\ eval[p].loop \notin told
            /\ \A q \in Procs \ {p} : ~(At(q, "loop_mail") /\ eval[q].loop = eval[p].loop)

\* "A late alert rather than a lost one" (alerts.ts:196-197): a connection that
\* stays broken is reported in the end, whatever failed before.
OutageIsTold == <>[](OneProcess /\ health \in Unhealthy) => <>[](last = "outage")

\* "Broken SMTP delays the mail rather than losing it" (alerts.ts:428): of a loop
\* that lasts, the operator is told, but for a crash between claim and mail.
LoopIsTold == <>[](health = "loop") => <>[](loop \in told \/ spent.crashes > 0)

\* Of what happened once, nobody is told twice,
MailedOnce == FreshMailedInTurn /\ OperatorOnce

\* and of what lasts everybody is told.
ToldInTheEnd == OutageIsTold /\ LoopIsTold
=============================================================================

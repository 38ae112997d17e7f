------------------------------ MODULE Accounts ------------------------------
(***************************************************************************)
(* apps/web/server/utils/email-verification.ts and signup-policy.ts: how   *)
(* an address is proved, at a signup and when an account changes its own.  *)
(*                                                                         *)
(* Requests interleave at every statement.  A transaction is two steps:    *)
(* what it reads and locks, and what it commits.  Mail is read by whoever  *)
(* owns the address, who may open a link in any browser; the cookie a      *)
(* request carries is the one its browser had when it was sent.            *)
(***************************************************************************)
EXTENDS Naturals, FiniteSets, Sequences

CONSTANTS
    Requests, Browsers, Addresses,
    Worlds,   \* [kinds, first, home, alone, rows, resends, faults]: kinds of requests; whether
              \* only a first account may sign up; the address of an account that is there, or
              \* None; whether a browser waits for an answer before it asks again; bounds:
              \* verifications, more codes for one, requests that fail or end with their process
    Limit,    \* MAX_CODE_ATTEMPTS
    Cap       \* LOGIN_FAILURE_LIMIT

None == "none"

Assumption == IsFiniteSet(Browsers) /\ Limit \in Nat /\ Cap \in Nat /\ None \notin Addresses

VARIABLES
    setting,  \* one of Worlds
    address,  \* app.users: the address of an account; the account a row makes has its id
    rows,     \* app.email_verifications
    cookie,   \* of a browser: the row automata_verify names, or 0
    mailed,   \* [row, code] that were sent
    sessions, \* [browser, user] a verification began
    failures, \* of an address, in this process and window: wrong codes that were recorded
    guessed,  \* and those that were compared
    events,   \* user.email_changed: [row, user, from, to]
    verify,   \* the requests
    lost      \* faults so far

vars == <<setting, address, rows, cookie, mailed, sessions, failures, guessed, events, verify, lost>>

Rows == 1 .. Cardinality(Browsers)
Owners == {0} \union Rows
NoRow == [state |-> "none", to |-> None, by |-> None, user |-> 0, code |-> 1, wrong |-> 0]
\* cookie: what the request carried; code: what it presents; drop: rows it replaces.
Idle == [pc |-> "idle", browser |-> None, cookie |-> 0, row |-> 0, code |-> 0, link |-> FALSE,
         owns |-> FALSE, from |-> None, to |-> None, drop |-> {}]

Init ==
    /\ setting \in Worlds
    /\ address = [u \in Owners |-> IF u = 0 THEN setting.home ELSE None]
    /\ rows = [i \in Rows |-> NoRow] /\ cookie = [b \in Browsers |-> 0]
    /\ mailed = {} /\ sessions = {} /\ events = <<>>
    /\ failures = [a \in Addresses |-> 0] /\ guessed = [a \in Addresses |-> 0]
    /\ verify = [r \in Requests |-> Idle] /\ lost = 0

-----------------------------------------------------------------------------
At(r, pc) == verify[r].pc = pc
Set(r, q) == verify' = [verify EXCEPT ![r] = q]
Goto(r, pc) == Set(r, [verify[r] EXCEPT !.pc = pc])
Made == Cardinality({i \in Rows : rows[i].state # "none"})
Accounts == {u \in Owners : address[u] # None}
Taken(a) == \E u \in Owners : address[u] = a
Signup(i) == rows[i].user = i
Usable(i) == i # 0 /\ rows[i].state = "pending" /\ rows[i].wrong < Limit
Without(i) == rows' = [rows EXCEPT ![i].state = "gone"]

\* A row a transaction has deleted waits for its end.
Deleting(r) == verify[r].drop \union (IF verify[r].pc \in {"act", "create", "rename"} THEN {verify[r].row} ELSE {})
Unlocked(r, S) == \A q \in Requests \ {r} : Deleting(q) \intersect S = {}

Asks(r, kind, b) ==
    /\ At(r, "idle") /\ kind \in setting.kinds
    /\ setting.alone => \A q \in Requests : verify[q].browser # b
    /\ UNCHANGED <<setting, lost>>

-----------------------------------------------------------------------------
Inserting == Cardinality({q \in Requests : verify[q].pc \in {"insert", "insert_change"}})

Changes == {i \in Rows : rows[i].state = "pending" /\ ~Signup(i)}

\* startVerification() up to its DELETE; an account may have one change pending, and
\* not to an address that has an account by now.
Start(r, b, a, change) ==
    LET replaced == IF change THEN Changes ELSE {} IN
    /\ Asks(r, IF change THEN "change" ELSE "signup", b) /\ Made + Inserting < setting.rows
    /\ change => address[0] # None /\ ~Taken(a)
    /\ Unlocked(r, replaced)
    /\ Set(r, [Idle EXCEPT !.pc = IF change THEN "insert_change" ELSE "insert", !.browser = b,
                           !.cookie = cookie[b], !.to = a, !.drop = replaced])
    /\ UNCHANGED <<address, rows, cookie, mailed, sessions, failures, guessed, events>>

Insert(r) ==
    LET q == verify[r]
        i == Made + 1
        user == IF q.pc = "insert" THEN i ELSE 0
    IN /\ q.pc \in {"insert", "insert_change"} /\ i \in Rows
       /\ rows' = [j \in Rows |->
             IF j = i THEN [NoRow EXCEPT !.state = "pending", !.to = q.to, !.by = q.browser, !.user = user]
             ELSE IF j \in q.drop THEN [rows[j] EXCEPT !.state = "gone"] ELSE rows[j]]
       /\ Set(r, [q EXCEPT !.pc = "mail", !.row = i, !.code = 1, !.drop = {}])
       /\ UNCHANGED <<setting, address, cookie, mailed, sessions, failures, guessed, events, lost>>

\* mailVerification(): a signup for an address that has an account is told so.
Sent(r) ==
    LET q == verify[r] IN
    mailed' = IF Signup(q.row) /\ Taken(rows[q.row].to) THEN mailed
              ELSE mailed \union {[row |-> q.row, code |-> q.code]}

Mail(r) ==
    /\ At(r, "mail") /\ Sent(r)
    /\ cookie' = [cookie EXCEPT ![verify[r].browser] = verify[r].row]
    /\ Set(r, Idle)
    /\ UNCHANGED <<setting, address, rows, sessions, failures, guessed, events, lost>>

MailFails(r) ==
    /\ At(r, "mail") /\ lost < setting.faults /\ lost' = lost + 1
    /\ Without(verify[r].row) /\ Unlocked(r, {verify[r].row}) /\ Set(r, Idle)
    /\ UNCHANGED <<setting, address, cookie, mailed, sessions, failures, guessed, events>>

\* cancelEmailChange(), and the answer that clears the cookie.
Cancel(r, b) ==
    /\ Asks(r, "cancel", b) /\ Changes # {} /\ Unlocked(r, Changes)
    /\ rows' = [i \in Rows |-> IF i \in Changes THEN [rows[i] EXCEPT !.state = "gone"] ELSE rows[i]]
    /\ Set(r, [Idle EXCEPT !.pc = "clear", !.browser = b])
    /\ UNCHANGED <<address, cookie, mailed, sessions, failures, guessed, events>>

Clear(r) ==
    /\ At(r, "clear") /\ cookie' = [cookie EXCEPT ![verify[r].browser] = 0] /\ Set(r, Idle)
    /\ UNCHANGED <<setting, address, rows, mailed, sessions, failures, guessed, events, lost>>

\* resendVerification().
Resend(r, b) ==
    /\ Asks(r, "resend", b) /\ Usable(cookie[b]) /\ rows[cookie[b]].code <= setting.resends
    /\ Set(r, [Idle EXCEPT !.pc = "renew", !.browser = b, !.cookie = cookie[b], !.row = cookie[b]])
    /\ UNCHANGED <<address, rows, cookie, mailed, sessions, failures, guessed, events>>

Renew(r) ==
    LET i == verify[r].row IN
    /\ At(r, "renew") /\ Unlocked(r, {i})
    /\ IF rows[i].state = "pending"
       THEN /\ rows' = [rows EXCEPT ![i].code = @ + 1]
            /\ Set(r, [verify[r] EXCEPT !.pc = "mail_again", !.code = rows[i].code + 1])
       ELSE UNCHANGED rows /\ Set(r, Idle)
    /\ UNCHANGED <<setting, address, cookie, mailed, sessions, failures, guessed, events, lost>>

MailAgain(r) ==
    /\ At(r, "mail_again") /\ Sent(r) /\ Set(r, Idle)
    /\ UNCHANGED <<setting, address, rows, cookie, sessions, failures, guessed, events, lost>>

-----------------------------------------------------------------------------
\* verifyByCode(): a code from a mail, or any other; the row is read before it is compared.
Code(r, b, typed) ==
    /\ Asks(r, IF typed = 0 THEN "guess" ELSE "code", b)
    /\ typed = 0 \/ [row |-> cookie[b], code |-> typed] \in mailed
    /\ IF Usable(cookie[b])
       THEN /\ Set(r, [Idle EXCEPT !.pc = "compare", !.browser = b, !.cookie = cookie[b], !.row = cookie[b],
                              !.code = IF typed = rows[cookie[b]].code THEN typed ELSE 0])
            /\ UNCHANGED cookie
       ELSE cookie[b] # 0 /\ cookie' = [cookie EXCEPT ![b] = 0] /\ UNCHANGED verify
    /\ UNCHANGED <<address, rows, mailed, sessions, failures, guessed, events>>

\* Mutant: what was wrong is recorded with the row's own count.
CompareUnrecorded(r) ==
    LET q == verify[r] IN
    /\ At(r, "compare")
    /\ LET to == rows[q.row].to IN
       /\ IF failures[to] >= Cap THEN Set(r, Idle) /\ UNCHANGED guessed
          ELSE IF q.code # 0 THEN Goto(r, "spend") /\ UNCHANGED guessed
          ELSE Goto(r, "count") /\ guessed' = [guessed EXCEPT ![to] = @ + 1]
    /\ UNCHANGED <<setting, address, rows, cookie, mailed, sessions, failures, events, lost>>

\* assertVerifyCodeAllowed(), the comparison and recordVerifyCodeFailure(): one turn.
Compare(r) ==
    LET q == verify[r] IN
    /\ At(r, "compare")
    /\ LET to == rows[q.row].to IN
       IF failures[to] >= Cap THEN Set(r, Idle) /\ UNCHANGED <<failures, guessed>>
       ELSE IF q.code # 0 THEN Goto(r, "spend") /\ UNCHANGED <<failures, guessed>>
       ELSE /\ Goto(r, "count")
            /\ failures' = [failures EXCEPT ![to] = @ + 1] /\ guessed' = [guessed EXCEPT ![to] = @ + 1]
    /\ UNCHANGED <<setting, address, rows, cookie, mailed, sessions, events, lost>>

Count(r) ==
    LET i == verify[r].row IN
    /\ At(r, "count") /\ Unlocked(r, {i})
    /\ rows' = IF Usable(i) THEN [rows EXCEPT ![i].wrong = @ + 1] ELSE rows
    /\ IF Usable(i) /\ rows[i].wrong + 1 < Limit THEN Set(r, Idle) ELSE Goto(r, "burn")
    /\ UNCHANGED <<setting, address, cookie, mailed, sessions, failures, guessed, events, lost>>

\* The row cannot be used any more: it goes, and the browser's cookie.
Burn(r) ==
    LET q == verify[r] IN
    /\ At(r, "burn") /\ Unlocked(r, {q.row})
    /\ Without(q.row) /\ cookie' = IF q.owns \/ ~q.link THEN [cookie EXCEPT ![q.browser] = 0] ELSE cookie
    /\ Set(r, Idle)
    /\ UNCHANGED <<setting, address, mailed, sessions, failures, guessed, events, lost>>

\* verifyByLink(), in any browser.
Link(r, b, m) ==
    /\ Asks(r, "link", b) /\ m \in mailed
    /\ Set(r, [Idle EXCEPT !.pc = "spend", !.browser = b, !.cookie = cookie[b], !.row = m.row, !.code = m.code,
                           !.link = TRUE])
    /\ UNCHANGED <<address, rows, cookie, mailed, sessions, failures, guessed, events>>

-----------------------------------------------------------------------------
\* Mutant: whoever proves the address is signed in.
OwnsAll(q) == TRUE

\* isWaitingBrowser(); a code was found through the cookie.
Owns(q) == q.link => q.cookie = q.row

\* Mutant: the row is read, and goes when the transaction ends.
SpendsReading(r) == Usable(verify[r].row)

Spends(r) ==
    LET q == verify[r] IN
    Usable(q.row) /\ Unlocked(r, {q.row}) /\ (q.link => rows[q.row].code = q.code)

\* complete(): spend() deletes the row in the transaction that acts on it.
Spend(r) ==
    LET q == verify[r] IN
    /\ At(r, "spend")
    /\ IF Spends(r)
       THEN Set(r, [q EXCEPT !.pc = "act", !.owns = Owns(q)])
       ELSE Unlocked(r, {q.row}) /\ Set(r, Idle)
    /\ UNCHANGED <<setting, address, rows, cookie, mailed, sessions, failures, guessed, events, lost>>

\* Mutant: the first account is looked for without the lock.
FirstFreeUnlocked(r) == TRUE

\* pg_advisory_xact_lock(), held until the transaction ends.
FirstFree(r) == \A q \in Requests \ {r} : ~At(q, "create")

\* createVerifiedAccount(): claimFirstAccount() where it is asked for,
Claim(r) ==
    /\ At(r, "act") /\ Signup(verify[r].row)
    /\ setting.first => FirstFree(r)
    /\ Goto(r, IF setting.first /\ Accounts # {} THEN "burn" ELSE "create")
    /\ UNCHANGED <<setting, address, rows, cookie, mailed, sessions, failures, guessed, events, lost>>

\* then the account, unless its address is taken.
Create(r) ==
    LET i == verify[r].row IN
    /\ At(r, "create")
    /\ IF Taken(rows[i].to) THEN Goto(r, "burn") /\ UNCHANGED <<address, rows>>
       ELSE /\ address' = [address EXCEPT ![i] = rows[i].to] /\ Without(i)
            /\ IF verify[r].owns THEN Goto(r, "session") ELSE Set(r, Idle)
    /\ UNCHANGED <<setting, cookie, mailed, sessions, failures, guessed, events, lost>>

\* Mutant: the account is not locked.
HeldUnlocked(r) == TRUE

\* SELECT ... FOR UPDATE.
Held(r) == \A q \in Requests \ {r} : ~At(q, "rename")

\* changeVerifiedEmail().
Change(r) ==
    /\ At(r, "act") /\ ~Signup(verify[r].row) /\ Held(r)
    /\ Set(r, [verify[r] EXCEPT !.pc = "rename", !.from = address[0]])
    /\ UNCHANGED <<setting, address, rows, cookie, mailed, sessions, failures, guessed, events, lost>>

Rename(r) ==
    LET q == verify[r]
        to == rows[q.row].to
    IN /\ At(r, "rename")
       /\ IF \E u \in Rows : address[u] = to
          THEN Goto(r, "burn") /\ UNCHANGED <<address, rows, events, cookie>>
          ELSE /\ address' = [address EXCEPT ![0] = to] /\ Without(q.row)
               /\ events' = Append(events, [row |-> q.row, from |-> q.from, to |-> to])
               /\ cookie' = IF q.owns THEN [cookie EXCEPT ![q.browser] = 0] ELSE cookie
               /\ Set(r, Idle)
       /\ UNCHANGED <<setting, mailed, sessions, failures, guessed, lost>>

Session(r) ==
    LET q == verify[r] IN
    /\ At(r, "session")
    /\ sessions' = sessions \union {[browser |-> q.browser, user |-> q.row]}
    /\ cookie' = [cookie EXCEPT ![q.browser] = 0] /\ Set(r, Idle)
    /\ UNCHANGED <<setting, address, rows, mailed, failures, guessed, events, lost>>

-----------------------------------------------------------------------------
\* A request fails or its process ends: what it had not committed is undone.
Fails(r) ==
    /\ ~At(r, "idle") /\ lost < setting.faults /\ lost' = lost + 1 /\ Set(r, Idle)
    /\ UNCHANGED <<setting, address, rows, cookie, mailed, sessions, failures, guessed, events>>

Expire(i) ==
    /\ rows[i].state = "pending" /\ (\A r \in Requests : i \notin Deleting(r)) /\ Without(i)
    /\ UNCHANGED <<setting, address, cookie, mailed, sessions, failures, guessed, events, verify, lost>>

\* The oldest failure is LOGIN_WINDOW_MS old.
WindowEnds(a) ==
    /\ failures[a] > 0
    /\ failures' = [failures EXCEPT ![a] = @ - 1] /\ guessed' = [guessed EXCEPT ![a] = @ - 1]
    /\ UNCHANGED <<setting, address, rows, cookie, mailed, sessions, events, verify, lost>>

Begins(r) ==
    \E b \in Browsers :
        \/ \E a \in Addresses : Start(r, b, a, TRUE) \/ Start(r, b, a, FALSE)
        \/ Cancel(r, b) \/ Resend(r, b) \/ \E typed \in 0 .. 2 : Code(r, b, typed)
        \/ \E m \in mailed : Link(r, b, m)

Next ==
    \/ \E r \in Requests :
        \/ Begins(r) \/ Insert(r) \/ Mail(r) \/ MailFails(r) \/ Clear(r) \/ Renew(r) \/ MailAgain(r)
        \/ Compare(r) \/ Count(r) \/ Burn(r) \/ Spend(r)
        \/ Claim(r) \/ Create(r) \/ Change(r) \/ Rename(r) \/ Session(r) \/ Fails(r)
    \/ \E i \in Rows : Expire(i)
    \/ \E a \in Addresses : WindowEnds(a)

Spec == Init /\ [][Next]_vars

-----------------------------------------------------------------------------
\* The shape of the state.
TypeOK ==
    /\ \A i \in Rows : rows[i].wrong <= Limit /\ (rows[i].state = "none" <=> i > Made)
    /\ \A b \in Browsers : cookie[b] \in 0 .. Made
    /\ \A r \in Requests : verify[r].row \in 0 .. Made /\ verify[r].drop \subseteq Rows

\* "Two racing first signups cannot both win" (signup-policy.ts:23-25), however their
\* verifications, each in a transaction of its own, come together.
OneFirst == setting.first => Cardinality(Accounts) <= 1

\* "The link proves the address; it signs in only the browser that started the signup"
\* (email-verification.ts:33-38), whatever else that browser has started since.
SignedInWhereStarted == \A s \in sessions : rows[s.user].by = s.browser

\* Each user.email_changed event goes on from the address the one before it came to, up
\* to the account's, and one row makes one event: contacts follow them elsewhere.
ChangesFollow ==
    /\ \A k \in 1 .. Len(events) : events[k].from = IF k = 1 THEN setting.home ELSE events[k - 1].to
    /\ events # <<>> => events[Len(events)].to = address[0]
    /\ \A j, k \in 1 .. Len(events) : j # k => events[j].row # events[k].row

\* "Wrong codes are also capped per address across every row" (email-verification.ts:27-29):
\* of requests in flight at once, on one row or on several, as of requests that wait.
GuessesAreCapped == \A a \in Addresses : guessed[a] <= Cap

\* All of them: what proves an address proves it once, for one account.
ProvedOnce == OneFirst /\ SignedInWhereStarted /\ ChangesFollow /\ GuessesAreCapped

\* "A link confirmed elsewhere must not wipe a different pending signup in this browser"
\* (email-verification.ts:526-527): a cookie that names what can still be verified stays,
\* unless that browser calls its change off, as long as it has one request at a time.
WaitingStays ==
    [][setting.alone => \A b \in Browsers :
         cookie[b] # 0 /\ cookie'[b] = 0 =>
            \/ ~(rows'[cookie[b]].state = "pending" /\ rows'[cookie[b]].wrong < Limit)
            \/ \E r \in Requests : At(r, "clear") /\ verify[r].browser = b]_vars
=============================================================================

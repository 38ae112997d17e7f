------------------------------- MODULE SignIn -------------------------------
(***************************************************************************)
(* apps/web/server/utils/mfa.ts, webauthn.ts and session.ts with the       *)
(* routes under api/auth: one user's second factors, the sign-ins that     *)
(* still owe one, and the sessions.                                        *)
(*                                                                         *)
(* Requests interleave at every statement.  A transaction that locks the   *)
(* user is two steps: what it reads when it has the lock, and what it      *)
(* writes when it commits.  Passwords are right here, and who is throttled *)
(* has made no request.                                                    *)
(***************************************************************************)
EXTENDS Naturals

CONSTANTS
    Requests,       \* of this user at one time
    Steps,          \* time steps of the authenticator app
    CodeIds,        \* the RECOVERY_CODE_COUNT codes that are minted together
    Steady,         \* whether a secret stays while a code that matched it is being spent
    MaxPrompts,     \* bound: prompts for a passkey
    Visits          \* what the user does: a set of [kinds, limit, challenges, secrets, mints]

\* kinds: of requests; limit: MAX_CHALLENGE_ATTEMPTS; bounds: the sign-ins that get as
\* far as the second factor, authenticator secrets, and the times recovery codes are minted.
Enrolments == {"confirm", "add_key"}
Locking == Enrolments \union {"remove_totp", "remove_key", "mint", "start"}
Kinds == Locking \union {"password", "setup", "verify"}

Assumption ==
    /\ Steps \subseteq Nat /\ Steady \in BOOLEAN /\ MaxPrompts \in Nat
    /\ Visits \subseteq [kinds : SUBSET Kinds, limit : Nat, challenges : Nat, secrets : Nat, mints : Nat]

VARIABLES
    visit,       \* one of Visits
    totp,        \* app.totp_credentials: [secret, confirmed, last]; no row is secret 0
    passkey,     \* whether there is one in app.webauthn_credentials
    registering, \* the challenge of a registration is in app.mfa_challenges
    codes,       \* app.recovery_codes: [mint, unused]; none is mint 0
    challenge,   \* app.mfa_challenges: [id -> [state, attempts, prompt]]
    sessions,    \* of other browsers than the one the profile is open in: by what they
                 \* were begun, "password" or "factor"
    req,         \* the requests
    made,        \* [secrets, mints, prompts] so far
    answered,    \* [id -> answers to the sign-in that were checked]
    begun,       \* [id -> sessions it began]
    passed,      \* answers that passed
    twice        \* whether one has passed twice

vars == <<visit, totp, passkey, registering, codes, challenge, sessions, req, made, answered, begun, passed, twice>>
Factors == <<totp, passkey, registering, codes>>
History == <<answered, begun, passed, twice>>

Ids == 1 .. visit.challenges
NoTotp == [secret |-> 0, confirmed |-> FALSE, last |-> 0]
NoCodes == [mint |-> 0, unused |-> {}]
NoAnswer == [way |-> "none", from |-> 0, code |-> 0]
NoChallenge == [state |-> "none", attempts |-> 0, prompt |-> 0]

\* id, prompt: the sign-in as it was read; answer: what was sent; had: there was a
\* factor; gone: the sign-ins its statements have deleted.
Idle == [pc |-> "idle", kind |-> "none", id |-> 0, prompt |-> 0, attempt |-> 0, answer |-> NoAnswer,
         had |-> FALSE, gone |-> {}]

Init ==
    /\ visit \in Visits
    /\ totp = NoTotp /\ passkey = FALSE /\ registering = FALSE /\ codes = NoCodes
    /\ challenge = [i \in Ids |-> NoChallenge] /\ sessions = {}
    /\ req = [r \in Requests |-> Idle] /\ made = [secrets |-> 0, mints |-> 0, prompts |-> 0]
    /\ answered = [i \in Ids |-> 0] /\ begun = [i \in Ids |-> 0]
    /\ passed = {} /\ twice = FALSE

-----------------------------------------------------------------------------
HasFactor == totp.confirmed \/ passkey
Live == {i \in Ids : challenge[i].state = "live"}
At(r, pc) == req[r].pc = pc
Set(r, q) == req' = [req EXCEPT ![r] = q]
Over(r) == Set(r, Idle)
Deleted(S) == [i \in Ids |-> IF i \in S THEN [challenge[i] EXCEPT !.state = "gone"] ELSE challenge[i]]

\* What is assumed not to overlap: a new secret with the confirmation of the one
\* before, and a sign-in by password alone with the enrolment of a factor.
Apart(kind) ==
    \A r \in Requests :
        /\ ~({kind, req[r].kind} \subseteq {"setup", "confirm"} /\ kind # req[r].kind)
        /\ kind = "password" => req[r].kind \notin Enrolments
        /\ kind \in Enrolments => req[r].kind # "password"

Begins(r, kind, q) == kind \in visit.kinds /\ At(r, "idle") /\ Apart(kind) /\ Set(r, [q EXCEPT !.kind = kind])

-----------------------------------------------------------------------------
\* login.post.ts, after checkPassword(): the factors decide.
Password(r) ==
    /\ Begins(r, "password", [Idle EXCEPT !.pc = IF HasFactor THEN "start" ELSE "session"])
    /\ UNCHANGED <<Factors, challenge, sessions, made, History>>

PasswordSession(r) ==
    /\ At(r, "session") /\ Over(r) /\ sessions' = sessions \union {"password"}
    /\ UNCHANGED <<Factors, challenge, made, History>>

\* Mutant: transactions do not wait for each other.
FreeAlways(r) == TRUE

\* lockUserFactors()
Free(r) == \A s \in Requests \ {r} : ~At(s, "locked")

\* startLoginChallenge(): whoever sees a sign-in pending replaces it.
Start(r) ==
    /\ At(r, "start") /\ Free(r) /\ Set(r, [req[r] EXCEPT !.pc = "locked", !.kind = "start", !.gone = Live])
    /\ UNCHANGED <<Factors, challenge, sessions, made, History>>

Started(r) ==
    /\ At(r, "locked") /\ req[r].kind = "start"
    /\ \E i \in Ids :
        /\ challenge[i].state = "none" /\ \A j \in Ids : j < i => challenge[j].state # "none"
        /\ challenge' = [Deleted(req[r].gone) EXCEPT ![i].state = "live"]
    /\ Over(r)
    /\ UNCHANGED <<Factors, sessions, made, History>>

Expires(i) ==
    /\ i \in Live /\ challenge' = Deleted({i})
    /\ UNCHANGED <<Factors, sessions, req, made, History>>

-----------------------------------------------------------------------------
\* login/passkey-options.post.ts
Prompt(i) ==
    /\ i \in Live /\ challenge[i].attempts < visit.limit /\ made.prompts < MaxPrompts
    /\ made' = [made EXCEPT !.prompts = @ + 1]
    /\ challenge' = [challenge EXCEPT ![i].prompt = made.prompts + 1]
    /\ UNCHANGED <<Factors, sessions, req, History>>

\* login/verify.post.ts: the sign-in is read.
\* An answer: a code of an authenticator's secret for a time step, a recovery code of those
\* minted together, or the assertion of a passkey for a prompt.
Totps == [way : {"totp"}, from : 1 .. made.secrets, code : Steps]
Answers == Totps \union [way : {"recovery"}, from : 1 .. made.mints, code : CodeIds]
                 \union [way : {"key"}, from : 1 .. made.prompts, code : {0}]

Verify(r, i, answer) ==
    /\ i \in Live /\ challenge[i].attempts < visit.limit
    /\ Begins(r, "verify", [Idle EXCEPT !.pc = "claim", !.id = i, !.prompt = challenge[i].prompt, !.answer = answer])
    /\ UNCHANGED <<Factors, challenge, sessions, made, History>>

\* Mutant: the attempts left are those that were read.
LeftAsRead(i) == challenge[i].state = "live"

\* claimLoginAttempt()'s condition
Left(i) == challenge[i].state = "live" /\ challenge[i].attempts < visit.limit

Claim(r) ==
    LET i == req[r].id IN
    /\ At(r, "claim")
    /\ IF Left(i)
       THEN /\ challenge' = [challenge EXCEPT ![i].attempts = @ + 1]
            /\ Set(r, [req[r] EXCEPT !.pc = "check", !.attempt = challenge[i].attempts + 1])
            /\ answered' = [answered EXCEPT ![i] = @ + 1]
       ELSE challenge' = Deleted({i}) /\ Over(r) /\ UNCHANGED answered
    /\ UNCHANGED <<Factors, sessions, made, begun, passed, twice>>

\* An answer that passes once more than it should is remembered.
Passes(r) ==
    /\ passed' = passed \union {req[r].answer} /\ twice' = (twice \/ req[r].answer \in passed)
    /\ Set(r, [req[r] EXCEPT !.pc = "finish"])

Fails(r) == Set(r, [req[r] EXCEPT !.pc = "fail"]) /\ UNCHANGED <<passed, twice>>

\* consumeTotpCode(): the secret is read, then the step is spent.
MatchTotp(r) ==
    /\ At(r, "check") /\ req[r].answer.way = "totp"
    /\ IF totp.confirmed /\ totp.secret = req[r].answer.from
       THEN Set(r, [req[r] EXCEPT !.pc = "spend"]) /\ UNCHANGED <<passed, twice>>
       ELSE Fails(r)
    /\ UNCHANGED <<Factors, challenge, sessions, made, answered, begun>>

\* Mutant: a step passes as often as it is sent.
SpendsAgain(t) == totp.secret # 0 /\ totp.last <= t

Spends(t) == totp.secret # 0 /\ totp.last < t

SpendTotp(r) ==
    LET t == req[r].answer.code IN
    /\ At(r, "spend")
    /\ IF Spends(t)
       THEN totp' = [totp EXCEPT !.last = t] /\ Passes(r)
       ELSE UNCHANGED totp /\ Fails(r)
    /\ UNCHANGED <<passkey, registering, codes, challenge, sessions, made, answered, begun>>

\* consumeRecoveryCode()
SpendRecovery(r) ==
    LET a == req[r].answer IN
    /\ At(r, "check") /\ a.way = "recovery"
    /\ IF codes.mint = a.from /\ a.code \in codes.unused
       THEN codes' = [codes EXCEPT !.unused = @ \ {a.code}] /\ Passes(r)
       ELSE UNCHANGED codes /\ Fails(r)
    /\ UNCHANGED <<totp, passkey, registering, challenge, sessions, made, answered, begun>>

\* checkPasskeyAssertion(): the prompt is taken, then the credential is read.
TakePrompt(r) ==
    LET q == req[r] IN
    /\ At(r, "check") /\ q.answer.way = "key"
    /\ IF q.prompt # 0 /\ challenge[q.id].state = "live" /\ challenge[q.id].prompt = q.prompt
       THEN challenge' = [challenge EXCEPT ![q.id].prompt = 0] /\ Set(r, [q EXCEPT !.pc = "assert"]) /\ UNCHANGED <<passed, twice>>
       ELSE UNCHANGED challenge /\ Fails(r)
    /\ UNCHANGED <<Factors, sessions, made, answered, begun>>

Assertion(r) ==
    /\ At(r, "assert")
    /\ IF passkey /\ req[r].answer.from = req[r].prompt THEN Passes(r) ELSE Fails(r)
    /\ UNCHANGED <<Factors, challenge, sessions, made, answered, begun>>

\* failLoginChallenge()
Refuse(r) ==
    /\ At(r, "fail") /\ Over(r)
    /\ challenge' = IF req[r].attempt >= visit.limit THEN Deleted({req[r].id}) ELSE challenge
    /\ UNCHANGED <<Factors, sessions, made, History>>

\* Mutant: the sign-in need not be there any more.
FinishedAnyway(i) == TRUE

Finished(i) == challenge[i].state = "live"

\* finishLoginChallenge(), startSession()
Finish(r) ==
    LET i == req[r].id IN
    /\ At(r, "finish") /\ challenge' = Deleted({i})
    /\ IF Finished(i)
       THEN Set(r, [req[r] EXCEPT !.pc = "begin"]) /\ begun' = [begun EXCEPT ![i] = @ + 1]
       ELSE Over(r) /\ UNCHANGED begun
    /\ UNCHANGED <<Factors, sessions, made, answered, passed, twice>>

Begin(r) ==
    /\ At(r, "begin") /\ Over(r) /\ sessions' = sessions \union {"factor"}
    /\ UNCHANGED <<Factors, challenge, made, History>>

-----------------------------------------------------------------------------
\* The profile, after requireCurrentPassword().

\* totp/setup.post.ts: a secret that is confirmed stays.  consumeTotpCode() does not ask
\* whether the secret it has matched is still the one whose step it spends: Steady
\* assumes it is.
Setup(r) ==
    /\ Begins(r, "setup", [Idle EXCEPT !.pc = "setup"])
    /\ UNCHANGED <<Factors, challenge, sessions, made, History>>

SetUp(r) ==
    /\ At(r, "setup") /\ (Steady => \A q \in Requests : ~At(q, "spend"))
    /\ made.secrets < visit.secrets /\ made' = [made EXCEPT !.secrets = @ + 1]
    /\ totp' = IF totp.confirmed THEN totp ELSE [secret |-> made.secrets + 1, confirmed |-> FALSE, last |-> 0]
    /\ Over(r)
    /\ UNCHANGED <<passkey, registering, codes, challenge, sessions, History>>

\* passkeyRegistrationOptions()
Options ==
    /\ "add_key" \in visit.kinds /\ ~passkey /\ ~registering /\ registering' = TRUE
    /\ UNCHANGED <<totp, passkey, codes, challenge, sessions, req, made, History>>

\* Each of the rest is a transaction: it has the lock and has read the factors.
Lock(r, kind, answer) ==
    /\ kind \in Locking \ {"start"} /\ Free(r)
    /\ kind = "confirm" <=> answer # NoAnswer
    /\ Begins(r, kind, [Idle EXCEPT !.pc = "locked", !.had = HasFactor, !.answer = answer])
    /\ UNCHANGED <<Factors, challenge, sessions, made, History>>

Minted == [mint |-> made.mints + 1, unused |-> CodeIds]
Mints == made.mints < visit.mints /\ made' = [made EXCEPT !.mints = @ + 1] /\ codes' = Minted

\* Mutant: every factor mints codes, or none does.
AddedWithout(had) == UNCHANGED <<codes, made>>

\* afterFactorAdded()
Added(had) == IF had THEN UNCHANGED <<codes, made>> ELSE Mints

\* Mutant: nothing ends.
EnrolledOnly(r) == Over(r)

\* The first factor ends the other sessions, after the transaction (which does not fail).
Enrolled(r) == Set(r, IF req[r].had THEN Idle ELSE [Idle EXCEPT !.pc = "end_others", !.kind = req[r].kind])

\* totp/confirm.post.ts; a code that does not match leaves all as it was.
Confirm(r) ==
    LET a == req[r].answer IN
    /\ At(r, "locked") /\ req[r].kind = "confirm"
    /\ ~totp.confirmed /\ totp.secret = a.from /\ Spends(a.code)
    /\ totp' = [totp EXCEPT !.confirmed = TRUE, !.last = a.code]
    /\ passed' = passed \union {a} /\ twice' = (twice \/ a \in passed)
    /\ Added(req[r].had) /\ Enrolled(r)
    /\ UNCHANGED <<passkey, registering, challenge, sessions, answered, begun>>

\* passkeys/index.post.ts, savePasskey()
AddKey(r) ==
    /\ At(r, "locked") /\ req[r].kind = "add_key" /\ registering
    /\ registering' = FALSE /\ passkey' = TRUE /\ Added(req[r].had) /\ Enrolled(r)
    /\ UNCHANGED <<totp, challenge, sessions, History>>

\* endOtherSessions()
EndOthers(r) ==
    /\ At(r, "end_others") /\ Over(r) /\ sessions' = {}
    /\ UNCHANGED <<Factors, challenge, made, History>>

\* afterFactorRemoved(): the last factor takes the codes with it.
Remove(r) ==
    /\ At(r, "locked") /\ req[r].kind \in {"remove_totp", "remove_key"} /\ Over(r)
    /\ IF req[r].kind = "remove_totp"
       THEN totp' = NoTotp /\ UNCHANGED passkey /\ codes' = IF passkey THEN codes ELSE NoCodes
       ELSE passkey' = FALSE /\ UNCHANGED totp /\ codes' = IF totp.confirmed \/ ~passkey THEN codes ELSE NoCodes
    /\ UNCHANGED <<registering, challenge, sessions, made, History>>

\* recovery-codes.post.ts
Mint(r) ==
    /\ At(r, "locked") /\ req[r].kind = "mint" /\ req[r].had /\ Mints /\ Over(r)
    /\ UNCHANGED <<totp, passkey, registering, challenge, sessions, History>>

\* A refusal, or an outage: a transaction is rolled back.
GivesUp(r) ==
    /\ ~At(r, "idle") /\ ~At(r, "end_others") /\ Over(r)
    /\ UNCHANGED <<Factors, challenge, sessions, made, History>>

-----------------------------------------------------------------------------
Request(r) ==
    \/ Password(r) \/ PasswordSession(r) \/ Start(r) \/ Started(r)
    \/ \E i \in Ids, a \in Answers : Verify(r, i, a)
    \/ Claim(r) \/ MatchTotp(r) \/ SpendTotp(r) \/ SpendRecovery(r) \/ TakePrompt(r) \/ Assertion(r)
    \/ Refuse(r) \/ Finish(r) \/ Begin(r)
    \/ Setup(r) \/ SetUp(r)
    \/ \E kind \in Locking, a \in Totps \union {NoAnswer} : Lock(r, kind, a)
    \/ Confirm(r) \/ AddKey(r) \/ EndOthers(r) \/ Remove(r) \/ Mint(r) \/ GivesUp(r)

Next ==
    /\ UNCHANGED visit
    /\ \/ \E r \in Requests : Request(r)
       \/ \E i \in Ids : Expires(i) \/ Prompt(i)
       \/ Options

Spec == Init /\ [][Next]_vars

-----------------------------------------------------------------------------
\* The shape of the state.
TypeOK ==
    /\ totp.secret \in 0 .. made.secrets /\ (totp.confirmed => totp.secret # 0)
    /\ codes.mint \in 0 .. made.mints /\ sessions \subseteq {"password", "factor"}
    /\ \A r \in Requests : req[r].id \in Ids \union {0}

\* "Five requests in flight at once spend all five" (mfa.ts:19-23): of one sign-in at
\* most MAX_CHALLENGE_ATTEMPTS answers are checked, and one session is begun.
AnswersBounded == \A i \in Ids : answered[i] <= visit.limit
OneSession == \A i \in Ids : begun[i] <= 1

\* "An account has one live sign-in at a time, so the five cannot be multiplied across
\* cookies" (mfa.ts:21-22), also of two that are started together (:86-91).
OneSignIn == \A i, j \in Live : i = j

\* A code works exactly once (mfa.ts:224-230, 277): no answer passes twice, of two
\* requests with the same code or of an enrolment and a sign-in.
PassesOnce == ~twice

\* "A removal racing an enrolment must not delete the codes the enrolment needs"
\* (mfa.ts:290-294): whoever has a factor has recovery codes, and nobody else.
CodesWithFactor == (codes.mint # 0) <=> HasFactor

\* "One opened before 2FA was on must not keep the access 2FA was turned on to deny"
\* (totp/confirm.post.ts:8-11): when the enrolment is through, the other sessions of
\* who has a factor were begun with one.
SessionsHadFactor ==
    HasFactor /\ (\A r \in Requests : ~At(r, "end_others")) => "password" \notin sessions

\* What may be used once is: an answer, a sign-in, a code.
SpentOnce == AnswersBounded /\ OneSession /\ OneSignIn /\ PassesOnce

\* The factors, the codes for when they are lost and the sessions they protect agree.
FactorsAgree == CodesWithFactor /\ SessionsHadFactor
=============================================================================

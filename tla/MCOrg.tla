------------------------------- MODULE MCOrg -------------------------------
(***************************************************************************)
(* Org with two organizations of one administrator each and a user without *)
(* one, or Access with one organization, two connections and requests that *)
(* change nothing under each other, or one connection and requests that    *)
(* overlap, or Accounts in a world of its own for each way to prove an     *)
(* address, or SignIn with one user's second factors.  The parts that are  *)
(* not run rest in their initial state.                                    *)
(***************************************************************************)
EXTENDS Org, Access, TLC

CONSTANTS
    Parts, r1, r2, u1, u2, u3, o1, o2, b1, b2, d1, d2, d3,
    Browsers, Addresses, Settings, CodeLimit, Cap,
    Steps, CodeIds, Steady, MaxPrompts, Visits

VARIABLES
    part,
    setting, address, rows, cookie, mailed, sessions, failures, guessed, events, verify, lost,
    visit, totp, passkey, registering, codes, challenge, signedIn, signIn, made, answered, begun, passed, twice

signInVars == <<visit, totp, passkey, registering, codes, challenge, signedIn, signIn, made, answered, begun, passed, twice>>
accountVars == <<setting, address, rows, cookie, mailed, sessions, failures, guessed, events, verify, lost>>

MCHomes == u1 :> o1 @@ u2 :> o2 @@ u3 :> None
MCLimits == o1 :> 2 @@ o2 :> 2

Small == [tokens |-> 1, conns |-> 1]
Large == [tokens |-> 2, conns |-> 2]
MCPlans == {Small, Large}
MCWorlds == {[conns |-> {1, 2}, calm |-> TRUE], [conns |-> {1}, calm |-> FALSE]}

Proving(kinds, first, home, alone, rowBound, resends, faults) ==
    [kinds |-> kinds, first |-> first, home |-> home, alone |-> alone,
     rows |-> rowBound, resends |-> resends, faults |-> faults]
Quiet == Proving({}, FALSE, None, TRUE, 0, 0, 0)
MCSettings ==
    {Quiet, Proving({"signup", "code", "link"}, TRUE, None, TRUE, 2, 0, 1),
     Proving({"signup", "code", "link"}, FALSE, None, TRUE, 2, 0, 1),
     Proving({"signup", "link"}, TRUE, d1, TRUE, 2, 0, 0),
     Proving({"change", "cancel", "code", "link"}, FALSE, d1, TRUE, 2, 0, 1),
     Proving({"signup", "change", "link"}, FALSE, d1, TRUE, 2, 0, 0),
     Proving({"signup", "guess"}, FALSE, None, FALSE, 2, 0, 0),
     Proving({"signup", "guess", "link"}, FALSE, None, TRUE, 2, 0, 0),
     Proving({"signup", "resend", "link"}, FALSE, None, FALSE, 1, 1, 1),
     Proving({"signup", "resend", "code"}, FALSE, None, TRUE, 1, 1, 1)}

Accounts == INSTANCE Accounts WITH Worlds <- Settings, Limit <- CodeLimit
ASSUME AccountsAssumed == Accounts!Assumption

\* Who enrols an app and signs in with it, once or twice; a passkey; both, and none.
Visit(kinds, limit, challenges, secrets, mints) ==
    [kinds |-> kinds, limit |-> limit, challenges |-> challenges, secrets |-> secrets, mints |-> mints]
NoVisit == Visit({}, 1, 0, 0, 0)
App == {"password", "setup", "confirm", "verify"}
MCVisits ==
    {NoVisit, Visit(App, 1, 2, 1, 1), Visit(App, 2, 1, 1, 1), Visit(App \union {"remove_totp"}, 1, 1, 2, 1),
     Visit({"password", "add_key", "remove_key", "verify"}, 1, 2, 1, 1),
     Visit({"password", "setup", "confirm", "add_key", "remove_totp", "remove_key", "mint"}, 1, 1, 1, 2)}

SignIn == INSTANCE SignIn WITH req <- signIn, sessions <- signedIn
ASSUME SignInAssumed == SignIn!Assumption

-----------------------------------------------------------------------------
MCInit ==
    /\ part \in Parts /\ Init /\ AccessInit /\ Accounts!Init /\ SignIn!Init
    /\ part # "access" => calm /\ plan = Small
    /\ part = "accounts" <=> setting # Quiet
    /\ part = "signin" <=> visit # NoVisit

\* The bounded worlds of Accounts end with no request on its way.
Ended == part = "accounts" /\ (\A q \in Requests : verify[q].pc = "idle") /\ UNCHANGED accountVars

SignedIn == (\A q \in Requests : signIn[q].pc = "idle") /\ UNCHANGED signInVars

MCNext ==
    /\ UNCHANGED part
    /\ \/ part = "org" /\ Next /\ UNCHANGED <<accessVars, accountVars, signInVars>>
       \/ part = "access" /\ AccessNext /\ UNCHANGED <<vars, accountVars, signInVars>>
       \/ part = "accounts" /\ (Accounts!Next \/ Ended) /\ UNCHANGED <<vars, accessVars, signInVars>>
       \/ part = "signin" /\ (SignIn!Next \/ SignedIn) /\ UNCHANGED <<vars, accessVars, accountVars>>

MCSpec == MCInit /\ [][MCNext]_<<part, vars, accessVars, accountVars, signInVars>>

\* Requests are interchangeable, and so are the two organizations with their administrators;
\* elsewhere the browsers, and the addresses an account can come to.
Swap == u1 :> u2 @@ u2 :> u1 @@ o1 :> o2 @@ o2 :> o1 @@ b1 :> b2 @@ b2 :> b1 @@ d2 :> d3 @@ d3 :> d2
Symmetry == Permutations(Requests) \union {Swap}

\* The shape of the state of all four; the other invariants are stated in their modules.
AllTypeOK == TypeOK /\ AccessTypeOK /\ Accounts!TypeOK /\ SignIn!TypeOK

\* What an address proves, it proves once, to whom it was mailed.
ProvedOnce == Accounts!ProvedOnce

\* What may be used once is: an answer, a sign-in, a code; and the factors, the codes for when
\* they are lost and the sessions they protect agree.
SpentOnce == SignIn!SpentOnce
FactorsAgree == SignIn!FactorsAgree

\* Whoever joins had a pending code and there was room, and there is room for every token
\* that is made; a verification a browser waits for stays its own: what is promised to one is
\* not taken by another.
GrantsAreCovered == JoinsHaveRoom /\ OnlyPendingJoins /\ MintsHaveRoom /\ Accounts!WaitingStays
=============================================================================

------------------------------- MODULE Access -------------------------------
(***************************************************************************)
(* apps/web/server/utils/tokens.ts, mcp-auth.ts, org.ts and                *)
(* entitlements.ts: the connector tokens of one member, and what keeps     *)
(* them alive.                                                             *)
(*                                                                         *)
(* An administrator's request checks the member first and writes in a      *)
(* transaction or statement of its own; under READ COMMITTED what a        *)
(* statement changes is chosen when it runs and seen by others when its    *)
(* transaction commits.  A tool call reads the token with its holder, and  *)
(* the plan after that.                                                    *)
(***************************************************************************)
EXTENDS Naturals, FiniteSets

CONSTANTS
    Worlds,     \* [conns, calm]: the organization's connections, by age, and whether
                \* who reaches what changes under no other request's check
    Askers,     \* requests of administrators at one time
    Plans,      \* [tokens, conns]: max_tokens and max_connections
    MaxTokens,  \* bound: tokens ever minted
    MaxSeats    \* bound: times the member is in the organization

ASSUME AccessAssumption ==
    /\ \A w \in Worlds : w.conns \subseteq Nat \ {0} /\ w.calm \in BOOLEAN
    /\ Plans \subseteq [tokens : Nat, conns : Nat]
    /\ MaxTokens \in Nat \ {0} /\ MaxSeats \in Nat \ {0}

VARIABLES
    role,      \* the member's: "none", "member" or "admin"
    seat,      \* the id of the membership, or of the last there was
    conns,     \* app.instances
    assigned,  \* app.instance_assignments
    tokens,    \* app.mcp_tokens, by age: [state, conn, secret]; what is past its expiry
               \* is as good as revoked
    plan,      \* the organization's limits
    ask,       \* the requests
    call,      \* a tool call: [pc, token, secret, valid]
    calm       \* of the world

accessVars == <<role, seat, conns, assigned, tokens, plan, ask, call, calm>>

Conns == UNION {w.conns : w \in Worlds}
Standings == {"none", "member", "admin"}
TokenIds == 1 .. MaxTokens
NoToken == [state |-> "none", conn |-> 0, secret |-> 1]
Dead == [NoToken EXCEPT !.state = "dead"]
\* hit, drop: the tokens and the assignments its statements have changed.
NoAsk == [pc |-> "idle", kind |-> "none", conn |-> 0, seat |-> 0, hit |-> {}, drop |-> {}]
NoCall == [pc |-> "idle", token |-> 1, secret |-> 1, valid |-> FALSE]
Grants == {"mint", "assign"}
Locking == {"promote", "demote", "remove"}
Kinds == Grants \union Locking \union {"unassign"}

AccessInit ==
    /\ role = "member" /\ seat = 1 /\ \E w \in Worlds : conns = w.conns /\ calm = w.calm
    /\ assigned = {}
    /\ tokens = [t \in TokenIds |-> NoToken]
    /\ plan \in Plans
    /\ ask = [r \in Askers |-> NoAsk] /\ call = NoCall

-----------------------------------------------------------------------------
Live == {t \in TokenIds : tokens[t].state = "live"}
Becomes(r, q) == ask' = [ask EXCEPT ![r] = q]
Stands(r, pc) == ask[r].pc = pc

\* authorizesInstance()
Authorizes(c) == role = "admin" \/ (role = "member" /\ c \in assigned)

Oldest(n, S) == {x \in S : Cardinality({y \in S : y < x}) < n}

\* mcpLimitRefusal(): the tokens that may answer under the plan.
Answering == Oldest(plan.tokens, {t \in Live : tokens[t].conn \in Oldest(plan.conns, conns)})

-----------------------------------------------------------------------------
\* Requests begin with requireManagedInstance(), requireOrgMember() and what else
\* is read before anything is written.

Asks(r, kind, c) ==
    /\ Stands(r, "idle")
    /\ CASE kind = "mint" -> c \in conns /\ Authorizes(c)
         [] kind = "assign" -> c \in conns /\ role = "member"
         [] kind = "unassign" -> c \in conns /\ role # "none"
         [] kind = "promote" -> c = 0 /\ role = "member"
         [] kind = "demote" -> c = 0 /\ role = "admin"
         [] kind = "remove" -> c = 0 /\ role # "none"
    /\ calm => \A s \in Askers : ask[s].kind = "none" \/ {kind, ask[s].kind} \subseteq Grants
    /\ Becomes(r, [pc |-> "asked", kind |-> kind, conn |-> c, seat |-> seat, hit |-> {}, drop |-> {}])
    /\ UNCHANGED <<role, seat, conns, assigned, tokens, plan, calm>>

\* Mutant: the organization is not locked while its tokens are counted, so that two
\* requests count at one time.
MintUncounted(r) ==
    LET t == Cardinality({u \in TokenIds : tokens[u].state # "none"}) + 1 IN
    /\ Stands(r, "asked") /\ ask[r].kind = "mint"
    /\ t \in TokenIds /\ ask[r].conn \in conns
    /\ tokens' = [tokens EXCEPT ![t] = [state |-> "live", conn |-> ask[r].conn, secret |-> 1]]
    /\ Becomes(r, NoAsk)
    /\ UNCHANGED <<role, seat, conns, assigned, plan, calm>>

\* createToken() after assertCanAdd(), in one transaction and under one lock.
Mint(r) ==
    LET t == Cardinality({u \in TokenIds : tokens[u].state # "none"}) + 1 IN
    /\ Stands(r, "asked") /\ ask[r].kind = "mint"
    /\ t \in TokenIds /\ ask[r].conn \in conns /\ Cardinality(Live) < plan.tokens
    /\ tokens' = [tokens EXCEPT ![t] = [state |-> "live", conn |-> ask[r].conn, secret |-> 1]]
    /\ Becomes(r, NoAsk)
    /\ UNCHANGED <<role, seat, conns, assigned, plan, calm>>

\* assignInstance(): nothing asks for a membership by now.
Assign(r) ==
    /\ Stands(r, "asked") /\ ask[r].kind = "assign" /\ ask[r].conn \in conns
    /\ assigned' = assigned \union {ask[r].conn}
    /\ Becomes(r, NoAsk)
    /\ UNCHANGED <<role, seat, conns, tokens, plan, calm>>

-----------------------------------------------------------------------------
\* The transactions of unassignInstance(), changeMemberRole() and removeMember().

LockFree(r) == \A s \in Askers \ {r} : ~(Stands(s, "open") /\ ask[s].kind \in Locking)

\* Mutant: a demotion revokes nothing.
RevokedKept(q) ==
    {t \in Live : CASE q.kind = "unassign" -> tokens[t].conn = q.conn
                    [] q.kind \in {"promote", "demote"} -> FALSE
                    [] q.kind = "remove" -> TRUE}

\* revokeTokensFor(), or what a demotion breaks.
Revoked(q) ==
    {t \in Live : CASE q.kind = "unassign" -> tokens[t].conn = q.conn
                    [] q.kind = "promote" -> FALSE
                    [] q.kind = "demote" -> tokens[t].conn \notin assigned
                    [] q.kind = "remove" -> TRUE}

Open(r) ==
    LET q == ask[r] IN
    /\ Stands(r, "asked") /\ q.kind \in Locking \union {"unassign"}
    /\ q.kind \in Locking => LockFree(r)
    /\ Becomes(r, [q EXCEPT !.pc = "open", !.hit = Revoked(q),
                        !.drop = CASE q.kind = "unassign" -> {q.conn} [] q.kind = "remove" -> assigned
                                   [] OTHER -> {}])
    /\ UNCHANGED <<role, seat, conns, assigned, tokens, plan, calm>>

\* Mutant: a removal leaves the assignments.
CommitKeeps(r) ==
    LET q == ask[r] IN
    /\ Stands(r, "open")
    /\ role' = CASE q.seat # seat \/ role = "none" \/ q.kind = "unassign" -> role
                 [] OTHER -> [promote |-> "admin", demote |-> "member", remove |-> "none"][q.kind]
    /\ assigned' = IF q.kind = "remove" THEN assigned ELSE assigned \ q.drop
    /\ tokens' = [t \in TokenIds |-> IF t \in q.hit THEN Dead ELSE tokens[t]]
    /\ Becomes(r, NoAsk)
    /\ UNCHANGED <<seat, conns, plan, calm>>

\* A membership that is gone, or is another one by now, is not written; the tokens
\* and the assignments are.
Commit(r) ==
    LET q == ask[r] IN
    /\ Stands(r, "open")
    /\ role' = CASE q.seat # seat \/ role = "none" \/ q.kind = "unassign" -> role
                 [] OTHER -> [promote |-> "admin", demote |-> "member", remove |-> "none"][q.kind]
    /\ assigned' = assigned \ q.drop
    /\ tokens' = [t \in TokenIds |-> IF t \in q.hit THEN Dead ELSE tokens[t]]
    /\ Becomes(r, NoAsk)
    /\ UNCHANGED <<seat, conns, plan, calm>>

\* acceptInviteInto() of somebody without an organization: what they still hold is
\* neither revoked nor dropped.
Rejoin(as) ==
    /\ role = "none" /\ seat < MaxSeats
    /\ calm => \A r \in Askers : ask[r].kind = "none"
    /\ role' = as /\ seat' = seat + 1
    /\ UNCHANGED <<conns, assigned, tokens, plan, ask, calm>>

\* deleteInstance()'s last statement: all that names the connection goes with it.
DeleteConnection(c) ==
    /\ c \in conns
    /\ conns' = conns \ {c} /\ assigned' = assigned \ {c}
    /\ tokens' = [t \in TokenIds |-> IF tokens[t].conn = c THEN Dead ELSE tokens[t]]
    /\ UNCHANGED <<role, seat, plan, ask, calm>>

-----------------------------------------------------------------------------
\* revokeToken(), or time; rotateToken(), which leaves a token that was revoked since
\* it was read revoked.
Revoke(t) ==
    /\ t \in Live /\ tokens' = [tokens EXCEPT ![t] = Dead]
    /\ UNCHANGED <<role, seat, conns, assigned, plan, ask, calm>>

Rotate(t) ==
    /\ t \in Live /\ role # "none" /\ tokens[t].secret = 1
    /\ tokens' = [tokens EXCEPT ![t].secret = 2]
    /\ UNCHANGED <<role, seat, conns, assigned, plan, ask, calm>>

\* syncOrgBilling() of the cloud service; it waits for the organization's lock.
ChangePlan(p) ==
    /\ p # plan /\ plan' = p
    /\ UNCHANGED <<role, seat, conns, assigned, tokens, ask, calm>>

-----------------------------------------------------------------------------
\* A request of the token's client: resolveMcpAuth() in one query, then
\* mcpLimitRefusal(), then the tool.

Valid(t, s) ==
    /\ tokens[t].state = "live" /\ tokens[t].secret = s /\ tokens[t].conn \in conns
    /\ Authorizes(tokens[t].conn)

\* Whether the token was good at some moment of the call.
Watch ==
    \E t \in TokenIds, s \in {1, 2} :
        /\ t = call.token /\ s = call.secret
        /\ call' = [call EXCEPT !.valid = @ \/ (call.pc # "idle" /\ Valid(t, s)')]

\* Where requests overlap, the harder case.
CallBegins(t, s) ==
    /\ ~calm /\ call.pc = "idle" /\ tokens[t].state # "none" /\ s <= tokens[t].secret
    /\ call' = [pc |-> "facts", token |-> t, secret |-> s, valid |-> Valid(t, s)]
    /\ UNCHANGED <<role, seat, conns, assigned, tokens, plan, ask, calm>>

\* Mutant: the holder's membership is not asked.
FactsForgetHolder ==
    /\ call.pc = "facts"
    /\ LET t == tokens[call.token] IN
       call' = (IF t.state = "live" /\ t.secret = call.secret /\ t.conn \in conns
             THEN [call EXCEPT !.pc = "limit"] ELSE NoCall)
    /\ UNCHANGED <<role, seat, conns, assigned, tokens, plan, ask, calm>>

Facts ==
    /\ call.pc = "facts"
    /\ call' = (IF Valid(call.token, call.secret) THEN [call EXCEPT !.pc = "limit"] ELSE NoCall)
    /\ UNCHANGED <<role, seat, conns, assigned, tokens, plan, ask, calm>>

Limit ==
    /\ call.pc = "limit"
    /\ call' = (IF call.token \in Answering THEN [call EXCEPT !.pc = "run"] ELSE NoCall)
    /\ UNCHANGED <<role, seat, conns, assigned, tokens, plan, ask, calm>>

Run ==
    /\ call.pc = "run" /\ call' = NoCall
    /\ UNCHANGED <<role, seat, conns, assigned, tokens, plan, ask, calm>>

-----------------------------------------------------------------------------
AdminRequest(r) ==
    \/ \E kind \in Kinds, c \in Conns \union {0} : Asks(r, kind, c)
    \/ Mint(r) \/ Assign(r) \/ Open(r) \/ Commit(r)
    \/ ~Stands(r, "idle") /\ Becomes(r, NoAsk) /\ UNCHANGED <<role, seat, conns, assigned, tokens, plan, calm>>

Write ==
    \/ \E r \in Askers : AdminRequest(r)
    \/ \E as \in {"member", "admin"} : Rejoin(as)
    \/ \E c \in Conns : DeleteConnection(c)
    \/ \E t \in TokenIds : Revoke(t) \/ Rotate(t)
    \/ \E p \in Plans : ChangePlan(p)

AccessNext ==
    \/ Write /\ Watch
    \/ \E t \in TokenIds, s \in {1, 2} : CallBegins(t, s)
    \/ Facts \/ Limit \/ Run

AccessSpec == AccessInit /\ [][AccessNext]_accessVars

-----------------------------------------------------------------------------
\* The shape of the state.
AccessTypeOK ==
    /\ role \in Standings /\ seat \in 1 .. MaxSeats /\ assigned \subseteq conns /\ conns \subseteq Conns
    /\ \A t \in TokenIds : t \in Live => tokens[t].conn \in conns
    /\ \A r \in Askers : ask[r].hit \subseteq TokenIds

AtRest == calm /\ \A r \in Askers : Stands(r, "idle")

\* "The alternative is a token that still reads Active in the UI and answers 401 on
\* the wire" (tokens.ts:239-243, org.ts:212-219): when no request is under way,
\* every live token is of a connection its holder reaches, after any sequence of
\* assignments, promotions, demotions, removals and returns.
ActiveAnswers == AtRest => \A t \in Live : Authorizes(tokens[t].conn)

\* A removal takes the assignments with it (org.ts:524), so that somebody who comes
\* back reaches nothing until it is given to them again.
AssignedAreMembers == AtRest => (role = "none" => assigned = {})

\* "Two racing mints at the limit cannot both land" (tokens.post.ts:51-53), whatever
\* the plan becomes meanwhile.
MintsHaveRoom ==
    [][Cardinality(Live') > Cardinality(Live) => Cardinality(Live') <= plan.tokens]_accessVars

\* "Removing someone, or unassigning a connection from them, kills their tokens on
\* the very next request even if an explicit revoke was missed" (mcp-auth.ts:134-141):
\* a call that is let through had a token that was good at some moment since it
\* began, also when requests overlap and leave tokens and assignments behind.
AdmittedWasValid == call.pc = "run" => call.valid

\* What a member is left with after any changes: assignments that are theirs, and tokens
\* that answer, of which none is let in that was not good.
AccessIsTheirs == ActiveAnswers /\ AssignedAreMembers /\ AdmittedWasValid
=============================================================================

-------------------------------- MODULE Pools --------------------------------
(***************************************************************************)
(* apps/web/server/utils/keyed-resource.ts, with keyedPool() of pg-pool.ts *)
(* and imapFor() of imap-client.ts: the handles one process keeps open,    *)
(* one for each connection's row.                                          *)
(*                                                                         *)
(* A call runs to its next await in one turn.  A mailbox's builds are      *)
(* shared; a database's are not.                                           *)
(***************************************************************************)
EXTENDS Naturals, FiniteSets, Sequences, SequencesExt

CONSTANTS
    Calls,      \* requests at one time
    Worlds,     \* [calls, keys, shared, secrets, drops, alone, ages, handles]: who calls,
                \* for which connections, whether builds are shared, the credentials a row
                \* has one after the other, how many handles their server ends, whether a
                \* call waits while another builds the same, whether handles get old, and
                \* how many are built ever
    MaxPools    \* MAX_POOLS

Assumption ==
    /\ MaxPools \in Nat
    /\ \A w \in Worlds : w.calls \subseteq Calls /\ IsFiniteSet(w.calls) /\ w.handles \in Nat

VARIABLES
    pool,    \* of the world
    secret,  \* [key -> the credentials its row has]
    entries, \* [key -> [handle, secret, due] or NoEntry]; due: GUARD_TTL_MS is over
    order,   \* the keys of `entries`, the one used longest ago first
    handle,  \* [id -> [state, key, secret]]: what was opened, and with which credentials
    call,    \* the calls
    closes,  \* keys whose credentials have changed, but whose handle is not closed yet
    dropped  \* handles that their server ended

vars == <<pool, secret, entries, order, handle, call, closes, dropped>>

Keys == UNION {w.keys : w \in Worlds}
Handles == UNION {1 .. w.handles : w \in Worlds}
NoEntry == [handle |-> 0, secret |-> 0, due |-> FALSE]
Unbuilt == [state |-> "none", key |-> "", secret |-> 0]
\* had: the entry that was there when the call began; got: the handle it was given.
NoCall == [pc |-> "idle", key |-> "", secret |-> 0, had |-> NoEntry, got |-> 0, build |-> 0, again |-> FALSE]

Init ==
    /\ pool \in Worlds
    /\ secret = [k \in Keys |-> 1]
    /\ entries = [k \in Keys |-> NoEntry] /\ order = <<>>
    /\ handle = [h \in Handles |-> Unbuilt]
    /\ call = [c \in Calls |-> NoCall] /\ closes = {} /\ dropped = 0

-----------------------------------------------------------------------------
Without(seq, k) == IF k \in ToSet(seq) THEN RemoveAt(seq, CHOOSE i \in DOMAIN seq : seq[i] = k) ELSE seq
Used(seq, k) == Append(Without(seq, k), k)
Kept == {k \in Keys : entries[k] # NoEntry}
Opened == {h \in Handles : handle[h].state \in {"open", "ended"}}
Building == {h \in Handles : handle[h].state = "building"}
At(c, pc) == call[c].pc = pc
Go(c, r) == call' = [call EXCEPT ![c] = r]
Close(H) == [h \in Handles |-> IF h \in H THEN [handle[h] EXCEPT !.state = "closed"] ELSE handle[h]]

\* How many of the oldest were not used for POOL_IDLE_MS.
Idle == IF pool.ages THEN 0 .. Len(order) ELSE {0}

\* Mutant: idle handles are swept, and no others.
SweptIdle(idle) == SubSeq(order, idle + 1, Len(order))

\* sweep(): who is idle, then the oldest while there are more than MAX_POOLS.
Swept(idle) == SubSeq(order, (IF Len(order) > MaxPools + idle THEN Len(order) - MaxPools ELSE idle) + 1, Len(order))

-----------------------------------------------------------------------------
\* keyedResource(), to its first await.

\* Mutant: the credentials are not compared.
HitAnySecret(e, s) == e # NoEntry

Hit(e, s) == e # NoEntry /\ e.secret = s

\* The handle a mailbox's callers are already waiting for.
Shared(k) == IF pool.shared THEN {h \in Building : handle[h].key = k} ELSE {}

Acquire(c, k, s, idle) ==
    LET keep == Swept(idle)
        gone == {x \in Kept : x \notin ToSet(keep)}
        e == IF k \in gone THEN NoEntry ELSE entries[k]
        swept == [x \in Keys |-> IF x \in gone THEN NoEntry ELSE entries[x]]
        r == [call[c] EXCEPT !.key = k, !.secret = s, !.had = e]
        closed == Close({entries[x].handle : x \in gone})
        new == 1 + Cardinality({h \in Handles : handle[h].state # "none"})
    IN
    /\ IF Hit(e, s)
       THEN /\ IF e.due
               THEN Go(c, [r EXCEPT !.pc = "guard"]) /\ order' = keep
               ELSE Go(c, [r EXCEPT !.pc = "got", !.got = e.handle]) /\ order' = Used(keep, k)
            /\ handle' = closed
       ELSE /\ pool.alone => \A d \in Calls : ~(At(d, "build") /\ call[d].key = k)
            /\ order' = keep
            /\ IF Shared(k) # {}
               THEN \E h \in Shared(k) : Go(c, [r EXCEPT !.pc = "build", !.build = h]) /\ handle' = closed
               ELSE /\ new <= pool.handles
                    /\ Go(c, [r EXCEPT !.pc = "build", !.build = new])
                    /\ handle' = [closed EXCEPT ![new] = [state |-> "building", key |-> k, secret |-> s]]
    /\ entries' = swept
    /\ UNCHANGED <<pool, secret, closes, dropped>>

\* A call with the row as it was when it was read.
Ask(c, k, s, idle) ==
    /\ At(c, "idle") /\ c \in pool.calls /\ k \in pool.keys /\ s \in 1 .. secret[k]
    /\ Acquire(c, k, s, idle)

-----------------------------------------------------------------------------
\* After the awaits.

\* reguard() passed: the entry it had, which may have gone since.
Guarded(c) ==
    LET r == call[c]
        k == r.key
        same == entries[k].handle = r.had.handle
    IN
    /\ At(c, "guard") /\ Go(c, [r EXCEPT !.pc = "got", !.got = r.had.handle])
    /\ entries' = IF same THEN [entries EXCEPT ![k].due = FALSE] ELSE entries
    /\ order' = IF same THEN Used(order, k) ELSE order
    /\ UNCHANGED <<pool, secret, handle, closes, dropped>>

\* reguard() throws; build() does, for all who share it.
GuardFails(c) ==
    /\ At(c, "guard") /\ Go(c, NoCall)
    /\ UNCHANGED <<pool, secret, entries, order, handle, closes, dropped>>

Waiting(h) == {c \in Calls : At(c, "build") /\ call[c].build = h}

BuildFails(h) ==
    /\ h \in Building
    /\ call' = [c \in Calls |-> IF c \in Waiting(h) THEN NoCall ELSE call[c]]
    /\ handle' = [handle EXCEPT ![h].state = "closed"]
    /\ UNCHANGED <<pool, secret, entries, order, closes, dropped>>

\* Mutant: the handle that is replaced is not closed.
ReplacedLeft(h) == {}

\* What the callers that wait for h found, and close.
Replaced(h) == {call[c].had.handle : c \in {x \in Waiting(h) : call[x].had # NoEntry}}

\* build() is done: each who waits replaces the entry it found and sets its own, in turn.
Built(h, c) ==
    LET k == handle[h].key IN
    /\ h \in Building /\ c \in Waiting(h)
    /\ handle' = [Close(Replaced(h)) EXCEPT ![h].state = "open"]
    /\ entries' = [entries EXCEPT ![k] = [handle |-> h, secret |-> call[c].secret, due |-> FALSE]]
    /\ order' = Used(order, k)
    /\ call' = [d \in Calls |-> IF d \in Waiting(h) THEN [call[d] EXCEPT !.pc = "got", !.got = h] ELSE call[d]]
    /\ UNCHANGED <<pool, secret, closes, dropped>>

-----------------------------------------------------------------------------
\* closeKeyedResource(), which knows of nothing that is being built.
CloseKey(k) ==
    /\ entries' = [entries EXCEPT ![k] = NoEntry] /\ order' = Without(order, k)
    /\ handle' = Close({entries[k].handle})

\* imapFor(): a cached client that has closed is replaced once.
Replace(c) ==
    LET r == call[c] IN
    /\ At(c, "got") /\ pool.shared /\ handle[r.got].state = "ended" /\ ~r.again
    /\ CloseKey(r.key)
    /\ Go(c, [NoCall EXCEPT !.pc = "again", !.key = r.key, !.secret = r.secret, !.again = TRUE])
    /\ UNCHANGED <<pool, secret, closes, dropped>>

AskAgain(c, idle) == At(c, "again") /\ Acquire(c, call[c].key, call[c].secret, idle)

Use(c) ==
    /\ At(c, "got") /\ ~(pool.shared /\ handle[call[c].got].state = "ended" /\ ~call[c].again)
    /\ Go(c, NoCall)
    /\ UNCHANGED <<pool, secret, entries, order, handle, closes, dropped>>

-----------------------------------------------------------------------------
\* updatePostgresDsn(), updateImapCredentials(): the row, then the handle.
Rotate(k) ==
    /\ k \in pool.keys /\ secret[k] < pool.secrets
    /\ secret' = [secret EXCEPT ![k] = @ + 1] /\ closes' = closes \union {k}
    /\ UNCHANGED <<pool, entries, order, handle, call, dropped>>

CloseRotated(k) ==
    /\ k \in closes /\ closes' = closes \ {k} /\ CloseKey(k)
    /\ UNCHANGED <<pool, secret, call, dropped>>

GuardEnds(k) ==
    /\ k \in Kept /\ pool.ages /\ ~entries[k].due /\ entries' = [entries EXCEPT ![k].due = TRUE]
    /\ UNCHANGED <<pool, secret, order, handle, call, closes, dropped>>

ServerEnds(h) ==
    /\ handle[h].state = "open" /\ dropped < pool.drops /\ dropped' = dropped + 1
    /\ handle' = [handle EXCEPT ![h].state = "ended"]
    /\ UNCHANGED <<pool, secret, entries, order, call, closes>>

Next ==
    \/ \E c \in Calls :
        \/ \E k \in Keys, idle \in Idle : \E s \in 1 .. secret[k] : Ask(c, k, s, idle)
        \/ \E idle \in Idle : AskAgain(c, idle)
        \/ Guarded(c) \/ GuardFails(c) \/ Replace(c) \/ Use(c)
        \/ \E h \in Handles : Built(h, c)
    \/ \E h \in Handles : BuildFails(h) \/ ServerEnds(h)
    \/ \E k \in Keys : Rotate(k) \/ CloseRotated(k) \/ GuardEnds(k)

Spec == Init /\ [][Next]_vars

-----------------------------------------------------------------------------
\* The shape of the state.
TypeOK ==
    /\ IsInjective(order) /\ ToSet(order) = Kept
    /\ \A k \in Kept : entries[k].handle \in Handles /\ handle[entries[k].handle].key = k

\* "Builds are de-duplicated: two calls arriving at a cold cache would otherwise open
\* two logins, and the one `keyedResource` did not keep would leak" (imap-client.ts:284):
\* where builds are shared, or no two calls build one handle at a time, what is open is
\* kept, and closed when it is replaced, swept or closed by its key.
NothingLeaks == pool.shared \/ pool.alone => \A h \in Opened : \E k \in Kept : entries[k].handle = h

\* What is kept under a credential's hash was opened with it, so that "a rotated
\* credential" is noticed (keyed-resource.ts:16-17, 54): whoever asks with new
\* credentials is not answered with a handle of the old.
OpenedWithSecret == \A c \in Calls : At(c, "got") => handle[call[c].got].secret = call[c].secret

\* The same where builds are not shared, as a database's are not, which is what the
\* code keeps.
UnsharedWithSecret == ~pool.shared => OpenedWithSecret

\* MAX_POOLS is a budget of the process (keyed-resource.ts:41-45): the sweep runs before
\* the builds, so that it is exceeded by what is asked for at one time and no more.
PoolsBounded == Cardinality(Kept) <= MaxPools + Cardinality(pool.calls)

\* Every handle is kept by whom it is asked for, with the credential it was asked with,
\* and there are no more than there is room for.
HandlesAreKept == NothingLeaks /\ UnsharedWithSecret /\ PoolsBounded
=============================================================================

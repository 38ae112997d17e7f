------------------------------ MODULE Reading ------------------------------
(***************************************************************************)
(* One WhatsApp account as a token's calls see it: whatsapp-identity.ts    *)
(* (which LID and which phone number are one person), mcp-scope.ts (which  *)
(* chats a token may touch), lid-guard.ts (no LID's digits are sent to as  *)
(* a phone number), the listing of chats.ts and evolution-db.ts, and the   *)
(* handlers of list-chats, read-messages and send-text-message.            *)
(*                                                                         *)
(* The account's messages are stored while calls are under way, so what a  *)
(* call goes by is a prefix of them: the first n, as a query found them.   *)
(***************************************************************************)
EXTENDS Naturals, Sequences, FiniteSets

CONSTANTS
    Lids, Phones, \* chats of persons, by the id they are stored under
    Calls,        \* tool calls, numbered as they come in
    Worlds,       \* see Init
    MaxRows       \* bound: messages stored

VARIABLES
    account, \* [scope: the chats a token is scoped to, messages: those that may come,
             \* asks: what a call may be, calls: how many there are, same: the chats of a
             \* person, faults, expiries]
    rows,    \* the messages stored: [chat, alt, names, live]. names are the LIDs it names,
             \* live is FALSE for imported history, whose timestamps are old
    links,   \* entry of resolveLinks: [pairs, unlinked, known, seen, fresh]
    linking, \* the load in flight: how many rows there were when it began, or Idle
    guard,   \* entry of knownLids: [lids, known, base, fresh, recent, there, build]
    building,\* the build in flight, likewise
    call,    \* [call -> [pc, ask, links, began, found, guard, blind, answer]]
    used     \* [faults, expiries] so far

vars == <<account, rows, links, linking, guard, building, call, used>>

Group == "group"
None == "none"
Stranger == "stranger" \* whoever owns the digits of a LID as a phone number
Idle == MaxRows + 1
Chats == Lids \cup Phones \cup {Group}

\* jid: the id asked for. A send says whether it is a full jid or the digits of one.
Asks == [do : {"list"}, jid : {None}] \cup [do : {"read"}, jid : Chats]
            \cup [do : {"send", "digits"}, jid : Chats]
Messages == [chat : Chats, alt : Phones \cup {None}, names : SUBSET Lids, live : BOOLEAN]

\* A person has one alias and one number, and messages say what is so: where calls read.
OnePerson(w) ==
    /\ \A i \in Lids \cup Phones : i \in w.same[i] /\ w.same[i] \subseteq Lids \cup Phones
    /\ \A i \in Lids \cup Phones : \A j \in w.same[i] \ {i} : w.same[j] = w.same[i] /\ (i \in Lids) # (j \in Lids)
    /\ \A m \in w.messages : m.chat \in Lids /\ m.alt \in Phones => m.alt \in w.same[m.chat]

Assumption ==
    /\ Calls \subseteq Nat /\ MaxRows \in Nat
    /\ Lids \cap Phones = {} /\ {Group, None, Stranger} \cap (Lids \cup Phones) = {}
    /\ \A w \in Worlds :
        /\ w.scope \subseteq Chats /\ w.messages \subseteq Messages /\ w.asks \subseteq Asks
        /\ w.calls \in Nat /\ w.faults \in Nat /\ w.expiries \in Nat
        /\ (\E ask \in w.asks : ask.do = "read") => OnePerson(w)

NoLinks == [pairs |-> {}, unlinked |-> 0, known |-> FALSE, seen |-> 0, fresh |-> FALSE]
NoGuard == [lids |-> {}, known |-> FALSE, base |-> 0, fresh |-> FALSE, recent |-> FALSE,
            there |-> FALSE, build |-> 0]
Nothing == [shown |-> {}, jids |-> {}, hidden |-> 0, note |-> FALSE, to |-> None]
NoCall == [pc |-> "idle", ask |-> [do |-> "list", jid |-> None], links |-> NoLinks, began |-> 0,
           found |-> {}, guard |-> NoGuard, blind |-> FALSE, answer |-> Nothing]

Init ==
    /\ account \in Worlds /\ rows = <<>> /\ links = NoLinks /\ linking = Idle
    /\ guard = NoGuard /\ building = Idle
    /\ call = [c \in Calls |-> NoCall] /\ used = [faults |-> 0, expiries |-> 0]

First(n) == {rows[i] : i \in 1..n}
InScope(jid) == jid \in account.scope
\* lidLocalParts(): every LID that a message names, in any of its five places.
LidLocalParts(n) == UNION {m.names : m \in First(n)}
Fails == used.faults < account.faults /\ used' = [used EXCEPT !.faults = @ + 1]

-----------------------------------------------------------------------------
(* whatsapp-identity.ts *)

\* Mutant: the link goes by the LID's side alone.
LinkedOneWay(seen) == {e \in seen : \A f \in seen : f[1] = e[1] => f[2] = e[2]}

\* A link is one-to-one both ways.
Linked(seen) == {e \in seen : \A f \in seen : (f[1] = e[1]) <=> (f[2] = e[2])}

\* readLidLinks(): only the rows of a LID's own chat are evidence.
LidRows(n) == {<<m.chat, m.alt>> : m \in {m \in First(n) : m.chat \in Lids}}

\* shapeLinks()
ShapeLinks(n) ==
    LET pairs == Linked({e \in LidRows(n) : e[2] \in Phones})
    IN  [pairs |-> pairs, known |-> TRUE, seen |-> n, fresh |-> TRUE,
         unlinked |-> Cardinality({e[1] : e \in LidRows(n)} \ {e[1] : e \in pairs})]

\* linkedJidOf(), as a set of at most one.
Partner(l, jid) == {e[2] : e \in {e \in l.pairs : e[1] = jid}} \cup {e[1] : e \in {e \in l.pairs : e[2] = jid}}

\* canonicalJid(): a linked person is listed under the LID.
Canonical(l, jid) == IF jid \in Phones /\ Partner(l, jid) # {} THEN CHOOSE o \in Partner(l, jid) : TRUE ELSE jid

\* phoneNumberBehind(): of a LID only.
PhoneBehind(l, jid) == IF jid \in Lids THEN Partner(l, jid) ELSE {}

-----------------------------------------------------------------------------
(* mcp-scope.ts *)

\* The row is cut to the ids in scope, and a cut row says nothing of a message.
CutRow(row) ==
    LET keep == row.jids \cap account.scope
        jid == IF row.jid \in keep THEN row.jid ELSE CHOOSE j \in keep : TRUE
    IN  [jid |-> jid, jids |-> keep, newest |-> None, hidden |-> Cardinality(row.jids \ keep),
         phone |-> IF jid \in Lids THEN row.phone ELSE {}]

\* Mutant: the preview of the listing is kept on a cut row.
CutWithPreview(row) == [CutRow(row) EXCEPT !.newest = row.newest]

Cut(row) == CutRow(row)

FilterChats(listed) ==
    {IF row.jids \subseteq account.scope THEN row ELSE Cut(row) :
        row \in {row \in listed : row.jids \cap account.scope # {}}}

\* expandChat() of a chat in scope: the partner is added when it is in scope too.
Expand(l, jid) ==
    [jids |-> {jid} \cup (Partner(l, jid) \cap account.scope),
     hidden |-> Cardinality(Partner(l, jid) \ account.scope)]

\* displayJidInScope()
Display(l, jid) == IF InScope(Canonical(l, jid)) THEN Canonical(l, jid) ELSE jid

-----------------------------------------------------------------------------
(* chats.ts, evolution-db.ts *)

\* listChatActivity(): one row for each person; the newest message is that of any of its chats.
Activity(l, n) ==
    LET stored == {m.chat : m \in First(n)}
        Of(jid) == {j \in stored : Canonical(l, j) = jid}
        Newest(jid) == CHOOSE i \in 1..n : rows[i].chat \in Of(jid)
                            /\ \A k \in i + 1..n : rows[k].chat \notin Of(jid)
    IN  {[jid |-> jid, jids |-> {jid} \cup Of(jid), newest |-> rows[Newest(jid)].chat,
          phone |-> {}, hidden |-> 0] : jid \in {Canonical(l, j) : j \in stored}}

\* nameChats(), by links that it reads again.
Named(l, listed) == {[row EXCEPT !.phone = PhoneBehind(l, row.jid)] : row \in listed}

\* linkStatus(): whether read-messages says that there may be more of the conversation.
LinkNote(l, jid) ==
    /\ jid # Group
    /\ Cardinality(Expand(l, jid).jids) = 1
    /\ Expand(l, jid).hidden > 0 \/ ~l.known \/ jid \in Lids \/ l.unlinked > 0

\* Mutant: a phone number's chat is only noted when its link was cut.
NoteOfLids(l, jid) == LinkNote(l, jid) /\ (Expand(l, jid).hidden > 0 \/ ~l.known \/ jid \in Lids)

Note(l, jid) == LinkNote(l, jid)

-----------------------------------------------------------------------------
(* The calls *)

At(c, pc) == call[c].pc = pc
Ends(c, answer) == call' = [call EXCEPT ![c].pc = "end", ![c].answer = answer]

\* What lidLinks() answers, and where the call goes with it: a read asserts its own
\* chat and answers for it and its partner; a listing reads the links once more; a send
\* that is refused ends.
WithLinks(r, l) ==
    CASE r.pc = "links" /\ r.ask.do = "list" -> [r EXCEPT !.pc = "chats", !.links = l]
      [] r.pc = "links" /\ r.ask.do = "read" ->
            [r EXCEPT !.pc = "end", !.links = l,
                !.answer = IF InScope(r.ask.jid)
                           THEN [Nothing EXCEPT !.jids = Expand(l, r.ask.jid).jids,
                                    !.hidden = Expand(l, r.ask.jid).hidden, !.note = Note(l, r.ask.jid)]
                           ELSE Nothing]
      [] r.pc = "links" /\ r.ask.do \notin {"list", "read"} -> [r EXCEPT !.pc = "end"] \* the wording of a refusal
      [] r.pc = "names" ->
            [r EXCEPT !.pc = "end", !.answer = [Nothing EXCEPT !.shown = FilterChats(Named(l, r.found))]]
      [] OTHER -> r

\* The call comes in. assertNotBareLid() is a send's first step.
Start(c, ask) ==
    /\ At(c, "idle") /\ c <= account.calls /\ \A d \in Calls : d < c => ~At(d, "idle")
    /\ call' = [call EXCEPT ![c] = [NoCall EXCEPT !.ask = ask, !.began = Len(rows),
                    !.pc = CASE ask.do \in {"list", "read"} -> "links"
                             [] ask.do = "digits" -> "known"
                             [] OTHER -> "allowed"]]
    /\ UNCHANGED <<account, rows, links, linking, guard, building, used>>

\* lidLinks(), served from its entry or by the load in flight.
Links(c) ==
    /\ At(c, "links") \/ At(c, "names")
    /\ IF links.fresh
       THEN call' = [call EXCEPT ![c] = WithLinks(@, links)] /\ UNCHANGED linking
       ELSE linking = Idle /\ linking' = Len(rows) /\ UNCHANGED call
    /\ UNCHANGED <<account, rows, links, guard, building, used>>

LinksSettle(l) ==
    /\ links' = l /\ linking' = Idle
    /\ call' = [c \in Calls |-> WithLinks(call[c], l)]

LinksRead(n) == linking # Idle /\ n >= linking /\ LinksSettle(ShapeLinks(n))
                    /\ UNCHANGED <<account, rows, guard, building, used>>

\* A failed read serves what there was.
LinksFail == linking # Idle /\ Fails /\ LinksSettle([links EXCEPT !.fresh = TRUE])
                    /\ UNCHANGED <<account, rows, guard, building>>

ListRows(c) ==
    /\ At(c, "chats")
    /\ call' = [call EXCEPT ![c].pc = "names", ![c].found = Activity(call[c].links, Len(rows))]
    /\ UNCHANGED <<account, rows, links, linking, guard, building, used>>

-----------------------------------------------------------------------------
(* lid-guard.ts *)

\* What a send does with the set of known LIDs.
WithGuard(r, g) ==
    IF r.pc # "known" THEN r
    ELSE [r EXCEPT !.guard = g,
            !.pc = IF r.ask.jid \in g.lids THEN "end" ELSE IF g.known /\ g.recent THEN "allowed" ELSE "recent"]

KnownLids(c) ==
    /\ At(c, "known")
    /\ IF guard.fresh
       THEN call' = [call EXCEPT ![c] = WithGuard(@, guard)] /\ UNCHANGED building
       ELSE building = Idle /\ building' = Len(rows) /\ UNCHANGED call
    /\ UNCHANGED <<account, rows, links, linking, guard, used>>

\* Mutant: the set's age counts from the end of the build.
BuiltFromEnd(n) ==
    [lids |-> LidLocalParts(n), known |-> TRUE, base |-> Len(rows),
     fresh |-> TRUE, recent |-> TRUE, there |-> TRUE, build |-> guard.build + 1]

\* build(): its age counts from its start, so that what came meanwhile is asked for.
Built(n) ==
    [lids |-> LidLocalParts(n), known |-> TRUE, base |-> building,
     fresh |-> TRUE, recent |-> TRUE, there |-> TRUE, build |-> guard.build + 1]

\* A stale set is kept rather than none.
BuildFailed ==
    IF guard.there THEN [guard EXCEPT !.fresh = TRUE]
    ELSE [NoGuard EXCEPT !.there = TRUE, !.fresh = TRUE, !.base = building]

Build(g) ==
    /\ guard' = g /\ building' = Idle
    /\ call' = [c \in Calls |-> WithGuard(call[c], g)]

BuildReads(n) == building # Idle /\ n >= building /\ Build(Built(n))
                    /\ UNCHANGED <<account, rows, links, linking, used>>
BuildFails == building # Idle /\ Fails /\ Build(BuildFailed)
                    /\ UNCHANGED <<account, rows, links, linking>>

\* The query of the messages since the build, less a margin of a day: it finds what came
\* live since then, and may find what was there before.
Recent(c) ==
    LET it == call[c]
        Names(i) == it.ask.jid \in rows[i].names
        since == \E i \in it.guard.base + 1..Len(rows) : Names(i) /\ rows[i].live
        before == \E i \in 1..Len(rows) : Names(i) /\ rows[i].live
    IN  /\ At(c, "recent")
        /\ \/ /\ before
              /\ call' = [call EXCEPT ![c].pc = "end"]
              /\ guard' = IF it.guard.known /\ guard.build = it.guard.build
                          THEN [guard EXCEPT !.lids = @ \cup {it.ask.jid}] ELSE guard
           \/ ~since /\ call' = [call EXCEPT ![c].pc = "allowed"] /\ UNCHANGED guard
        /\ UNCHANGED <<account, rows, links, linking, building, used>>

\* It cannot look, and sends unchecked.
RecentFails(c) ==
    /\ At(c, "recent") /\ Fails
    /\ call' = [call EXCEPT ![c].pc = "allowed", ![c].blind = TRUE]
    /\ UNCHANGED <<account, rows, links, linking, guard, building>>

-----------------------------------------------------------------------------
\* What Evolution sends to: a jid as it is, or the other id of the person when its own
\* cache knows it; digits as a phone number.
Resolved(ask) ==
    IF ask.do = "digits" THEN {IF ask.jid \in Lids THEN Stranger ELSE ask.jid}
    ELSE {ask.jid} \cup Partner(ShapeLinks(Len(rows)), ask.jid)

\* assertNumberAllowed(), and the send. The whole account in scope is not looked up, and a
\* lookup that fails refuses. The links are read for the refusal of a chat in scope.
Sends(c, jid) == Ends(c, [Nothing EXCEPT !.to = jid])
Refuses(c, jid) ==
    IF jid # call[c].ask.jid /\ InScope(call[c].ask.jid) /\ call[c].ask.do = "send"
    THEN call' = [call EXCEPT ![c].pc = "links"] ELSE Ends(c, Nothing)
Allowed(c) ==
    /\ At(c, "allowed")
    /\ IF Chats \subseteq account.scope
       THEN \E jid \in Resolved(call[c].ask) : Sends(c, jid)
       ELSE \/ Ends(c, Nothing)
            \/ \E jid \in Resolved(call[c].ask) : IF InScope(jid) THEN Sends(c, jid) ELSE Refuses(c, jid)
    /\ UNCHANGED <<account, rows, links, linking, guard, building, used>>

-----------------------------------------------------------------------------
\* Evolution stores a message.
Store(m) ==
    /\ Len(rows) < MaxRows /\ \A i \in DOMAIN rows : rows[i] # m
    /\ rows' = Append(rows, m)
    /\ UNCHANGED <<account, links, linking, guard, building, call, used>>

\* Half an hour, or ten minutes, or half a minute.
Expire ==
    /\ used.expiries < account.expiries /\ used' = [used EXCEPT !.expiries = @ + 1]
    /\ \/ links.fresh /\ links' = [links EXCEPT !.fresh = FALSE] /\ UNCHANGED guard
       \/ guard.fresh /\ guard' = [guard EXCEPT !.fresh = FALSE, !.recent = FALSE] /\ UNCHANGED links
       \/ guard.recent /\ guard' = [guard EXCEPT !.recent = FALSE] /\ UNCHANGED links
    /\ UNCHANGED <<account, rows, linking, building, call>>

Next ==
    \/ \E c \in Calls : (\E ask \in account.asks : Start(c, ask)) \/ Links(c) \/ ListRows(c)
                            \/ KnownLids(c) \/ Recent(c) \/ RecentFails(c) \/ Allowed(c)
    \/ \E n \in 0..Len(rows) : LinksRead(n) \/ BuildReads(n)
    \/ LinksFail \/ BuildFails \/ Expire
    \/ \E m \in account.messages : Store(m)

Spec == Init /\ [][Next]_vars

-----------------------------------------------------------------------------
TypeOK ==
    /\ account \in Worlds
    /\ account.scope \subseteq Chats /\ account.messages \subseteq Messages /\ account.asks \subseteq Asks
    /\ \A i \in DOMAIN rows : rows[i] \in account.messages
    /\ links.pairs \subseteq Lids \X Phones /\ linking \in 0..Idle
    /\ guard.lids \subseteq Lids /\ guard.base \in 0..MaxRows /\ building \in 0..Idle
    /\ \A c \in Calls : call[c].ask \in Asks /\ call[c].answer.jids \subseteq Chats

\* What a token is shown is of chats in its scope: the ids of a row, the chat of the message
\* it previews, and a phone number only beside a LID in scope whose own messages revealed
\* it -- although the listing was folded by one reading of the links and named by another
\* (filterChatsToScope(), mcp-scope.ts:226-273).
ShownIsInScope ==
    \A c \in Calls : \A row \in call[c].answer.shown :
        /\ row.jid \in row.jids /\ row.jids \subseteq account.scope
        /\ row.newest \in account.scope \cup {None}
        /\ \A p \in row.phone : \E m \in First(Len(rows)) : m.chat = row.jid /\ m.alt = p /\ InScope(m.chat)

\* The surfaces agree on who is one person, by the links they share: reading the id a
\* listing shows covers what the listing folded into it and leaves out as much (more, when
\* the other chat has no messages and is not listed), and a search labels each message
\* with the id under which the listing has its chat
\* (whatsapp-identity.ts: "within a snapshot they all agree on who is linked").
SurfacesAgree ==
    LET listed == FilterChats(Named(links, Activity(links, Len(rows))))
        stored == {m.chat : m \in First(Len(rows))}
    IN  \A row \in listed :
            /\ Expand(links, row.jid).jids \cap stored = row.jids \cap stored
            /\ row.hidden > 0 => Expand(links, row.jid).hidden = row.hidden
            /\ \A j \in row.jids : Display(links, j) = row.jid

\* A read that does not say there may be more has covered every chat the person had when
\* the links were read (linkStatus()).
SilenceIsWhole ==
    \A c \in Calls : LET it == call[c] IN
        it.ask.do = "read" /\ it.answer.jids # {} /\ ~it.answer.note /\ it.ask.jid # Group =>
            \A i, k \in 1..it.links.seen :
                rows[i].chat = it.ask.jid /\ rows[k].chat \in account.same[it.ask.jid] => rows[k].chat \in it.answer.jids

\* Digits that a message stored before the send named as a LID are not sent to, unless no
\* lookup answered, or the message is exempt: stored since the set was built, and either
\* imported with an old timestamp or so soon that the recent check was skipped
\* (assertNotBareLid()).
AliasIsRefused ==
    \A c \in Calls : LET it == call[c] IN
        it.answer.to = Stranger /\ ~it.blind =>
            \A i \in 1..it.began : it.ask.jid \in rows[i].names =>
                IF i > it.guard.base THEN ~rows[i].live \/ it.guard.recent ELSE ~it.guard.known

\* What a scoped token sends is sent to a chat in its scope, as Evolution resolves it, when
\* Evolution knows the person by their other id (assertNumberAllowed()).
SentIsInScope ==
    \A c \in Calls : call[c].answer.to # None => Chats \subseteq account.scope \/ InScope(call[c].answer.to)

\* The five together: what a token's calls show, read, label and send to is what its scope
\* and the account's links say, whatever they were read between.
ScopeIsKept == ShownIsInScope /\ SurfacesAgree /\ SilenceIsWhole /\ AliasIsRefused /\ SentIsInScope
=============================================================================

----------------------------- MODULE BridgeSync -----------------------------
(***************************************************************************)
(* apps/telegram-bridge/src/sync: keeping one channel of a Telegram        *)
(* session in Postgres.                                                    *)
(*                                                                         *)
(* A SessionSync belongs to one connection (a generation).  Three tasks of *)
(* it write concurrently: "worker" applies pushed updates in arrival       *)
(* order, "main" catches the channel up and reads the dialog list,         *)
(* "back" fetches older history.  Every fetch and every statement is an    *)
(* await, and what was fetched may be stale when it is stored.  stop() is  *)
(* only a flag: a task under way stores what it has fetched.               *)
(*                                                                         *)
(* Telegram's side is a log of events; the length of the log is the        *)
(* channel's pts.  An edit stores its message like a new one does.         *)
(***************************************************************************)
EXTENDS Integers, Sequences, FiniteSets, FiniteSetsExt

CONSTANTS
    Channels,     \* the kinds of channel there are: [pushed, unsteady]
    Overlap,      \* whether a stopped connection may still be storing when the next connects
    MaxEvents,    \* bound: events of the channel
    MaxGens,      \* bound: connections, one after the other
    MaxWipes,     \* bound: logouts
    PageSize,     \* PAGE
    MaxForward,   \* MAX_FORWARD_PAGES
    MaxRounds,    \* MAX_CHANNEL_DIFFERENCE_ROUNDS
    MaxPerChat    \* backfill.maxPerChat

\* What the proofs take for granted of them; MCBridge has TLC check it.
SyncAssumption ==
    /\ Channels \subseteq [pushed : BOOLEAN, unsteady : BOOLEAN] /\ Overlap \in BOOLEAN
    /\ {MaxEvents, MaxGens, MaxWipes, MaxRounds, MaxPerChat} \subseteq Nat
    /\ {PageSize, MaxForward} \subseteq Nat \ {0}

Ids == 1 .. MaxEvents
Gens == 1 .. MaxGens
Null == 0    \* no pts, no cursor, no message

VARIABLES
    channel,  \* its kind: whether Telegram pushes its updates, and whether Telegram may
              \* reject a pts, hide the channel or push too much
    log,      \* the channel's events on Telegram: [kind, id]
    msgs,     \* messages stored with their text
    tomb,     \* messages stored as deleted
    chat,     \* the row of chats: [known, pts, gap, cursor, count, stopped]
    sync,     \* sync[g]: [on, queue, worker, main, back]
    gen,      \* the connection that is, or was last, the session's
    seen      \* what the properties refer back to: [wipes, base, first]

syncVars == <<channel, log, msgs, tomb, chat, sync, gen, seen>>

SyncTasks == {"worker", "main", "back"}
NoChat == [known |-> FALSE, pts |-> Null, gap |-> FALSE, cursor |-> Null, count |-> 0, stopped |-> FALSE]
Off == [pc |-> "off", pts |-> Null, page |-> {}, dels |-> {}, final |-> FALSE,
        max |-> Null, offset |-> Null, round |-> 0, then |-> "off"]
NewSync == [on |-> FALSE, queue |-> <<>>, worker |-> Off, main |-> Off, back |-> Off]

SyncInit ==
    /\ channel \in Channels
    /\ log = <<>> /\ msgs = {} /\ tomb = {} /\ chat = NoChat
    /\ sync = [g \in Gens |-> NewSync]
    /\ gen = 0
    /\ seen = [wipes |-> 0, base |-> Null, first |-> Null]

-----------------------------------------------------------------------------
\* Telegram.

Pts == Len(log)
Connected == gen # 0 /\ sync[gen].on
IdsOf(kind, from, to) == {log[i].id : i \in {j \in from .. to : log[j].kind = kind}}
Existing == IdsOf("new", 1, Pts) \ IdsOf("delete", 1, Pts)
Newest(S) == IF S = {} THEN Null ELSE Max(S)

\* The newest PageSize messages of S.
Page(S) == {m \in S : Cardinality({n \in S : n > m}) < PageSize}

\* Telegram pushes the updates of a channel to a connection, or says that there
\* are too many; or it pushes none of this channel (large ones, when nobody polls).
Event(kind, id) ==
    /\ Pts < MaxEvents
    /\ log' = Append(log, [kind |-> kind, id |-> id])
    /\ IF channel.pushed /\ Connected
       THEN \E what \in {kind} \union (IF channel.unsteady THEN {"long"} ELSE {}) :
               sync' = [sync EXCEPT ![gen].queue = Append(@, [kind |-> what, id |-> id, pts |-> Pts'])]
       ELSE UNCHANGED sync
    /\ UNCHANGED <<channel, msgs, tomb, chat, gen, seen>>

NewMessage == Event("new", Cardinality(IdsOf("new", 1, Pts)) + 1)
DeleteMessage(m) == m \in Existing /\ Event("delete", m)

-----------------------------------------------------------------------------
\* store.ts

\* Mutant: the upsert is not conditional on deleted_at.
UpsertAnyway(ids) == msgs' = msgs \union ids /\ UNCHANGED tomb

\* A tombstone is not overwritten.
UpsertMessages(ids) == msgs' = msgs \union (ids \ tomb) /\ UNCHANGED tomb

EnsureChats(ids) == chat' = IF ids = {} THEN chat ELSE [chat EXCEPT !.known = TRUE]

\* saveMessages()
Save(ids) == EnsureChats(ids) /\ UpsertMessages(ids)

\* tombstoneInChat(): rows that are not stored are not touched.
Tombstone(ids) == msgs' = msgs \ ids /\ tomb' = tomb \union (ids \intersect msgs)

\* setChannelPts(): exact, or forward only.  Without the row nothing happens.
SetPts(n) == chat' = IF chat.known THEN [chat EXCEPT !.pts = n] ELSE chat
MovePts(n) == chat' = IF chat.known /\ n > chat.pts THEN [chat EXCEPT !.pts = n] ELSE chat
SetGap == chat' = IF chat.known THEN [chat EXCEPT !.gap = TRUE] ELSE chat

MaxMessageId == Newest(msgs \union tomb)

-----------------------------------------------------------------------------
\* Tasks.

At(g, t, pc) == sync[g][t].pc = pc
Set(g, t, r) == sync' = [sync EXCEPT ![g][t] = r]
Goto(g, t, pc) == sync' = [sync EXCEPT ![g][t].pc = pc]

\* catchUpChannel and fillForward return to whoever called them.
Leave(g, t) == Set(g, t, [Off EXCEPT !.pc = sync[g][t].then])

World == <<channel, log, gen>>
Rows == <<msgs, tomb, chat>>

-----------------------------------------------------------------------------
\* catchUpChannel(), called by start() and, for UpdateChannelTooLong, by apply().

Enter(pts, then) == [Off EXCEPT !.pc = IF chat.known /\ pts # Null THEN "diff" ELSE then,
                               !.pts = pts, !.then = then]

ReadChannels(g) ==
    /\ At(g, "main", "start")
    /\ Set(g, "main", IF sync[g].on THEN Enter(chat.pts, "dialog") ELSE Off)
    /\ UNCHANGED <<World, Rows, seen>>

\* GetChannelDifference answers nothing new, a slice, or that it is too long.
DiffFetch(g, t) ==
    /\ At(g, t, "diff")
    /\ LET me == sync[g][t]
       IN  IF ~sync[g].on \/ me.round = MaxRounds THEN Leave(g, t)
           ELSE \/ me.pts = Pts /\ Set(g, t, [me EXCEPT !.pc = "diff_pts", !.final = TRUE])
                \/ \E n \in me.pts + 1 .. Pts :
                      /\ n - me.pts <= PageSize
                      /\ Set(g, t, [me EXCEPT !.pc = "diff_save", !.pts = n, !.final = (n = Pts),
                               !.page = IdsOf("new", me.pts + 1, n) \ IdsOf("delete", me.pts + 1, n),
                               !.dels = IdsOf("delete", me.pts + 1, n)])
                \/ /\ Pts > me.pts + 1
                   /\ Set(g, t, [me EXCEPT !.pc = "long_max", !.pts = Pts, !.page = Page(Existing)])
    /\ UNCHANGED <<World, Rows, seen>>

DiffRejected(g, t) ==
    /\ At(g, t, "diff") /\ channel.unsteady /\ sync[g].on
    /\ SetPts(Null)
    /\ Leave(g, t)
    /\ UNCHANGED <<World, msgs, tomb, seen>>

\* Any request may fail; guard() goes on with what comes next.
RequestFails(g, t) ==
    /\ \E pc \in {"diff", "dialog", "fill"} : At(g, t, pc)
    /\ sync[g].on
    /\ Set(g, t, [Off EXCEPT !.pc = IF At(g, t, "dialog") THEN "ready" ELSE sync[g][t].then])
    /\ UNCHANGED <<World, Rows, seen>>

DiffSave(g, t) ==
    /\ At(g, t, "diff_save")
    /\ Save(sync[g][t].page)
    /\ Goto(g, t, "diff_delete")
    /\ UNCHANGED <<World, seen>>

\* apply() of the other updates does nothing once stopped; a deletion carries
\* the pts it had on Telegram.
DiffDelete(g, t) ==
    /\ At(g, t, "diff_delete")
    /\ LET dels == sync[g][t].dels
       IN  IF sync[g].on /\ dels # {}
           THEN /\ Tombstone(dels)
                /\ MovePts(Max({i \in 1 .. Pts : log[i].kind = "delete" /\ log[i].id \in dels}))
           ELSE UNCHANGED Rows
    /\ Goto(g, t, "diff_pts")
    /\ UNCHANGED <<World, seen>>

DiffPts(g, t) ==
    /\ At(g, t, "diff_pts")
    /\ SetPts(sync[g][t].pts)
    /\ IF sync[g][t].final THEN Leave(g, t)
       ELSE Set(g, t, [sync[g][t] EXCEPT !.pc = "diff", !.round = @ + 1])
    /\ UNCHANGED <<World, msgs, tomb, seen>>

LongMax(g, t) ==
    /\ At(g, t, "long_max")
    /\ Set(g, t, [sync[g][t] EXCEPT !.pc = "long_save", !.max = MaxMessageId])
    /\ UNCHANGED <<World, Rows, seen>>

LongSave(g, t) ==
    /\ At(g, t, "long_save")
    /\ Save(sync[g][t].page)
    /\ Goto(g, t, "long_gap")
    /\ UNCHANGED <<World, seen>>

\* Mutant: the gap is noted by the forward fill only.
LongGapForgotten(g, t) ==
    /\ At(g, t, "long_gap")
    /\ Goto(g, t, "long_pts")
    /\ UNCHANGED <<World, Rows, seen>>

\* What lies between is unknown: recorded before the pts moves past it.
LongGap(g, t) ==
    /\ At(g, t, "long_gap")
    /\ SetGap
    /\ Goto(g, t, "long_pts")
    /\ UNCHANGED <<World, msgs, tomb, seen>>

LongPts(g, t) ==
    /\ At(g, t, "long_pts")
    /\ SetPts(sync[g][t].pts)
    /\ IF sync[g][t].max = Null THEN Leave(g, t)
       ELSE Set(g, t, [sync[g][t] EXCEPT !.pc = "fill", !.offset = Null, !.round = 0])
    /\ UNCHANGED <<World, msgs, tomb, seen>>

-----------------------------------------------------------------------------
\* fillForward(chatId, minId): messages newer than `max`, newest first.

FillFetch(g, t) ==
    /\ At(g, t, "fill")
    /\ LET me == sync[g][t]
           newer == {m \in Existing : m > me.max /\ (me.offset = Null \/ m < me.offset)}
       IN  IF sync[g].on THEN Set(g, t, [me EXCEPT !.pc = "fill_save", !.page = Page(newer)])
                         ELSE Leave(g, t)
    /\ UNCHANGED <<World, Rows, seen>>

FillSave(g, t) ==
    /\ At(g, t, "fill_save")
    /\ Save(sync[g][t].page)
    /\ LET me == sync[g][t]
           met == Cardinality(me.page) < PageSize \/ Min(me.page) <= me.max + 1
       IN  IF met THEN Leave(g, t)
           ELSE Set(g, t, [me EXCEPT !.pc = IF me.round + 1 = MaxForward THEN "fill_gap" ELSE "fill",
                                     !.offset = Min(me.page), !.round = @ + 1])
    /\ UNCHANGED <<World, seen>>

FillGap(g, t) ==
    /\ At(g, t, "fill_gap")
    /\ SetGap
    /\ Leave(g, t)
    /\ UNCHANGED <<World, msgs, tomb, seen>>

-----------------------------------------------------------------------------
\* syncDialogs(), on connect and by reconcile().

DialogFetch(g) ==
    /\ At(g, "main", "dialog")
    /\ IF sync[g].on /\ Existing # {}
       THEN Set(g, "main", [Off EXCEPT !.pc = "dialog_max", !.page = {Max(Existing)}, !.pts = Pts, !.then = "ready"])
       ELSE Goto(g, "main", "ready")
    /\ UNCHANGED <<World, Rows, seen>>

DialogMax(g) ==
    /\ At(g, "main", "dialog_max")
    /\ Set(g, "main", [sync[g].main EXCEPT !.pc = "dialog_row", !.max = MaxMessageId])
    /\ UNCHANGED <<World, Rows, seen>>

\* updateDialog(): the pts of the dialog only where there is none.
DialogRow(g) ==
    /\ At(g, "main", "dialog_row")
    /\ chat' = [chat EXCEPT !.known = TRUE, !.pts = IF @ = Null THEN sync[g].main.pts ELSE @]
    /\ seen' = IF chat.pts = Null /\ seen.base = Null THEN [seen EXCEPT !.base = sync[g].main.pts] ELSE seen
    /\ Goto(g, "main", "dialog_save")
    /\ UNCHANGED <<World, msgs, tomb>>

DialogSave(g) ==
    /\ At(g, "main", "dialog_save")
    /\ LET me == sync[g].main
       IN  /\ Save(me.page)
           /\ IF me.max # Null /\ Max(me.page) > me.max THEN Set(g, "main", [me EXCEPT !.pc = "fill"])
                                                      ELSE Goto(g, "main", "ready")
    /\ UNCHANGED <<World, seen>>

\* start() is done, or reconcile() is; either starts the backfill.
Ready(g) ==
    /\ At(g, "main", "ready")
    /\ sync' = IF sync[g].on
               THEN [sync EXCEPT ![g].main.pc = "waiting",
                                 ![g].back.pc = IF @ = "off" THEN "next" ELSE @]
               ELSE [sync EXCEPT ![g].main = Off]
    /\ UNCHANGED <<World, Rows, seen>>

Reconcile(g) ==
    /\ At(g, "main", "waiting")
    /\ Set(g, "main", IF sync[g].on THEN [Off EXCEPT !.pc = "dialog"] ELSE Off)
    /\ UNCHANGED <<World, Rows, seen>>

-----------------------------------------------------------------------------
\* runBackfill() and backfillPage().

BackNext(g) ==
    /\ At(g, "back", "next")
    /\ Set(g, "back", IF sync[g].on /\ chat.known /\ ~chat.stopped
                      THEN [Off EXCEPT !.pc = "page", !.offset = chat.cursor, !.round = chat.count]
                      ELSE Off)
    /\ UNCHANGED <<World, Rows, seen>>

\* A failed request is tried again; a chat that cannot be read any more is not.
BackFetch(g) ==
    /\ At(g, "back", "page")
    /\ LET me == sync[g].back
           older == {m \in Existing : me.offset = Null \/ m < me.offset}
       IN  IF me.round >= MaxPerChat
           THEN /\ chat' = IF chat.known THEN [chat EXCEPT !.stopped = TRUE] ELSE chat
                /\ Goto(g, "back", "next")
           ELSE \/ /\ sync[g].on
                   /\ Set(g, "back", [me EXCEPT !.pc = "page_save", !.page = Page(older)])
                   /\ UNCHANGED chat
                \/ Goto(g, "back", "next") /\ UNCHANGED chat
                \/ /\ channel.unsteady /\ sync[g].on
                   /\ chat' = IF chat.known THEN [chat EXCEPT !.stopped = TRUE] ELSE chat
                   /\ Goto(g, "back", "next")
    /\ UNCHANGED <<World, msgs, tomb, seen>>

\* Mutant: the cursor is recorded before the page is stored.
BackSaveLater(g) ==
    /\ At(g, "back", "page_save")
    /\ Goto(g, "back", "page_record")
    /\ UNCHANGED <<World, Rows, seen>>

BackSave(g) ==
    /\ At(g, "back", "page_save")
    /\ Save(sync[g].back.page)
    /\ Goto(g, "back", "page_record")
    /\ UNCHANGED <<World, seen>>

\* recordBackfill(): past the first message, old enough, or enough of them.
BackRecord(g) ==
    /\ At(g, "back", "page_record")
    /\ LET me == sync[g].back
           count == me.round + Cardinality(me.page)
       IN  \E old \in BOOLEAN :
              /\ chat' = IF chat.known
                         THEN [chat EXCEPT
                                  !.cursor = IF me.page = {} THEN @ ELSE Min(me.page),
                                  !.count = @ + Cardinality(me.page),
                                  !.stopped = me.page = {} \/ old \/ count >= MaxPerChat]
                         ELSE chat
              /\ seen' = IF chat.known /\ chat.cursor = Null
                         THEN [seen EXCEPT !.first = Newest(me.page)] ELSE seen
    /\ Goto(g, "back", "next")
    /\ UNCHANGED <<World, msgs, tomb>>

-----------------------------------------------------------------------------
\* apply(), one update after the other.

Take(g) ==
    /\ At(g, "worker", "off") /\ sync[g].queue # <<>>
    /\ LET e == Head(sync[g].queue)
           me == [Off EXCEPT !.page = {e.id}, !.pts = e.pts]
       IN  sync' = [sync EXCEPT ![g].queue = Tail(@),
               ![g].worker = IF ~sync[g].on THEN Off ELSE
                   CASE e.kind = "new"    -> [me EXCEPT !.pc = "live_save"]
                     [] e.kind = "delete" -> [me EXCEPT !.pc = "live_delete"]
                     [] e.kind = "long"   -> Enter(chat.pts, "off")]
    /\ UNCHANGED <<World, Rows, seen>>

LiveSave(g) ==
    /\ At(g, "worker", "live_save")
    /\ Save(sync[g].worker.page)
    /\ Goto(g, "worker", "live_pts")
    /\ UNCHANGED <<World, seen>>

LiveDelete(g) ==
    /\ At(g, "worker", "live_delete")
    /\ Tombstone(sync[g].worker.page)
    /\ Goto(g, "worker", "live_pts")
    /\ UNCHANGED <<World, chat, seen>>

LivePts(g) ==
    /\ At(g, "worker", "live_pts")
    /\ MovePts(sync[g].worker.pts)
    /\ seen' = IF chat.known /\ chat.pts = Null /\ seen.base = Null
               THEN [seen EXCEPT !.base = sync[g].worker.pts] ELSE seen
    /\ Set(g, "worker", Off)
    /\ UNCHANGED <<World, msgs, tomb>>

-----------------------------------------------------------------------------
\* Connections.

Connect ==
    /\ gen < MaxGens /\ ~Connected
    /\ Overlap \/ \A g \in Gens, t \in SyncTasks : At(g, t, "off")
    /\ gen' = gen + 1
    /\ sync' = [sync EXCEPT ![gen'].on = TRUE, ![gen'].main = [Off EXCEPT !.pc = "start"]]
    /\ UNCHANGED <<channel, log, Rows, seen>>

\* stop(): disposed of, or logged out.
Stop ==
    /\ Connected
    /\ sync' = [sync EXCEPT ![gen].on = FALSE]
    /\ UNCHANGED <<World, Rows, seen>>

\* The process ends: nothing of the connection is left.
Crash ==
    /\ Connected
    /\ sync' = [sync EXCEPT ![gen] = NewSync]
    /\ UNCHANGED <<World, Rows, seen>>

\* wipe(), after the logout stopped the connection.
Wipe ==
    /\ gen # 0 /\ ~sync[gen].on /\ seen.wipes < MaxWipes
    /\ msgs' = {} /\ tomb' = {} /\ chat' = NoChat
    /\ seen' = [wipes |-> seen.wipes + 1, base |-> Null, first |-> Null]
    /\ UNCHANGED <<channel, log, gen, sync>>

-----------------------------------------------------------------------------
CatchUp(g, t) ==
    \/ DiffFetch(g, t) \/ DiffRejected(g, t) \/ RequestFails(g, t)
    \/ DiffSave(g, t) \/ DiffDelete(g, t) \/ DiffPts(g, t)
    \/ LongMax(g, t) \/ LongSave(g, t) \/ LongGap(g, t) \/ LongPts(g, t)
    \/ FillFetch(g, t) \/ FillSave(g, t) \/ FillGap(g, t)

Dialogs(g) ==
    \/ ReadChannels(g) \/ DialogFetch(g) \/ DialogMax(g) \/ DialogRow(g) \/ DialogSave(g)
    \/ Ready(g) \/ Reconcile(g)

Backfill(g) == BackNext(g) \/ BackFetch(g) \/ BackSave(g) \/ BackRecord(g)

Live(g) == Take(g) \/ LiveSave(g) \/ LiveDelete(g) \/ LivePts(g)

SyncNext ==
    \/ NewMessage \/ \E m \in Ids : DeleteMessage(m)
    \/ \E g \in Gens : \/ \E t \in {"main", "worker"} : CatchUp(g, t)
                       \/ Dialogs(g) \/ Backfill(g) \/ Live(g)
    \/ Connect \/ Stop \/ Crash \/ Wipe

SyncSpec == SyncInit /\ [][SyncNext]_syncVars

-----------------------------------------------------------------------------
\* The shape of the state; a message is stored with its text or as deleted.
SyncTypeOK ==
    /\ channel \in Channels
    /\ log \in Seq([kind : {"new", "delete"}, id : Ids]) /\ Pts <= MaxEvents
    /\ msgs \subseteq Ids /\ tomb \subseteq Ids /\ msgs \intersect tomb = {}
    /\ chat \in [known : BOOLEAN, pts : 0 .. MaxEvents, gap : BOOLEAN, cursor : 0 .. MaxEvents,
                 count : Nat, stopped : BOOLEAN]
    /\ gen \in 0 .. MaxGens
    /\ \A g \in Gens, t \in SyncTasks : sync[g][t].page \subseteq Ids /\ sync[g][t].pts \in 0 .. MaxEvents

\* "A tombstone is never resurrected" (store.ts:13): whichever of the three tasks,
\* of this connection or of one that was stopped, stores the message again.
TombstonesStay == [][seen'.wipes > seen.wipes \/ (tomb \subseteq tomb' /\ msgs' \intersect tomb = {})]_syncVars

\* "What cannot be recovered is recorded, not hidden" (syncer.ts:27-28): up to the
\* pts that is stored, a message that came since the channel is tracked and was
\* not deleted is stored, or the channel has a gap.
MissedIsRecorded ==
    chat.pts # Null /\ ~chat.gap /\ seen.base # Null =>
        IdsOf("new", seen.base + 1, chat.pts) \ IdsOf("delete", 1, Pts) \subseteq msgs \union tomb

\* The same of a channel whose updates come by catch-up only, which is what the
\* code keeps: the difference, the dialogs and the backfill interleave.
QuietMissedIsRecorded == ~channel.pushed => MissedIsRecorded

\* The history below the first page backfill stored has no hole above the cursor:
\* a page is stored before the cursor moves past it, whatever fails or ends in
\* between (syncer.ts:379-397).  After a logout it may: a page fetched before the
\* wipe is stored after it.
BackfillLeavesNoHole ==
    chat.cursor # Null /\ seen.wipes = 0 => {m \in Existing : chat.cursor <= m /\ m <= seen.first} \subseteq msgs \union tomb

\* Both: what was missed and what is not fetched yet is where it will be looked for.
NothingIsForgotten == QuietMissedIsRecorded /\ BackfillLeavesNoHole
=============================================================================

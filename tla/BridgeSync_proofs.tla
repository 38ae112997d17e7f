-------------------------- MODULE BridgeSync_proofs --------------------------
(* Proofs of what BridgeSync keeps of one channel, for any number of events,  *)
(* connections, logouts and rounds, and any size of a page.                   *)
EXTENDS MCBridge, SessionLocks_proofs, FiniteSetTheorems, TLAPS

-----------------------------------------------------------------------------
(* The invariants. *)

Events == [kind : {"new", "delete"}, id : Ids]
Pushes == [kind : {"new", "delete", "long"}, id : Ids, pts : 0 .. MaxEvents]
MainPcs ==
    {"off", "start", "diff", "diff_save", "diff_delete", "diff_pts", "long_max", "long_save", "long_gap", "long_pts",
     "fill", "fill_save", "fill_gap", "dialog", "dialog_max", "dialog_row", "dialog_save", "ready", "waiting"}
BackPcs == {"off", "next", "page", "page_save", "page_record"}
WorkerPcs == MainPcs \union {"live_save", "live_delete", "live_pts"}
TaskStates ==
    [pc : WorkerPcs \union BackPcs, pts : 0 .. MaxEvents, page : SUBSET Ids, dels : SUBSET Ids, final : BOOLEAN,
     max : 0 .. MaxEvents, offset : 0 .. MaxEvents, round : Nat, then : {"off", "dialog", "ready"}]
Syncs == [on : BOOLEAN, queue : Seq(Pushes), worker : TaskStates, main : TaskStates, back : TaskStates]

\* What SyncTypeOK leaves open: the connections and their tasks, and what is referred back to.
\* What is assumed of the constants is carried along.
TypeInv ==
    /\ SyncAssumption
    /\ SyncTypeOK
    /\ sync \in [Gens -> Syncs]
    /\ \A g \in Gens : sync[g].main.pc \in MainPcs /\ sync[g].back.pc \in BackPcs /\ sync[g].worker.pc \in WorkerPcs
    /\ seen \in [wipes : 0 .. MaxWipes, base : 0 .. MaxEvents, first : 0 .. MaxEvents]

Numbers == IdsOf("new", 1, Pts)
Deletions == IdsOf("delete", 1, Pts)

\* Messages are numbered as they come, and deleted once; a deletion that was fetched is one
\* of the channel's.
LogInv ==
    /\ \E n \in 0 .. Pts : Numbers = 1 .. n
    /\ \A i, j \in 1 .. Pts : log[i].kind = "delete" /\ log[j].kind = "delete" /\ log[i].id = log[j].id => i = j
    /\ \A g \in Gens, t \in SyncTasks : sync[g][t].dels \subseteq Deletions

\* One connection is at work.
OneAtWork == \A g \in Gens \ {gen} : ~sync[g].on /\ \A t \in SyncTasks : At(g, t, "off")

\* A backfill at work goes on from the cursor; a page it has fetched is all there is from its
\* first message up to the cursor, or up to its last message, and is stored before it is recorded.
Fetched == {"page_save", "page_record"}
Filling(me) ==
    /\ me.pc \in Fetched \union {"page"} =>
         /\ me.offset # Null => me.offset \in Numbers
         /\ seen.wipes = 0 => chat.known /\ me.offset = chat.cursor
    /\ me.pc \in Fetched =>
         /\ me.page \subseteq Numbers
         /\ \A x \in me.page, m \in Existing :
              x <= m /\ (IF me.offset = Null THEN \E y \in me.page : m <= y ELSE m < me.offset) => m \in me.page
    /\ me.pc = "page_record" /\ seen.wipes = 0 => me.page \subseteq msgs \union tomb

HoleInv ==
    /\ BackfillLeavesNoHole
    /\ {chat.cursor, seen.first} \ {Null} \subseteq Numbers
    /\ \A g \in Gens : Filling(sync[g].back)

\* What came in the events behind `from` and up to `to` is among ids, or was deleted.
Within(ids, from, to) == \A i \in from + 1 .. to : log[i].kind = "new" => log[i].id \in ids \union Deletions
KeptWithin(from, to) == Within(msgs \union tomb, from, to)

Differing == {"diff", "diff_save", "diff_delete", "diff_pts"}
Long == {"long_max", "long_save", "long_gap", "long_pts"}

\* A task that follows the channel: where there is no gap, what the difference it applies
\* brings, beyond the pts that is stored.
Follows(me) ==
    /\ me.pc \in Differing \union Long \union {"dialog_max", "dialog_row"} => me.pts # Null /\ me.pts <= Pts
    /\ me.pc = "long_pts" /\ seen.base # Null => chat.gap
    /\ seen.base # Null /\ ~chat.gap =>
         /\ me.pc \in Differing => chat.pts <= me.pts
         /\ me.pc = "diff" => me.pts = chat.pts
         /\ me.pc = "diff_save" => Within(me.page, chat.pts, me.pts)
         /\ me.pc \in {"diff_save", "diff_delete"} =>
              \A i \in 1 .. Pts : log[i].kind = "delete" /\ log[i].id \in me.dels => i <= me.pts
         /\ me.pc \in {"diff_delete", "diff_pts"} => KeptWithin(chat.pts, me.pts)

\* Of a channel that is tracked and has no gap: all that came is stored up to its pts.
Tracked ==
    /\ chat.pts <= Pts
    /\ seen.base # Null => chat.known /\ chat.pts # Null
    /\ seen.base # Null /\ ~chat.gap => KeptWithin(seen.base, chat.pts)

TrackInv ==
    /\ \A g \in Gens : sync[g].worker.pc = "off" /\ sync[g].queue = <<>>
    /\ Tracked
    /\ \A g \in Gens : Follows(sync[g].main)

\* A channel of which nothing is pushed.
QuietInv == ~channel.pushed => TrackInv

-----------------------------------------------------------------------------
(* Numbers. *)

\* A nonempty set of naturals has a least element: of the sets 0..x one is minimal.
LEMMA LeastIs ==
    ASSUME NEW S \in SUBSET Nat, S # {}
    PROVE  Min(S) \in S /\ \A y \in S : Min(S) <= y
PROOF
  <1> DEFINE T == {0 .. x : x \in S}
             R == StrictSubsetOrdering(Nat)
  <1>1. T \subseteq FiniteSubsetsOf(Nat) /\ T # {}
    <2>1. \A x \in S : 0 .. x \in SUBSET Nat /\ IsFiniteSet(0 .. x)
      BY FS_Interval
    <2> QED BY <2>1 DEF FiniteSubsetsOf
  <1>2. IsWellFoundedOn(R, FiniteSubsetsOf(Nat))
    BY FS_StrictSubsetOrderingWellFounded
  <1>3. \E t \in T : \A u \in T : ~(<<u, t>> \in R)
    <2> HIDE DEF T, R
    <2> QED BY <1>1, <1>2, WFMin
  <1>4. PICK x \in S : \A y \in S : ~(<<0 .. y, 0 .. x>> \in R)
    BY <1>3
  <1>5. ASSUME NEW y \in S PROVE x <= y
    <2> SUFFICES ASSUME y < x PROVE FALSE
      OBVIOUS
    <2>1. 0 .. y \subseteq 0 .. x /\ 0 .. y # 0 .. x
      <3>1. x \in 0 .. x /\ x \notin 0 .. y
        OBVIOUS
      <3> QED BY <3>1
    <2>2. 0 .. y \in SUBSET Nat /\ 0 .. x \in SUBSET Nat /\ IsFiniteSet(0 .. y) /\ IsFiniteSet(0 .. x)
      BY FS_Interval
    <2> QED BY <1>4, <2>1, <2>2 DEF StrictSubsetOrdering
  <1> QED BY <1>5 DEF Min

\* and one that is bounded has a greatest.
LEMMA GreatestIs ==
    ASSUME NEW n \in Nat, NEW S \in SUBSET (0 .. n), S # {}
    PROVE  Max(S) \in S /\ \A y \in S : Max(S) >= y
PROOF
  <1> DEFINE T == {n - x : x \in S}
  <1>0. \A x \in S : x \in Nat /\ n - x \in Nat
    OBVIOUS
  <1>1. T \in SUBSET Nat /\ T # {}
    <2>1. \A y \in T : y \in Nat
      BY <1>0
    <2> QED BY <2>1
  <1>2. Min(T) \in T /\ \A y \in T : Min(T) <= y
    <2> HIDE DEF T
    <2> QED BY <1>1, LeastIs
  <1>3. PICK x \in S : Min(T) = n - x
    BY <1>2
  <1>4. ASSUME NEW y \in S PROVE x >= y
    <2>1. n - y \in T
      OBVIOUS
    <2>2. n - x <= n - y
      BY <1>2, <1>3, <2>1
    <2> QED BY <1>0, <2>2
  <1> QED BY <1>4 DEF Max

-----------------------------------------------------------------------------
(* Types. *)

Stored == msgs \union tomb
ChatRows ==
    [known : BOOLEAN, pts : 0 .. MaxEvents, gap : BOOLEAN, cursor : 0 .. MaxEvents, count : Nat, stopped : BOOLEAN]
PcsOf(t) == CASE t = "main" -> MainPcs [] t = "back" -> BackPcs [] t = "worker" -> WorkerPcs

\* The parts of the type.
LogOK == channel \in Channels /\ log \in Seq(Events) /\ Pts <= MaxEvents
RowsOK == msgs \subseteq Ids /\ tomb \subseteq Ids /\ msgs \intersect tomb = {} /\ chat \in ChatRows
SyncOK == sync \in [Gens -> Syncs] /\ \A g \in Gens, t \in SyncTasks : sync[g][t].pc \in PcsOf(t)
SeenOK == seen \in [wipes : 0 .. MaxWipes, base : 0 .. MaxEvents, first : 0 .. MaxEvents]
GenOK == gen \in 0 .. MaxGens

LEMMA Bounds ==
    ASSUME SyncAssumption
    PROVE  /\ MaxEvents \in Nat /\ MaxGens \in Nat /\ MaxWipes \in Nat /\ MaxRounds \in Nat /\ MaxPerChat \in Nat
           /\ PageSize \in Nat \ {0} /\ MaxForward \in Nat \ {0}
  BY DEF SyncAssumption

LEMMA TasksOf ==
    ASSUME NEW s \in Syncs, NEW t \in SyncTasks
    PROVE  s[t] \in TaskStates
  BY DEF Syncs, SyncTasks

LEMMA TypeParts == TypeInv <=> SyncAssumption /\ LogOK /\ RowsOK /\ SyncOK /\ SeenOK /\ GenOK
PROOF
  <1>1. (\A g \in Gens, t \in SyncTasks : sync[g][t].pc \in PcsOf(t)) <=>
        (\A g \in Gens : sync[g].main.pc \in MainPcs /\ sync[g].back.pc \in BackPcs /\ sync[g].worker.pc \in WorkerPcs)
    BY DEF SyncTasks, PcsOf
  <1>2. sync \in [Gens -> Syncs] =>
        \A g \in Gens, t \in SyncTasks : sync[g][t].page \subseteq Ids /\ sync[g][t].pts \in 0 .. MaxEvents
    <2> SUFFICES ASSUME sync \in [Gens -> Syncs], NEW g \in Gens, NEW t \in SyncTasks
                 PROVE  sync[g][t].page \subseteq Ids /\ sync[g][t].pts \in 0 .. MaxEvents
      OBVIOUS
    <2>1. sync[g][t] \in TaskStates
      BY TasksOf
    <2> QED BY <2>1 DEF TaskStates
  <1> QED BY <1>1, <1>2 DEF TypeInv, SyncTypeOK, LogOK, RowsOK, SyncOK, SeenOK, GenOK, Events, ChatRows

\* The same after a step.
LEMMA TypePartsNext ==
    ASSUME SyncAssumption, LogOK', RowsOK', SyncOK', SeenOK', GenOK'
    PROVE  TypeInv'
PROOF
  <1>1. \A g \in Gens : sync'[g].main.pc \in MainPcs /\ sync'[g].back.pc \in BackPcs /\ sync'[g].worker.pc \in WorkerPcs
    BY DEF SyncTasks, PcsOf, SyncOK
  <1>2. \A g \in Gens, t \in SyncTasks : sync'[g][t].page \subseteq Ids /\ sync'[g][t].pts \in 0 .. MaxEvents
    <2> SUFFICES ASSUME NEW g \in Gens, NEW t \in SyncTasks
                 PROVE  sync'[g][t].page \subseteq Ids /\ sync'[g][t].pts \in 0 .. MaxEvents
      OBVIOUS
    <2>1. sync'[g][t] \in TaskStates
      BY TasksOf DEF SyncOK
    <2> QED BY <2>1 DEF TaskStates
  <1> QED BY <1>1, <1>2 DEF TypeInv, SyncTypeOK, LogOK, RowsOK, SyncOK, SeenOK, GenOK, Events, ChatRows, SyncAssumption

LEMMA OffType ==
    ASSUME SyncAssumption
    PROVE  Off \in TaskStates /\ Off.pc = "off" /\ Off.dels = {} /\ Off.pts = Null /\ Off.then = "off"
  BY Bounds DEF Off, TaskStates, Null, WorkerPcs, MainPcs

LEMMA IdsOfType ==
    ASSUME LogOK, SyncAssumption, NEW k, NEW a \in 1 .. Pts + 1, NEW b \in 0 .. Pts
    PROVE  IdsOf(k, a, b) \subseteq Ids /\ IdsOf(k, a, b) \subseteq IdsOf(k, 1, Pts)
PROOF
  <1>1. \A i \in a .. b : i \in 1 .. Pts /\ log[i] \in Events
    BY DEF LogOK, Pts
  <1> QED BY <1>1 DEF IdsOf, Events

LEMMA SomeType ==
    ASSUME LogOK, SyncAssumption
    PROVE  Pts \in 0 .. MaxEvents /\ Existing \subseteq Numbers /\ Existing \subseteq Ids /\ Deletions \subseteq Ids
PROOF
  <1>1. Pts \in 0 .. MaxEvents
    BY Bounds DEF LogOK, Pts
  <1>2. 1 \in 1 .. Pts + 1 /\ Pts \in 0 .. Pts
    BY <1>1
  <1>3. Existing \subseteq Numbers /\ Deletions \subseteq Ids /\ Numbers \subseteq Ids
    BY <1>2, IdsOfType DEF Existing, Numbers, Deletions
  <1> QED BY <1>1, <1>3

\* The largest and the smallest of some messages.
LEMMA ExtremeType ==
    ASSUME SyncAssumption, NEW S \in SUBSET Ids
    PROVE  /\ Newest(S) \in 0 .. MaxEvents
           /\ S # {} => /\ Newest(S) \in S /\ \A y \in S : y <= Newest(S)
                        /\ Min(S) \in S /\ \A y \in S : Min(S) <= y
PROOF
  <1>1. CASE S = {}
    BY <1>1, Bounds DEF Newest, Null
  <1>2. CASE S # {}
    <2>1. S \in SUBSET Nat /\ S \in SUBSET (0 .. MaxEvents) /\ MaxEvents \in Nat
      BY Bounds DEF Ids
    <2>2. Max(S) \in S /\ \A y \in S : Max(S) >= y
      BY <1>2, <2>1, GreatestIs
    <2>3. Min(S) \in S /\ \A y \in S : Min(S) <= y
      BY <1>2, <2>1, LeastIs
    <2> QED BY <1>2, <2>1, <2>2, <2>3 DEF Newest
  <1> QED BY <1>1, <1>2

LEMMA PageType == ASSUME NEW S \in SUBSET Ids PROVE Page(S) \subseteq Ids
  BY DEF Page

LEMMA PageFinite ==
    ASSUME SyncAssumption, NEW S \in SUBSET Ids
    PROVE  IsFiniteSet(S) /\ Cardinality(S) \in Nat
PROOF
  <1>1. IsFiniteSet(Ids)
    BY Bounds, FS_Interval DEF Ids
  <1>2. IsFiniteSet(S)
    BY <1>1, FS_Subset
  <1> QED BY <1>2, FS_CardinalityType

-----------------------------------------------------------------------------
(* What the statements of store.ts do to the rows. *)

RowsGrow ==
    /\ RowsOK' /\ tomb \subseteq tomb' /\ msgs' \intersect tomb = {} /\ Stored \subseteq Stored'
    /\ chat.known => chat'.known
    /\ chat.gap => chat'.gap

LEMMA RowsSame == ASSUME RowsOK, UNCHANGED Rows PROVE RowsGrow
  BY DEF RowsOK, RowsGrow, Rows, Stored

LEMMA SaveGrows ==
    ASSUME RowsOK, NEW ids \in SUBSET Ids, Save(ids)
    PROVE  /\ RowsGrow /\ ids \subseteq Stored' /\ tomb' = tomb
           /\ chat'.pts = chat.pts /\ chat'.cursor = chat.cursor /\ chat'.gap = chat.gap
  BY DEF RowsOK, RowsGrow, ChatRows, Save, EnsureChats, UpsertMessages, Stored

LEMMA TombstoneGrows ==
    ASSUME RowsOK, NEW ids \in SUBSET Ids, Tombstone(ids), chat' \in ChatRows, chat.known => chat'.known, chat.gap => chat'.gap
    PROVE  RowsGrow
  BY DEF RowsOK, RowsGrow, Tombstone, Stored

LEMMA ChatGrows ==
    ASSUME RowsOK, UNCHANGED <<msgs, tomb>>, chat' \in ChatRows, chat.known => chat'.known, chat.gap => chat'.gap
    PROVE  RowsGrow
  BY DEF RowsOK, RowsGrow, Stored

LEMMA PtsType ==
    ASSUME RowsOK, SyncAssumption, NEW n \in 0 .. MaxEvents, SetPts(n) \/ MovePts(n)
    PROVE  /\ chat' \in ChatRows /\ chat'.known = chat.known /\ chat'.gap = chat.gap /\ chat'.cursor = chat.cursor
           /\ chat'.pts \in {chat.pts, n}
           /\ SetPts(n) /\ chat.known => chat'.pts = n
           /\ MovePts(n) => chat'.pts >= chat.pts
  BY Bounds DEF RowsOK, ChatRows, SetPts, MovePts

LEMMA GapType ==
    ASSUME RowsOK, SetGap
    PROVE  /\ chat' \in ChatRows /\ chat'.known = chat.known /\ (chat.gap => chat'.gap) /\ chat'.cursor = chat.cursor
           /\ chat'.pts = chat.pts /\ (chat.known => chat'.gap)
  BY DEF RowsOK, ChatRows, SetGap

-----------------------------------------------------------------------------
(* Tasks: what a step of one does to the tasks, and to everything. *)

Moved(g, t, r) ==
    /\ sync'[g][t] = r
    /\ \A u \in SyncTasks \ {t} : sync'[g][u] = sync[g][u]
    /\ \A h \in Gens \ {g} : sync'[h] = sync[h]
    /\ sync'[g].on = sync[g].on /\ sync'[g].queue = sync[g].queue

LEMMA SetMoves ==
    ASSUME SyncOK, NEW g \in Gens, NEW t \in SyncTasks, NEW r, Set(g, t, r)
    PROVE  Moved(g, t, r)
PROOF
  <1>1. sync[g] \in Syncs /\ sync' = [sync EXCEPT ![g] = [sync[g] EXCEPT ![t] = r]]
    BY DEF SyncOK, Set
  <1>2. sync'[g] = [sync[g] EXCEPT ![t] = r] /\ \A h \in Gens \ {g} : sync'[h] = sync[h]
    BY <1>1 DEF SyncOK
  <1>3. /\ [sync[g] EXCEPT ![t] = r][t] = r
        /\ \A u \in SyncTasks \ {t} : [sync[g] EXCEPT ![t] = r][u] = sync[g][u]
        /\ [sync[g] EXCEPT ![t] = r].on = sync[g].on /\ [sync[g] EXCEPT ![t] = r].queue = sync[g].queue
    BY <1>1 DEF Syncs, SyncTasks
  <1> QED BY <1>2, <1>3 DEF Moved

LEMMA SetType ==
    ASSUME SyncOK, NEW g \in Gens, NEW t \in SyncTasks, NEW r \in TaskStates, r.pc \in PcsOf(t), Set(g, t, r)
    PROVE  SyncOK'
PROOF
  <1>1. sync[g] \in Syncs /\ sync' = [sync EXCEPT ![g] = [sync[g] EXCEPT ![t] = r]]
    BY DEF SyncOK, Set
  <1>2. [sync[g] EXCEPT ![t] = r] \in Syncs
    BY <1>1 DEF Syncs, SyncTasks
  <1>3. sync' \in [Gens -> Syncs]
    BY <1>1, <1>2 DEF SyncOK
  <1>4. \A h \in Gens, u \in SyncTasks : sync'[h][u].pc \in PcsOf(u)
    BY SetMoves DEF SyncOK, Moved
  <1> QED BY <1>3, <1>4 DEF SyncOK

LEMMA GotoSets ==
    ASSUME SyncOK, NEW g \in Gens, NEW t \in SyncTasks, NEW pc \in PcsOf(t), Goto(g, t, pc)
    PROVE  /\ Set(g, t, [sync[g][t] EXCEPT !.pc = pc])
           /\ [sync[g][t] EXCEPT !.pc = pc] \in TaskStates
           /\ [sync[g][t] EXCEPT !.pc = pc].pc = pc /\ [sync[g][t] EXCEPT !.pc = pc].dels = sync[g][t].dels
           /\ [sync[g][t] EXCEPT !.pc = pc].pts = sync[g][t].pts /\ [sync[g][t] EXCEPT !.pc = pc].page = sync[g][t].page
           /\ [sync[g][t] EXCEPT !.pc = pc].offset = sync[g][t].offset
PROOF
  <1>1. sync[g][t] \in TaskStates /\ pc \in WorkerPcs \union BackPcs
    BY TasksOf DEF SyncOK, PcsOf, SyncTasks, WorkerPcs
  <1>2. /\ [sync[g][t] EXCEPT !.pc = pc] \in TaskStates
        /\ [sync[g][t] EXCEPT !.pc = pc].pc = pc /\ [sync[g][t] EXCEPT !.pc = pc].dels = sync[g][t].dels
        /\ [sync[g][t] EXCEPT !.pc = pc].pts = sync[g][t].pts /\ [sync[g][t] EXCEPT !.pc = pc].page = sync[g][t].page
        /\ [sync[g][t] EXCEPT !.pc = pc].offset = sync[g][t].offset
    BY <1>1 DEF TaskStates
  <1>3. Set(g, t, [sync[g][t] EXCEPT !.pc = pc])
    BY DEF Goto, Set
  <1> QED BY <1>2, <1>3

LEMMA LeaveSets ==
    ASSUME SyncOK, SyncAssumption, NEW g \in Gens, NEW t \in {"main", "worker"}, Leave(g, t)
    PROVE  \E r \in TaskStates : Set(g, t, r) /\ r.pc \in {"off", "dialog", "ready"} /\ r.dels = {} /\ r.pc \in PcsOf(t)
PROOF
  <1> DEFINE r == [Off EXCEPT !.pc = sync[g][t].then]
  <1>1. sync[g][t] \in TaskStates
    BY TasksOf DEF SyncOK, SyncTasks
  <1>2. sync[g][t].then \in {"off", "dialog", "ready"}
    BY <1>1 DEF TaskStates
  <1>3. r \in TaskStates /\ r.pc \in {"off", "dialog", "ready"} /\ r.dels = {}
    BY <1>2, OffType DEF TaskStates, WorkerPcs, MainPcs
  <1>4. r.pc \in PcsOf(t)
    BY <1>3 DEF PcsOf, MainPcs, WorkerPcs
  <1> QED BY <1>3, <1>4 DEF Leave

-----------------------------------------------------------------------------
(* Every step of a connection's tasks. *)

\* Task t of connection g goes on: the log and the other tasks stay, nothing that is stored
\* is lost; the backfill leaves the pts alone, the others leave the cursor alone.
Goes(g, t) ==
    /\ UNCHANGED World /\ RowsGrow
    /\ SeenOK' /\ seen'.wipes = seen.wipes
    /\ IF t = "back" THEN chat'.pts = chat.pts /\ seen'.base = seen.base
                     ELSE chat'.cursor = chat.cursor /\ seen'.first = seen.first

Step(g, t) ==
    /\ Goes(g, t) /\ ~At(g, t, "off")
    /\ \E r \in TaskStates : Set(g, t, r) /\ r.pc \in PcsOf(t) /\ r.dels \subseteq Deletions

LEMMA RowsStand ==
    ASSUME TypeInv, NEW g, NEW t, UNCHANGED <<World, Rows, seen>>
    PROVE  Goes(g, t)
  BY TypeParts, RowsSame DEF Goes, Rows, SeenOK

LEMMA GotoStep ==
    ASSUME TypeInv, LogInv, NEW g \in Gens, NEW t \in SyncTasks, NEW pc \in PcsOf(t),
           Goes(g, t), ~At(g, t, "off"), Goto(g, t, pc)
    PROVE  Step(g, t)
PROOF
  <1> DEFINE r == [sync[g][t] EXCEPT !.pc = pc]
  <1>1. Set(g, t, r) /\ r \in TaskStates /\ r.pc = pc /\ r.dels = sync[g][t].dels
    BY TypeParts, GotoSets
  <1>2. sync[g][t].dels \subseteq Deletions
    BY DEF LogInv
  <1> HIDE DEF r
  <1> QED BY <1>1, <1>2 DEF Step

LEMMA LeaveStep ==
    ASSUME TypeInv, NEW g \in Gens, NEW t \in {"main", "worker"}, Goes(g, t), ~At(g, t, "off"), Leave(g, t)
    PROVE  Step(g, t)
PROOF
  <1>1. PICK r \in TaskStates : Set(g, t, r) /\ r.dels = {} /\ r.pc \in PcsOf(t)
    BY TypeParts, LeaveSets
  <1> QED BY <1>1 DEF Step

\* The two tasks that catch a channel up go through the same steps.
LEMMA DiffFetchStep ==
    ASSUME TypeInv, LogInv, NEW g \in Gens, NEW t \in {"main", "worker"}, DiffFetch(g, t)
    PROVE  Step(g, t)
PROOF
  <1> DEFINE me == sync[g][t]
  <1>1. /\ SyncAssumption /\ LogOK /\ RowsOK /\ SyncOK /\ t \in SyncTasks /\ MainPcs \subseteq PcsOf(t)
    BY TypeParts DEF SyncTasks, PcsOf, WorkerPcs
  <1>2. me \in TaskStates /\ me.pc = "diff"
    BY <1>1, TasksOf DEF SyncOK, DiffFetch, At
  <1>3. Goes(g, t) /\ ~At(g, t, "off")
    BY RowsStand DEF DiffFetch, At
  <1>4. CASE Leave(g, t)
    BY <1>3, <1>4, LeaveStep
  <1>5. CASE Set(g, t, [me EXCEPT !.pc = "diff_pts", !.final = TRUE])
    <2> DEFINE r == [me EXCEPT !.pc = "diff_pts", !.final = TRUE]
    <2>1. r \in TaskStates /\ r.pc \in PcsOf(t) /\ r.dels = me.dels
      BY <1>1, <1>2 DEF TaskStates, MainPcs, WorkerPcs
    <2> QED BY <1>1, <1>3, <1>5, <2>1 DEF Step, LogInv
  <1>6. ASSUME NEW n \in me.pts + 1 .. Pts,
               Set(g, t, [me EXCEPT !.pc = "diff_save", !.pts = n, !.final = (n = Pts),
                               !.page = IdsOf("new", me.pts + 1, n) \ IdsOf("delete", me.pts + 1, n),
                               !.dels = IdsOf("delete", me.pts + 1, n)])
        PROVE  Step(g, t)
    <2> DEFINE r == [me EXCEPT !.pc = "diff_save", !.pts = n, !.final = (n = Pts),
                               !.page = IdsOf("new", me.pts + 1, n) \ IdsOf("delete", me.pts + 1, n),
                               !.dels = IdsOf("delete", me.pts + 1, n)]
    <2>1. me.pts \in 0 .. MaxEvents /\ Pts \in 0 .. MaxEvents /\ me.pts + 1 \in 1 .. Pts + 1 /\ n \in 0 .. Pts
      BY <1>1, <1>2, Bounds, SomeType DEF TaskStates
    <2>2. /\ IdsOf("new", me.pts + 1, n) \subseteq Ids
          /\ IdsOf("delete", me.pts + 1, n) \subseteq Ids /\ IdsOf("delete", me.pts + 1, n) \subseteq Deletions
      BY <1>1, <2>1, IdsOfType DEF Deletions
    <2>3. n \in 0 .. MaxEvents /\ (n = Pts) \in BOOLEAN
      BY <1>1, <2>1, Bounds
    <2>4. r \in TaskStates /\ r.pc \in PcsOf(t) /\ r.dels = IdsOf("delete", me.pts + 1, n)
      BY <1>1, <1>2, <2>2, <2>3 DEF TaskStates, MainPcs, WorkerPcs
    <2> QED BY <1>3, <1>6, <2>2, <2>4 DEF Step
  <1>7. CASE Set(g, t, [me EXCEPT !.pc = "long_max", !.pts = Pts, !.page = Page(Existing)])
    <2> DEFINE r == [me EXCEPT !.pc = "long_max", !.pts = Pts, !.page = Page(Existing)]
    <2>1. Page(Existing) \subseteq Ids /\ Pts \in 0 .. MaxEvents
      BY <1>1, SomeType, PageType
    <2>2. r \in TaskStates /\ r.pc \in PcsOf(t) /\ r.dels = me.dels
      BY <1>1, <1>2, <2>1 DEF TaskStates, MainPcs, WorkerPcs
    <2> QED BY <1>1, <1>3, <1>7, <2>2 DEF Step, LogInv
  <1> QED BY <1>4, <1>5, <1>6, <1>7 DEF DiffFetch

LEMMA DiffStep ==
    ASSUME TypeInv, LogInv, NEW g \in Gens, NEW t \in {"main", "worker"},
           DiffRejected(g, t) \/ RequestFails(g, t) \/ DiffSave(g, t) \/ DiffDelete(g, t) \/ DiffPts(g, t)
    PROVE  Step(g, t)
PROOF
  <1> DEFINE me == sync[g][t]
  <1>1. /\ SyncAssumption /\ LogOK /\ RowsOK /\ SyncOK /\ SeenOK /\ t \in SyncTasks /\ t # "back" /\ MainPcs \subseteq PcsOf(t)
    BY TypeParts DEF SyncTasks, PcsOf, WorkerPcs
  <1>2. me \in TaskStates
    BY <1>1, TasksOf DEF SyncOK
  <1>3. ASSUME NEW pc \in MainPcs, Goes(g, t), ~At(g, t, "off"), Goto(g, t, pc) PROVE Step(g, t)
    BY <1>1, <1>3, GotoStep
  <1>4. ASSUME Leave(g, t), Goes(g, t), ~At(g, t, "off") PROVE Step(g, t)
    BY <1>4, LeaveStep
  <1>5. CASE DiffRejected(g, t)
    <2>1. Null \in 0 .. MaxEvents
      BY <1>1, Bounds DEF Null
    <2>2. Goes(g, t)
      BY <1>1, <1>5, <2>1, PtsType, ChatGrows DEF DiffRejected, Goes, World, SeenOK
    <2> QED BY <1>4, <1>5, <2>2 DEF DiffRejected, At
  <1>6. CASE RequestFails(g, t)
    <2> DEFINE pc == IF At(g, t, "dialog") THEN "ready" ELSE me.then
               r == [Off EXCEPT !.pc = pc]
    <2>1. pc \in {"off", "dialog", "ready"}
      BY <1>2 DEF TaskStates
    <2>2. r \in TaskStates /\ r.pc = pc /\ r.dels = {}
      BY <1>1, <2>1, OffType DEF TaskStates, WorkerPcs, MainPcs
    <2>3. r.pc \in PcsOf(t)
      BY <1>1, <2>1, <2>2 DEF MainPcs
    <2>4. Goes(g, t) /\ ~At(g, t, "off")
      BY <1>6, RowsStand DEF RequestFails, At
    <2>5. Set(g, t, r)
      BY <1>6 DEF RequestFails
    <2> QED BY <2>2, <2>3, <2>4, <2>5 DEF Step
  <1>7. CASE DiffSave(g, t)
    <2>1. Goes(g, t)
      BY <1>1, <1>2, <1>7, SaveGrows DEF DiffSave, Goes, World, SeenOK, TaskStates
    <2> QED BY <1>3, <1>7, <2>1 DEF DiffSave, At, MainPcs
  <1>8. CASE DiffDelete(g, t)
    <2> DEFINE I == {i \in 1 .. Pts : log[i].kind = "delete" /\ log[i].id \in me.dels}
    <2>1. CASE ~(sync[g].on /\ me.dels # {})
      <3>1. Goes(g, t)
        BY <1>8, <2>1, RowsStand DEF DiffDelete
      <3> QED BY <1>3, <1>8, <3>1 DEF DiffDelete, At, MainPcs
    <2>2. CASE sync[g].on /\ me.dels # {}
      <3>1. Pts \in 0 .. MaxEvents
        BY <1>1, SomeType
      <3>2. I # {} /\ I \in SUBSET (0 .. MaxEvents)
        <4>1. me.dels \subseteq Deletions
          BY <1>1 DEF LogInv
        <4> QED BY <1>1, <2>2, <3>1, <4>1, Bounds DEF Deletions, IdsOf
      <3>3. Max(I) \in 0 .. MaxEvents
        <4> HIDE DEF I
        <4> QED BY <1>1, <3>2, GreatestIs, Bounds
      <3>4. Tombstone(me.dels) /\ MovePts(Max(I)) /\ me.dels \in SUBSET Ids
        BY <1>2, <1>8, <2>2 DEF DiffDelete, TaskStates
      <3>5. Goes(g, t)
        <4> HIDE DEF I
        <4>1. RowsGrow /\ chat'.cursor = chat.cursor
          BY <1>1, <3>3, <3>4, PtsType, TombstoneGrows
        <4> QED BY <1>1, <1>8, <4>1 DEF DiffDelete, Goes, World, SeenOK
      <3> QED BY <1>3, <1>8, <3>5 DEF DiffDelete, At, MainPcs
    <2> QED BY <2>1, <2>2
  <1>9. CASE DiffPts(g, t)
    <2>1. Goes(g, t)
      <3>1. me.pts \in 0 .. MaxEvents
        BY <1>2 DEF TaskStates
      <3> QED BY <1>1, <1>9, <3>1, PtsType, ChatGrows DEF DiffPts, Goes, World, SeenOK
    <2>2. CASE me.final
      BY <1>4, <1>9, <2>1, <2>2 DEF DiffPts, At
    <2>3. CASE ~me.final
      <3> DEFINE r == [me EXCEPT !.pc = "diff", !.round = @ + 1]
      <3>1. r \in TaskStates /\ r.pc = "diff" /\ r.dels = me.dels
        <4>1. me.round \in Nat /\ me.round + 1 \in Nat
          BY <1>2 DEF TaskStates
        <4> QED BY <1>2, <4>1 DEF TaskStates, WorkerPcs, MainPcs
      <3>2. Set(g, t, r)
        BY <1>9, <2>3 DEF DiffPts
      <3> QED BY <1>1, <1>9, <2>1, <3>1, <3>2 DEF Step, LogInv, DiffPts, At, MainPcs
    <2> QED BY <2>2, <2>3
  <1> QED BY <1>5, <1>6, <1>7, <1>8, <1>9

LEMMA LongStep ==
    ASSUME TypeInv, LogInv, NEW g \in Gens, NEW t \in {"main", "worker"},
           LongMax(g, t) \/ LongSave(g, t) \/ LongGap(g, t) \/ LongPts(g, t)
    PROVE  Step(g, t)
PROOF
  <1> DEFINE me == sync[g][t]
  <1>1. /\ SyncAssumption /\ LogOK /\ RowsOK /\ SyncOK /\ SeenOK /\ t \in SyncTasks /\ t # "back" /\ MainPcs \subseteq PcsOf(t)
    BY TypeParts DEF SyncTasks, PcsOf, WorkerPcs
  <1>2. me \in TaskStates /\ me.dels \subseteq Deletions
    BY <1>1, TasksOf DEF SyncOK, LogInv
  <1>3. ASSUME NEW pc \in MainPcs, Goes(g, t), ~At(g, t, "off"), Goto(g, t, pc) PROVE Step(g, t)
    BY <1>1, <1>3, GotoStep
  <1>4. CASE LongMax(g, t)
    <2> DEFINE r == [me EXCEPT !.pc = "long_save", !.max = MaxMessageId]
    <2>1. MaxMessageId \in 0 .. MaxEvents
      <3>1. msgs \union tomb \in SUBSET Ids
        BY <1>1 DEF RowsOK
      <3> QED BY <1>1, <3>1, ExtremeType DEF MaxMessageId
    <2>2. r \in TaskStates /\ r.pc = "long_save" /\ r.dels = me.dels
      BY <1>2, <2>1 DEF TaskStates, WorkerPcs, MainPcs
    <2>3. Goes(g, t) /\ Set(g, t, r)
      BY <1>4, RowsStand DEF LongMax
    <2> QED BY <1>1, <1>2, <1>4, <2>2, <2>3 DEF Step, LongMax, At, MainPcs
  <1>5. CASE LongSave(g, t)
    <2>1. Goes(g, t)
      BY <1>1, <1>2, <1>5, SaveGrows DEF LongSave, Goes, World, SeenOK, TaskStates
    <2> QED BY <1>3, <1>5, <2>1 DEF LongSave, At, MainPcs
  <1>6. CASE LongGap(g, t)
    <2>1. Goes(g, t)
      BY <1>1, <1>6, GapType, ChatGrows DEF LongGap, Goes, World, SeenOK
    <2> QED BY <1>3, <1>6, <2>1 DEF LongGap, At, MainPcs
  <1>7. CASE LongPts(g, t)
    <2>1. Goes(g, t)
      <3>1. me.pts \in 0 .. MaxEvents
        BY <1>2 DEF TaskStates
      <3> QED BY <1>1, <1>7, <3>1, PtsType, ChatGrows DEF LongPts, Goes, World, SeenOK
    <2>2. CASE me.max = Null
      BY <1>7, <2>1, <2>2, LeaveStep DEF LongPts, At
    <2>3. CASE me.max # Null
      <3> DEFINE r == [me EXCEPT !.pc = "fill", !.offset = Null, !.round = 0]
      <3>1. Null \in 0 .. MaxEvents
        BY <1>1, Bounds DEF Null
      <3>2. r \in TaskStates /\ r.pc = "fill" /\ r.dels = me.dels
        BY <1>2, <3>1 DEF TaskStates, WorkerPcs, MainPcs
      <3>3. Set(g, t, r)
        BY <1>7, <2>3 DEF LongPts
      <3> QED BY <1>1, <1>2, <1>7, <2>1, <3>2, <3>3 DEF Step, LongPts, At, MainPcs
    <2> QED BY <2>2, <2>3
  <1> QED BY <1>4, <1>5, <1>6, <1>7

LEMMA FillStep ==
    ASSUME TypeInv, LogInv, NEW g \in Gens, NEW t \in {"main", "worker"},
           FillFetch(g, t) \/ FillSave(g, t) \/ FillGap(g, t)
    PROVE  Step(g, t)
PROOF
  <1> DEFINE me == sync[g][t]
  <1>1. /\ SyncAssumption /\ LogOK /\ RowsOK /\ SyncOK /\ SeenOK /\ t \in SyncTasks /\ t # "back" /\ MainPcs \subseteq PcsOf(t)
    BY TypeParts DEF SyncTasks, PcsOf, WorkerPcs
  <1>2. me \in TaskStates /\ me.dels \subseteq Deletions /\ me.page \in SUBSET Ids
    BY <1>1, TasksOf DEF SyncOK, LogInv, TaskStates
  <1>3. CASE FillFetch(g, t)
    <2> DEFINE newer == {m \in Existing : m > me.max /\ (me.offset = Null \/ m < me.offset)}
               r == [me EXCEPT !.pc = "fill_save", !.page = Page(newer)]
    <2>1. Goes(g, t) /\ ~At(g, t, "off")
      BY <1>3, RowsStand DEF FillFetch, At
    <2>2. Page(newer) \subseteq Ids
      <3>1. newer \in SUBSET Ids
        BY <1>1, SomeType
      <3> HIDE DEF newer
      <3> QED BY <3>1, PageType
    <2>3. r \in TaskStates /\ r.pc = "fill_save" /\ r.dels = me.dels
      <3> HIDE DEF newer
      <3> QED BY <1>2, <2>2 DEF TaskStates, WorkerPcs, MainPcs
    <2>4. Leave(g, t) \/ Set(g, t, r)
      BY <1>3 DEF FillFetch
    <2> HIDE DEF r
    <2> QED BY <1>1, <1>2, <2>1, <2>3, <2>4, LeaveStep DEF Step, MainPcs
  <1>4. CASE FillSave(g, t)
    <2> DEFINE met == Cardinality(me.page) < PageSize \/ Min(me.page) <= me.max + 1
               r == [me EXCEPT !.pc = IF me.round + 1 = MaxForward THEN "fill_gap" ELSE "fill",
                               !.offset = Min(me.page), !.round = @ + 1]
    <2>1. Goes(g, t) /\ ~At(g, t, "off")
      BY <1>1, <1>2, <1>4, SaveGrows DEF FillSave, Goes, World, SeenOK, At
    <2>2. CASE met
      BY <1>4, <2>1, <2>2, LeaveStep DEF FillSave
    <2>3. CASE ~met
      <3>1. me.page # {}
        <4>1. Cardinality({}) = 0 /\ 0 < PageSize
          BY <1>1, FS_EmptySet, Bounds
        <4>2. ~(Cardinality(me.page) < PageSize)
          BY <2>3
        <4> HIDE DEF me
        <4> QED BY <4>1, <4>2
      <3>2. Min(me.page) \in 0 .. MaxEvents
        BY <1>1, <1>2, <3>1, ExtremeType, Bounds DEF Ids
      <3>3. r \in TaskStates /\ r.pc \in {"fill", "fill_gap"} /\ r.dels = me.dels
        <4>1. me \in TaskStates
          BY <1>1, TasksOf DEF SyncOK
        <4>2. me.round \in Nat /\ me.round + 1 \in Nat
          BY <4>1 DEF TaskStates
        <4> QED BY <3>2, <4>1, <4>2 DEF TaskStates, WorkerPcs, MainPcs
      <3>4. Set(g, t, r)
        BY <1>4, <2>3 DEF FillSave
      <3> HIDE DEF r
      <3> QED BY <1>1, <1>2, <2>1, <3>3, <3>4 DEF Step, MainPcs
    <2> QED BY <2>2, <2>3
  <1>5. CASE FillGap(g, t)
    <2>1. Goes(g, t)
      BY <1>1, <1>5, GapType, ChatGrows DEF FillGap, Goes, World, SeenOK
    <2> QED BY <1>5, <2>1, LeaveStep DEF FillGap, At
  <1> QED BY <1>3, <1>4, <1>5

LEMMA CatchUpStep ==
    ASSUME TypeInv, LogInv, NEW g \in Gens, NEW t \in {"main", "worker"}, CatchUp(g, t)
    PROVE  Step(g, t)
  BY DiffFetchStep, DiffStep, LongStep, FillStep DEF CatchUp

\* Reading the list of dialogs; Ready is apart, for it also starts the backfill.
LEMMA DialogsStep ==
    ASSUME TypeInv, LogInv, NEW g \in Gens,
           ReadChannels(g) \/ DialogFetch(g) \/ DialogMax(g) \/ DialogRow(g) \/ DialogSave(g) \/ Reconcile(g)
    PROVE  Step(g, "main")
PROOF
  <1> DEFINE me == sync[g].main
  <1>1. /\ SyncAssumption /\ LogOK /\ RowsOK /\ SyncOK /\ SeenOK /\ "main" \in SyncTasks /\ PcsOf("main") = MainPcs
    BY TypeParts DEF SyncTasks, PcsOf
  <1>2. /\ me = sync[g]["main"] /\ me \in TaskStates /\ me.dels \subseteq Deletions /\ me.page \in SUBSET Ids
        /\ me.pts \in 0 .. MaxEvents
    BY <1>1, TasksOf DEF SyncOK, LogInv, TaskStates
  <1>3. ASSUME NEW pc \in MainPcs, Goes(g, "main"), ~At(g, "main", "off"), Goto(g, "main", pc)
        PROVE  Step(g, "main")
    BY <1>1, <1>3, GotoStep
  <1>4. Off \in TaskStates /\ Off.pc = "off" /\ Off.dels = {} /\ "off" \in MainPcs /\ {} \subseteq Deletions
    BY <1>1, OffType DEF MainPcs
  <1>5. CASE ReadChannels(g)
    <2> DEFINE r == IF sync[g].on THEN Enter(chat.pts, "dialog") ELSE Off
    <2>1. chat.pts \in 0 .. MaxEvents
      BY <1>1 DEF RowsOK, ChatRows
    <2>2. r \in TaskStates /\ r.pc \in MainPcs /\ r.dels = {}
      BY <1>4, <2>1 DEF Enter, TaskStates, MainPcs, WorkerPcs
    <2>3. Goes(g, "main") /\ ~At(g, "main", "off") /\ Set(g, "main", r)
      BY <1>5, RowsStand DEF ReadChannels, At
    <2> HIDE DEF r
    <2> QED BY <1>1, <2>2, <2>3 DEF Step
  <1>6. CASE DialogFetch(g)
    <2> DEFINE r == [Off EXCEPT !.pc = "dialog_max", !.page = {Max(Existing)}, !.pts = Pts, !.then = "ready"]
    <2>1. Goes(g, "main") /\ ~At(g, "main", "off")
      BY <1>6, RowsStand DEF DialogFetch, At
    <2>2. CASE sync[g].on /\ Existing # {}
      <3>1. Max(Existing) \in Ids /\ Pts \in 0 .. MaxEvents
        <4>1. Existing \in SUBSET Ids /\ Pts \in 0 .. MaxEvents
          BY <1>1, SomeType
        <4>2. Newest(Existing) \in Existing
          BY <1>1, <2>2, <4>1, ExtremeType
        <4> QED BY <2>2, <4>1, <4>2 DEF Newest
      <3>2. r \in TaskStates /\ r.pc \in MainPcs /\ r.dels = {}
        BY <1>4, <3>1 DEF TaskStates, MainPcs, WorkerPcs
      <3>3. Set(g, "main", r)
        BY <1>6, <2>2 DEF DialogFetch
      <3> HIDE DEF r
      <3> QED BY <1>1, <2>1, <3>2, <3>3 DEF Step
    <2>3. CASE ~(sync[g].on /\ Existing # {})
      BY <1>3, <1>6, <2>1, <2>3 DEF DialogFetch, MainPcs
    <2> QED BY <2>2, <2>3
  <1>7. CASE DialogMax(g)
    <2> DEFINE r == [me EXCEPT !.pc = "dialog_row", !.max = MaxMessageId]
    <2>1. MaxMessageId \in 0 .. MaxEvents
      <3>1. msgs \union tomb \in SUBSET Ids
        BY <1>1 DEF RowsOK
      <3> QED BY <1>1, <3>1, ExtremeType DEF MaxMessageId
    <2>2. r \in TaskStates /\ r.pc \in MainPcs /\ r.dels = me.dels
      BY <1>2, <2>1 DEF TaskStates, MainPcs, WorkerPcs
    <2>3. Goes(g, "main") /\ ~At(g, "main", "off") /\ Set(g, "main", r)
      BY <1>7, RowsStand DEF DialogMax, At
    <2> HIDE DEF r
    <2> QED BY <1>1, <1>2, <2>2, <2>3 DEF Step
  <1>8. CASE DialogRow(g)
    <2>1. chat' \in ChatRows /\ chat'.known /\ chat'.gap = chat.gap /\ chat'.cursor = chat.cursor
      BY <1>1, <1>2, <1>8 DEF DialogRow, RowsOK, ChatRows
    <2>2. seen' \in [wipes : 0 .. MaxWipes, base : 0 .. MaxEvents, first : 0 .. MaxEvents]
          /\ seen'.wipes = seen.wipes /\ seen'.first = seen.first
      BY <1>1, <1>2, <1>8 DEF DialogRow, SeenOK
    <2>3. RowsGrow
      BY <1>1, <1>8, <2>1, ChatGrows DEF DialogRow
    <2>4. Goes(g, "main")
      BY <1>8, <2>1, <2>2, <2>3 DEF Goes, DialogRow, World, SeenOK
    <2> QED BY <1>3, <1>8, <2>4 DEF DialogRow, At, MainPcs
  <1>9. CASE DialogSave(g)
    <2>1. Goes(g, "main") /\ ~At(g, "main", "off")
      BY <1>1, <1>2, <1>9, SaveGrows DEF DialogSave, Goes, World, SeenOK, At
    <2>2. CASE Set(g, "main", [me EXCEPT !.pc = "fill"])
      BY <1>3, <2>1, <2>2 DEF Set, Goto, MainPcs
    <2>3. CASE Goto(g, "main", "ready")
      BY <1>3, <2>1, <2>3 DEF MainPcs
    <2> QED BY <1>9, <2>2, <2>3 DEF DialogSave
  <1>10. CASE Reconcile(g)
    <2> DEFINE r == IF sync[g].on THEN [Off EXCEPT !.pc = "dialog"] ELSE Off
    <2>1. r \in TaskStates /\ r.pc \in MainPcs /\ r.dels = {}
      BY <1>4 DEF TaskStates, MainPcs, WorkerPcs
    <2>2. Goes(g, "main") /\ ~At(g, "main", "off") /\ Set(g, "main", r)
      BY <1>10, RowsStand DEF Reconcile, At
    <2> HIDE DEF r
    <2> QED BY <1>1, <2>1, <2>2 DEF Step
  <1> QED BY <1>5, <1>6, <1>7, <1>8, <1>9, <1>10

\* Fetching older history.
LEMMA BackfillStep ==
    ASSUME TypeInv, LogInv, NEW g \in Gens, Backfill(g)
    PROVE  Step(g, "back")
PROOF
  <1> DEFINE me == sync[g].back
  <1>1. /\ SyncAssumption /\ LogOK /\ RowsOK /\ SyncOK /\ SeenOK /\ "back" \in SyncTasks /\ PcsOf("back") = BackPcs
    BY TypeParts DEF SyncTasks, PcsOf
  <1>2. /\ me = sync[g]["back"] /\ me \in TaskStates /\ me.dels \subseteq Deletions /\ me.page \in SUBSET Ids
        /\ me.round \in Nat
    BY <1>1, TasksOf DEF SyncOK, LogInv, TaskStates
  <1>3. ASSUME NEW pc \in BackPcs, Goes(g, "back"), ~At(g, "back", "off"), Goto(g, "back", pc)
        PROVE  Step(g, "back")
    BY <1>1, <1>3, GotoStep
  <1>4. Off \in TaskStates /\ Off.pc = "off" /\ Off.dels = {} /\ "off" \in BackPcs /\ {} \subseteq Deletions
    BY <1>1, OffType DEF BackPcs
  <1>5. ASSUME UNCHANGED <<World, msgs, tomb, seen>>, chat' \in ChatRows, chat'.known = chat.known,
               chat'.gap = chat.gap, chat'.pts = chat.pts
        PROVE  Goes(g, "back")
    BY <1>1, <1>5, ChatGrows DEF Goes, World, SeenOK
  <1>6. CASE BackNext(g)
    <2> DEFINE r == IF sync[g].on /\ chat.known /\ ~chat.stopped
                    THEN [Off EXCEPT !.pc = "page", !.offset = chat.cursor, !.round = chat.count] ELSE Off
    <2>1. chat.cursor \in 0 .. MaxEvents /\ chat.count \in Nat
      BY <1>1 DEF RowsOK, ChatRows
    <2>2. r \in TaskStates /\ r.pc \in BackPcs /\ r.dels = {}
      BY <1>4, <2>1 DEF TaskStates, BackPcs
    <2>3. Goes(g, "back") /\ ~At(g, "back", "off") /\ Set(g, "back", r)
      BY <1>6, RowsStand DEF BackNext, At
    <2> HIDE DEF r
    <2> QED BY <1>1, <2>2, <2>3 DEF Step
  <1>7. CASE BackFetch(g)
    <2> DEFINE older == {m \in Existing : me.offset = Null \/ m < me.offset}
               r == [me EXCEPT !.pc = "page_save", !.page = Page(older)]
    <2>1. ~At(g, "back", "off") /\ UNCHANGED <<World, msgs, tomb, seen>>
      BY <1>7 DEF BackFetch, At
    <2>2. ASSUME chat' = IF chat.known THEN [chat EXCEPT !.stopped = TRUE] ELSE chat, Goto(g, "back", "next")
          PROVE  Step(g, "back")
      <3>1. chat' \in ChatRows /\ chat'.known = chat.known /\ chat'.gap = chat.gap /\ chat'.pts = chat.pts
        BY <1>1, <2>2 DEF RowsOK, ChatRows
      <3> QED BY <1>3, <1>5, <2>1, <2>2, <3>1 DEF BackPcs
    <2>3. ASSUME Set(g, "back", r), UNCHANGED chat
          PROVE  Step(g, "back")
      <3>1. Page(older) \subseteq Ids
        <4>1. older \in SUBSET Ids
          BY <1>1, SomeType
        <4> HIDE DEF older
        <4> QED BY <4>1, PageType
      <3>2. r \in TaskStates /\ r.pc = "page_save" /\ r.dels = me.dels
        <4> HIDE DEF older
        <4> QED BY <1>2, <3>1 DEF TaskStates, BackPcs
      <3>3. Goes(g, "back")
        BY <1>1, <1>5, <2>1, <2>3 DEF RowsOK
      <3> HIDE DEF r
      <3> QED BY <1>1, <1>2, <2>1, <2>3, <3>2, <3>3 DEF Step, BackPcs
    <2>4. ASSUME Goto(g, "back", "next"), UNCHANGED chat
          PROVE  Step(g, "back")
      BY <1>1, <1>3, <1>5, <2>1, <2>4 DEF RowsOK, BackPcs
    <2> HIDE DEF r
    <2> QED BY <1>7, <2>2, <2>3, <2>4 DEF BackFetch, r
  <1>8. CASE BackSave(g)
    <2>1. Goes(g, "back")
      BY <1>1, <1>2, <1>8, SaveGrows DEF BackSave, Goes, World, SeenOK
    <2> QED BY <1>3, <1>8, <2>1 DEF BackSave, At, BackPcs
  <1>9. CASE BackRecord(g)
    <2>1. Newest(me.page) \in 0 .. MaxEvents /\ (me.page # {} => Min(me.page) \in 0 .. MaxEvents)
      BY <1>1, <1>2, ExtremeType, Bounds DEF Ids
    <2>2. Cardinality(me.page) \in Nat
      BY <1>1, <1>2, PageFinite
    <2>3. /\ chat' \in ChatRows /\ chat'.known = chat.known /\ chat'.gap = chat.gap /\ chat'.pts = chat.pts
      <3>1. \E stop \in BOOLEAN :
               chat' = IF chat.known
                       THEN [chat EXCEPT !.cursor = IF me.page = {} THEN @ ELSE Min(me.page),
                                         !.count = @ + Cardinality(me.page), !.stopped = stop]
                       ELSE chat
        BY <1>9 DEF BackRecord
      <3>2. chat \in ChatRows /\ chat.count + Cardinality(me.page) \in Nat
        BY <1>1, <2>2 DEF RowsOK, ChatRows
      <3> HIDE DEF me
      <3> QED BY <2>1, <3>1, <3>2 DEF ChatRows
    <2>4. SeenOK' /\ seen'.wipes = seen.wipes /\ seen'.base = seen.base
      BY <1>1, <1>9, <2>1 DEF BackRecord, SeenOK
    <2>5. RowsGrow
      BY <1>1, <1>9, <2>3, ChatGrows DEF BackRecord
    <2>6. Goes(g, "back")
      BY <1>9, <2>3, <2>4, <2>5 DEF Goes, BackRecord, World
    <2> QED BY <1>3, <1>9, <2>6 DEF BackRecord, At, BackPcs
  <1> QED BY <1>6, <1>7, <1>8, <1>9 DEF Backfill

\* Applying an update; Take is apart, for it also takes it off the queue.
LEMMA LiveStep ==
    ASSUME TypeInv, LogInv, NEW g \in Gens, LiveSave(g) \/ LiveDelete(g) \/ LivePts(g)
    PROVE  Step(g, "worker")
PROOF
  <1> DEFINE me == sync[g].worker
  <1>1. /\ SyncAssumption /\ LogOK /\ RowsOK /\ SyncOK /\ SeenOK /\ "worker" \in SyncTasks
        /\ PcsOf("worker") = WorkerPcs /\ "worker" # "back"
    BY TypeParts DEF SyncTasks, PcsOf
  <1>2. me = sync[g]["worker"] /\ me \in TaskStates /\ me.page \in SUBSET Ids /\ me.pts \in 0 .. MaxEvents
    BY <1>1, TasksOf DEF SyncOK, TaskStates
  <1>3. ASSUME NEW pc \in WorkerPcs, Goes(g, "worker"), ~At(g, "worker", "off"), Goto(g, "worker", pc)
        PROVE  Step(g, "worker")
    BY <1>1, <1>3, GotoStep
  <1>4. CASE LiveSave(g)
    <2>1. Goes(g, "worker")
      BY <1>1, <1>2, <1>4, SaveGrows DEF LiveSave, Goes, World, SeenOK
    <2> QED BY <1>3, <1>4, <2>1 DEF LiveSave, At, WorkerPcs
  <1>5. CASE LiveDelete(g)
    <2>1. RowsGrow
      BY <1>1, <1>2, <1>5, TombstoneGrows DEF LiveDelete, RowsOK
    <2>2. Goes(g, "worker")
      BY <1>1, <1>5, <2>1 DEF LiveDelete, Goes, World, SeenOK
    <2> QED BY <1>3, <1>5, <2>2 DEF LiveDelete, At, WorkerPcs
  <1>6. CASE LivePts(g)
    <2>1. RowsGrow /\ chat'.cursor = chat.cursor
      BY <1>1, <1>2, <1>6, PtsType, ChatGrows DEF LivePts
    <2>2. SeenOK' /\ seen'.wipes = seen.wipes /\ seen'.first = seen.first
      BY <1>1, <1>2, <1>6 DEF LivePts, SeenOK
    <2>3. Off \in TaskStates /\ Off.pc = "off" /\ Off.dels = {}
      BY <1>1, OffType
    <2> QED BY <1>1, <1>6, <2>1, <2>2, <2>3 DEF Step, Goes, LivePts, At, World, WorkerPcs, MainPcs
  <1> QED BY <1>4, <1>5, <1>6

\* What the two steps that are apart do.
LEMMA ReadyMoves ==
    ASSUME SyncOK, SyncAssumption, NEW g \in Gens, Ready(g)
    PROVE  /\ SyncOK' /\ UNCHANGED <<World, Rows, seen>> /\ ~At(g, "main", "off")
           /\ \A h \in Gens \ {g} : sync'[h] = sync[h]
           /\ sync'[g].on = sync[g].on /\ sync'[g].queue = sync[g].queue /\ sync'[g].worker = sync[g].worker
           /\ sync'[g].main.pc \in {"off", "waiting"} /\ sync'[g].main.dels \subseteq sync[g].main.dels
           /\ sync'[g].back.dels = sync[g].back.dels
           /\ sync'[g].back = sync[g].back \/ sync'[g].back.pc = "next"
PROOF
  <1> DEFINE s == sync[g]
             q == IF s.on THEN [s EXCEPT !.main.pc = "waiting", !.back.pc = IF @ = "off" THEN "next" ELSE @]
                  ELSE [s EXCEPT !.main = Off]
  <1>1. s \in Syncs /\ s.main \in TaskStates /\ s.back \in TaskStates /\ sync \in [Gens -> Syncs]
    BY DEF SyncOK, Syncs
  <1>2. Off \in TaskStates /\ Off.pc = "off" /\ Off.dels = {}
    BY OffType
  <1>3. sync' = [sync EXCEPT ![g] = q]
    BY DEF Ready
  <1>4. q \in Syncs /\ q.main.pc \in {"off", "waiting"} /\ q.main.dels \subseteq s.main.dels /\ q.back.dels = s.back.dels
        /\ (q.back = s.back \/ q.back.pc = "next") /\ q.on = s.on /\ q.queue = s.queue /\ q.worker = s.worker
    <2>1. CASE s.on
      <3> DEFINE m == [s.main EXCEPT !.pc = "waiting"]
                 b == [s.back EXCEPT !.pc = IF @ = "off" THEN "next" ELSE @]
      <3>1. m \in TaskStates /\ m.pc = "waiting" /\ m.dels = s.main.dels
        BY <1>1 DEF TaskStates, WorkerPcs, MainPcs
      <3>2. b \in TaskStates /\ b.dels = s.back.dels
        BY <1>1 DEF TaskStates, BackPcs
      <3>3. b = s.back \/ b.pc = "next"
        BY <1>1 DEF TaskStates
      <3>4. q = [s EXCEPT !.main = m, !.back = b]
        BY <1>1, <2>1 DEF Syncs
      <3> HIDE DEF m, b, q
      <3> QED BY <1>1, <3>1, <3>2, <3>3, <3>4 DEF Syncs
    <2>2. CASE ~s.on
      BY <1>1, <1>2, <2>2 DEF Syncs
    <2> QED BY <2>1, <2>2
  <1>5. sync' \in [Gens -> Syncs] /\ sync'[g] = q /\ \A h \in Gens \ {g} : sync'[h] = sync[h]
    <2> HIDE DEF q
    <2> QED BY <1>1, <1>3, <1>4
  <1>6. \A h \in Gens, t \in SyncTasks : sync'[h][t].pc \in PcsOf(t)
    <2> SUFFICES ASSUME NEW h \in Gens, NEW t \in SyncTasks PROVE sync'[h][t].pc \in PcsOf(t)
      OBVIOUS
    <2>1. CASE h # g
      BY <1>5, <2>1 DEF SyncOK
    <2>2. CASE h = g
      <3> HIDE DEF q
      <3>1. s.main.pc \in MainPcs /\ s.back.pc \in BackPcs /\ s.worker.pc \in WorkerPcs
        BY DEF SyncOK, SyncTasks, PcsOf
      <3>2. q.main.pc \in MainPcs /\ q.back.pc \in BackPcs /\ q.worker.pc \in WorkerPcs
        BY <1>4, <3>1 DEF MainPcs, BackPcs
      <3> QED BY <1>5, <2>2, <3>2 DEF SyncTasks, PcsOf
    <2> QED BY <2>1, <2>2
  <1> HIDE DEF q
  <1> QED BY <1>4, <1>5, <1>6 DEF SyncOK, Ready, At

LEMMA TakeMoves ==
    ASSUME SyncOK, RowsOK, SyncAssumption, NEW g \in Gens, Take(g)
    PROVE  /\ SyncOK' /\ UNCHANGED <<World, Rows, seen>> /\ sync[g].queue # <<>>
           /\ \A h \in Gens \ {g} : sync'[h] = sync[h]
           /\ sync'[g].on = sync[g].on /\ sync'[g].main = sync[g].main /\ sync'[g].back = sync[g].back
           /\ sync'[g].worker.dels = {} /\ (sync'[g].worker.pc # "off" => sync[g].on)
PROOF
  <1> DEFINE s == sync[g]
             e == Head(s.queue)
             me == [Off EXCEPT !.page = {e.id}, !.pts = e.pts]
             w == IF ~s.on THEN Off ELSE
                    CASE e.kind = "new"    -> [me EXCEPT !.pc = "live_save"]
                      [] e.kind = "delete" -> [me EXCEPT !.pc = "live_delete"]
                      [] e.kind = "long"   -> Enter(chat.pts, "off")
             q == [s EXCEPT !.queue = Tail(@), !.worker = w]
  <1>1. s \in Syncs /\ sync \in [Gens -> Syncs] /\ s.queue \in Seq(Pushes) /\ s.queue # <<>>
    BY DEF SyncOK, Syncs, Take
  <1>2. Off \in TaskStates /\ Off.pc = "off" /\ Off.dels = {} /\ chat.pts \in 0 .. MaxEvents
    BY OffType DEF RowsOK, ChatRows
  <1>3. e \in Pushes /\ Tail(s.queue) \in Seq(Pushes)
    BY <1>1
  <1>4. me \in TaskStates /\ me.dels = {}
    <2> HIDE DEF e
    <2> QED BY <1>2, <1>3 DEF Pushes, TaskStates
  <1>5. w \in TaskStates /\ w.pc \in WorkerPcs /\ w.dels = {} /\ (w.pc # "off" => s.on)
    <2>1. Enter(chat.pts, "off") \in TaskStates /\ Enter(chat.pts, "off").pc \in {"off", "diff"}
          /\ Enter(chat.pts, "off").dels = {}
      BY <1>2 DEF Enter, TaskStates, WorkerPcs, MainPcs
    <2>2. e.kind \in {"new", "delete", "long"}
      <3> HIDE DEF e
      <3> QED BY <1>3 DEF Pushes
    <2>3. \A pc \in {"live_save", "live_delete"} :
             [me EXCEPT !.pc = pc] \in TaskStates /\ [me EXCEPT !.pc = pc].pc = pc /\ [me EXCEPT !.pc = pc].dels = {}
      <3> HIDE DEF me
      <3> QED BY <1>4 DEF TaskStates, WorkerPcs
    <2>4. CASE ~s.on
      <3>1. w = Off
        <4> HIDE DEF me, e
        <4> QED BY <2>4
      <3> HIDE DEF w
      <3> QED BY <1>2, <2>4, <3>1 DEF WorkerPcs, MainPcs
    <2>5. CASE s.on
      <3>1. w \in {[me EXCEPT !.pc = "live_save"], [me EXCEPT !.pc = "live_delete"], Enter(chat.pts, "off")}
        <4> HIDE DEF me, e
        <4> QED BY <2>2, <2>5
      <3> HIDE DEF w, me
      <3> QED BY <2>1, <2>3, <2>5, <3>1 DEF WorkerPcs, MainPcs
    <2> QED BY <2>4, <2>5
  <1>6. sync' = [sync EXCEPT ![g] = q]
    <2>1. sync' = [sync EXCEPT ![g].queue = Tail(@), ![g].worker = w]
      BY DEF Take
    <2> HIDE DEF w
    <2> QED BY <1>1, <2>1
  <1>7. q \in Syncs /\ q.on = s.on /\ q.main = s.main /\ q.back = s.back /\ q.worker = w
    <2> HIDE DEF w
    <2> QED BY <1>1, <1>3, <1>5 DEF Syncs
  <1>8. sync' \in [Gens -> Syncs] /\ sync'[g] = q /\ \A h \in Gens \ {g} : sync'[h] = sync[h]
    <2> HIDE DEF q
    <2> QED BY <1>1, <1>6, <1>7
  <1>9. \A h \in Gens, t \in SyncTasks : sync'[h][t].pc \in PcsOf(t)
    <2> SUFFICES ASSUME NEW h \in Gens, NEW t \in SyncTasks PROVE sync'[h][t].pc \in PcsOf(t)
      OBVIOUS
    <2>1. CASE h # g
      BY <1>8, <2>1 DEF SyncOK
    <2>2. CASE h = g
      <3> HIDE DEF q, w
      <3>1. s.main.pc \in MainPcs /\ s.back.pc \in BackPcs
        BY DEF SyncOK, SyncTasks, PcsOf
      <3> QED BY <1>5, <1>7, <1>8, <2>2, <3>1 DEF SyncTasks, PcsOf
    <2> QED BY <2>1, <2>2
  <1> HIDE DEF q, w
  <1> QED BY <1>1, <1>5, <1>7, <1>8, <1>9 DEF SyncOK, Take

-----------------------------------------------------------------------------
(* Telegram: a message is numbered after all others, and deleted once. *)

Happened(kind, id) ==
    /\ Pts' = Pts + 1 /\ LogOK'
    /\ \A i \in 1 .. Pts : log'[i] = log[i]
    /\ log'[Pts + 1] = [kind |-> kind, id |-> id]
    /\ Numbers' = Numbers \union (IF kind = "new" THEN {id} ELSE {})
    /\ Deletions' = Deletions \union (IF kind = "delete" THEN {id} ELSE {})

LEMMA Happens ==
    ASSUME TypeInv, NEW kind \in {"new", "delete"}, NEW id \in Ids, Event(kind, id)
    PROVE  Happened(kind, id)
PROOF
  <1> DEFINE e == [kind |-> kind, id |-> id]
  <1>1. /\ SyncAssumption /\ LogOK /\ e \in Events /\ log' = Append(log, e) /\ Pts < MaxEvents /\ channel' = channel
        /\ log \in Seq(Events) /\ Pts \in Nat
    BY TypeParts, SomeType DEF Event, Events, LogOK
  <1>2. /\ log' \in Seq(Events) /\ Len(log') = Len(log) + 1 /\ log'[Len(log) + 1] = e
        /\ \A i \in 1 .. Len(log) : log'[i] = log[i]
    <2> HIDE DEF e
    <2> QED BY <1>1
  <1>3. LogOK'
    BY <1>1, <1>2, Bounds DEF LogOK, Pts
  <1>4. \A k : IdsOf(k, 1, Pts)' = IdsOf(k, 1, Pts) \union (IF kind = k THEN {id} ELSE {})
    <2> SUFFICES ASSUME NEW k PROVE IdsOf(k, 1, Pts)' = IdsOf(k, 1, Pts) \union (IF kind = k THEN {id} ELSE {})
      OBVIOUS
    <2>1. 1 .. Pts + 1 = (1 .. Pts) \union {Pts + 1}
      BY <1>1
    <2>2. Pts' = Pts + 1 /\ log'[Pts + 1] = e /\ \A i \in 1 .. Pts : log'[i] = log[i]
      BY <1>2 DEF Pts
    <2>3. IdsOf(k, 1, Pts)' = {log'[i].id : i \in {j \in 1 .. Pts + 1 : log'[j].kind = k}}
      BY <2>2 DEF IdsOf
    <2>4. e.kind = kind /\ e.id = id
      OBVIOUS
    <2> HIDE DEF e
    <2>5. {log'[i].id : i \in {j \in 1 .. Pts + 1 : log'[j].kind = k}} =
          {log[i].id : i \in {j \in 1 .. Pts : log[j].kind = k}} \union (IF kind = k THEN {id} ELSE {})
      BY <2>1, <2>2, <2>4
    <2> QED BY <2>3, <2>5 DEF IdsOf
  <1>5. Numbers' = Numbers \union (IF kind = "new" THEN {id} ELSE {})
        /\ Deletions' = Deletions \union (IF kind = "delete" THEN {id} ELSE {})
    BY <1>4 DEF Numbers, Deletions
  <1>6. Pts' = Pts + 1 /\ log'[Pts + 1] = e /\ \A i \in 1 .. Pts : log'[i] = log[i]
    BY <1>2 DEF Pts
  <1> QED BY <1>3, <1>5, <1>6 DEF Happened

\* An event of Telegram's.
Happening == NewMessage \/ \E m \in Ids : DeleteMessage(m)

LEMMA NextNumber ==
    ASSUME TypeInv, LogInv, NEW n \in 0 .. Pts, Numbers = 1 .. n
    PROVE  Cardinality(Numbers) = n
  BY TypeParts, SomeType, Bounds, FS_Interval

LEMMA HappeningIs ==
    ASSUME TypeInv, LogInv, Happening
    PROVE  \E kind \in {"new", "delete"}, id \in Ids :
              /\ Event(kind, id) /\ Happened(kind, id)
              /\ kind = "new" => \E n \in 0 .. Pts : Numbers = 1 .. n /\ id = n + 1
              /\ kind = "delete" => id \in Numbers \ Deletions
PROOF
  <1>0. SyncAssumption /\ LogOK /\ Pts \in 0 .. MaxEvents /\ MaxEvents \in Nat
    BY TypeParts, SomeType, Bounds
  <1>1. CASE NewMessage
    <2>1. PICK n \in 0 .. Pts : Numbers = 1 .. n
      BY DEF LogInv
    <2>2. Event("new", n + 1) /\ Pts < MaxEvents
      BY <1>1, <2>1, NextNumber DEF NewMessage, Numbers, Event
    <2>3. n + 1 \in Ids
      BY <1>0, <2>2 DEF Ids
    <2> QED BY <2>1, <2>2, <2>3, Happens
  <1>2. ASSUME NEW m \in Ids, DeleteMessage(m)
        PROVE  Event("delete", m) /\ Happened("delete", m) /\ m \in Numbers \ Deletions
    BY <1>2, Happens DEF DeleteMessage, Existing, Numbers, Deletions
  <1> QED BY <1>1, <1>2 DEF Happening

\* Nothing of the connections changes but a queue, and that only of a channel that is pushed.
TasksStand == \A h \in Gens : sync'[h].on = sync[h].on /\ \A t \in SyncTasks : sync'[h][t] = sync[h][t]

LEMMA EventPushes ==
    ASSUME TypeInv, NEW kind \in {"new", "delete"}, NEW id \in Ids, Event(kind, id), Happened(kind, id)
    PROVE  SyncOK' /\ TasksStand /\ (~channel.pushed => sync' = sync)
PROOF
  <1>1. CASE UNCHANGED sync
    BY <1>1, TypeParts DEF SyncOK, TasksStand
  <1>2. CASE ~UNCHANGED sync
    <2>1. /\ channel.pushed /\ Connected
          /\ \E what \in {kind} \union (IF channel.unsteady THEN {"long"} ELSE {}) :
               sync' = [sync EXCEPT ![gen].queue = Append(@, [kind |-> what, id |-> id, pts |-> Pts'])]
      BY <1>2 DEF Event
    <2>2. PICK what \in {"new", "delete", "long"} :
             sync' = [sync EXCEPT ![gen].queue = Append(@, [kind |-> what, id |-> id, pts |-> Pts'])]
      BY <2>1
    <2> DEFINE e == [kind |-> what, id |-> id, pts |-> Pts']
    <2>3. gen \in Gens /\ SyncOK /\ sync[gen] \in Syncs /\ SyncAssumption
      BY <2>1, TypeParts, Bounds DEF Connected, GenOK, Gens, SyncOK
    <2>4. e \in Pushes
      BY <2>3, Bounds DEF Happened, LogOK, Pushes, Pts
    <2> DEFINE q == [sync[gen] EXCEPT !.queue = Append(@, e)]
    <2>5. /\ q \in Syncs /\ q.on = sync[gen].on /\ \A t \in SyncTasks : q[t] = sync[gen][t]
      <3> HIDE DEF e
      <3> QED BY <2>3, <2>4 DEF Syncs, SyncTasks
    <2>6. sync' \in [Gens -> Syncs] /\ sync'[gen] = q /\ \A h \in Gens \ {gen} : sync'[h] = sync[h]
      <3>1. sync' = [sync EXCEPT ![gen] = q]
        BY <2>2
      <3> HIDE DEF q
      <3> QED BY <2>3, <2>5, <3>1 DEF SyncOK
    <2>7. TasksStand
      <3> HIDE DEF q
      <3> QED BY <2>5, <2>6 DEF TasksStand
    <2> QED BY <2>1, <2>3, <2>6, <2>7 DEF SyncOK, TasksStand
  <1> QED BY <1>1, <1>2

-----------------------------------------------------------------------------
(* Connections. *)

\* A connection comes, and starts; the tasks of the others stay as they are.
LEMMA ConnectMoves ==
    ASSUME TypeInv, Connect
    PROVE  /\ gen + 1 \in Gens /\ gen' = gen + 1 /\ SyncOK' /\ UNCHANGED <<channel, log, Rows, seen>>
           /\ \A h \in Gens \ {gen'} : sync'[h] = sync[h]
           /\ \A t \in {"back", "worker"} : sync'[gen'][t] = sync[gen'][t]
           /\ sync'[gen'].queue = sync[gen'].queue
           /\ sync'[gen'].main.pc = "start" /\ sync'[gen'].main.dels = {}
PROOF
  <1> DEFINE r == [Off EXCEPT !.pc = "start"]
             q == [sync[gen'] EXCEPT !.on = TRUE, !.main = r]
  <1>1. SyncAssumption /\ SyncOK /\ gen \in 0 .. MaxGens /\ gen < MaxGens /\ gen' = gen + 1 /\ MaxGens \in Nat
    BY TypeParts, Bounds DEF GenOK, Connect
  <1>2. gen' \in Gens /\ sync[gen'] \in Syncs
    BY <1>1 DEF Gens, SyncOK
  <1>3. r \in TaskStates /\ r.pc = "start" /\ r.dels = {}
    BY <1>1, OffType DEF TaskStates, WorkerPcs, MainPcs
  <1>4. /\ q \in Syncs /\ q.queue = sync[gen'].queue /\ q.main = r
        /\ q.back = sync[gen'].back /\ q.worker = sync[gen'].worker
    <2> HIDE DEF r
    <2> QED BY <1>2, <1>3 DEF Syncs
  <1>5. sync' \in [Gens -> Syncs] /\ sync'[gen'] = q /\ \A h \in Gens \ {gen'} : sync'[h] = sync[h]
    <2>1. sync' = [sync EXCEPT ![gen'] = q]
      BY DEF Connect
    <2> HIDE DEF q
    <2> QED BY <1>1, <1>2, <1>4, <2>1 DEF SyncOK
  <1>6. \A h \in Gens, t \in SyncTasks : sync'[h][t].pc \in PcsOf(t)
    <2> SUFFICES ASSUME NEW h \in Gens, NEW t \in SyncTasks PROVE sync'[h][t].pc \in PcsOf(t)
      OBVIOUS
    <2>1. CASE h # gen'
      BY <1>1, <1>5, <2>1 DEF SyncOK
    <2>2. CASE h = gen'
      <3> HIDE DEF q, r
      <3>1. sync[h].back.pc \in BackPcs /\ sync[h].worker.pc \in WorkerPcs
        BY <1>1 DEF SyncOK, SyncTasks, PcsOf
      <3>2. q.main.pc \in MainPcs /\ q.back.pc \in BackPcs /\ q.worker.pc \in WorkerPcs
        BY <1>3, <1>4, <2>2, <3>1 DEF MainPcs
      <3> QED BY <1>5, <2>2, <3>2 DEF SyncTasks, PcsOf
    <2> QED BY <2>1, <2>2
  <1>7. UNCHANGED <<channel, log, Rows, seen>>
    BY DEF Connect
  <1> HIDE DEF q, r
  <1> QED BY <1>1, <1>2, <1>3, <1>4, <1>5, <1>6, <1>7 DEF SyncOK

\* It is stopped: its tasks stay.  Or the process ends: they are gone.
LEMMA EndMoves ==
    ASSUME TypeInv, Stop \/ Crash
    PROVE  /\ gen \in Gens /\ SyncOK' /\ UNCHANGED <<World, Rows, seen>>
           /\ \A h \in Gens \ {gen} : sync'[h] = sync[h]
           /\ \A t \in SyncTasks : sync'[gen][t] \in {sync[gen][t], Off}
           /\ sync'[gen].queue \in {sync[gen].queue, <<>>}
PROOF
  <1>1. SyncAssumption /\ SyncOK /\ gen \in Gens /\ sync[gen] \in Syncs /\ UNCHANGED <<World, Rows, seen>>
    BY TypeParts, Bounds DEF GenOK, Gens, Stop, Crash, Connected, SyncOK
  <1>2. PICK q \in Syncs :
          /\ sync' = [sync EXCEPT ![gen] = q]
          /\ q.queue \in {sync[gen].queue, <<>>} /\ \A t \in SyncTasks : q[t] \in {sync[gen][t], Off}
    <2>1. CASE Stop
      <3> DEFINE q == [sync[gen] EXCEPT !.on = FALSE]
      <3>1. q \in Syncs /\ q.queue = sync[gen].queue /\ \A t \in SyncTasks : q[t] = sync[gen][t]
        BY <1>1 DEF Syncs, SyncTasks
      <3>2. sync' = [sync EXCEPT ![gen] = q]
        BY <2>1 DEF Stop
      <3> HIDE DEF q
      <3> QED BY <3>1, <3>2
    <2>2. CASE Crash
      <3>1. NewSync \in Syncs /\ NewSync.queue = <<>> /\ \A t \in SyncTasks : NewSync[t] = Off
        BY <1>1, OffType DEF NewSync, Syncs, SyncTasks
      <3>2. sync' = [sync EXCEPT ![gen] = NewSync]
        BY <2>2 DEF Crash
      <3> QED BY <3>1, <3>2
    <2> QED BY <2>1, <2>2
  <1>3. sync' \in [Gens -> Syncs] /\ sync'[gen] = q /\ \A h \in Gens \ {gen} : sync'[h] = sync[h]
    BY <1>1, <1>2 DEF SyncOK
  <1>4. \A h \in Gens, t \in SyncTasks : sync'[h][t].pc \in PcsOf(t)
    BY <1>1, <1>2, <1>3, OffType DEF SyncOK, SyncTasks, PcsOf, MainPcs, BackPcs, WorkerPcs
  <1> QED BY <1>1, <1>2, <1>3, <1>4 DEF SyncOK

LEMMA WipeMoves ==
    ASSUME TypeInv, Wipe
    PROVE  /\ RowsOK' /\ SeenOK' /\ UNCHANGED <<channel, log, gen, sync>>
           /\ seen'.wipes = seen.wipes + 1 /\ seen'.base = Null /\ seen'.first = Null /\ chat' = NoChat
PROOF
  <1>1. SyncAssumption /\ SeenOK
    BY TypeParts
  <1> QED BY <1>1, Bounds DEF Wipe, RowsOK, ChatRows, NoChat, Null, SeenOK

-----------------------------------------------------------------------------
(* What may happen, in one list. *)

Moves ==
    \/ Happening \/ Connect \/ Stop \/ Crash \/ Wipe
    \/ \E g \in Gens : \/ \E t \in SyncTasks : Step(g, t)
                       \/ Ready(g) \/ Take(g)

LEMMA NextMoves ==
    ASSUME TypeInv, LogInv, [SyncNext]_syncVars
    PROVE  Moves \/ UNCHANGED syncVars
PROOF
  <1>1. ASSUME NEW g \in Gens, NEW t \in {"main", "worker"}, CatchUp(g, t) PROVE Step(g, t)
    BY <1>1, CatchUpStep
  <1>2. ASSUME NEW g \in Gens, Dialogs(g) PROVE Step(g, "main") \/ Ready(g)
    BY <1>2, DialogsStep DEF Dialogs
  <1>3. ASSUME NEW g \in Gens, Backfill(g) PROVE Step(g, "back")
    BY <1>3, BackfillStep
  <1>4. ASSUME NEW g \in Gens, Live(g) PROVE Step(g, "worker") \/ Take(g)
    BY <1>4, LiveStep DEF Live
  <1> QED BY <1>1, <1>2, <1>3, <1>4 DEF SyncNext, Moves, Happening, SyncTasks

\* What a step leaves of the parts of the type, and of the deletions that were fetched.
LEMMA StepType ==
    ASSUME TypeInv, NEW g \in Gens, NEW t \in SyncTasks, Step(g, t)
    PROVE  TypeInv'
PROOF
  <1>1. SyncAssumption /\ LogOK /\ RowsOK /\ SyncOK /\ SeenOK /\ GenOK
    BY TypeParts
  <1>2. SyncOK'
    BY <1>1, SetType DEF Step
  <1>3. LogOK' /\ GenOK' /\ RowsOK' /\ SeenOK'
    BY <1>1 DEF Step, Goes, World, LogOK, GenOK, RowsGrow, Pts
  <1> QED BY <1>1, <1>2, <1>3, TypePartsNext

LEMMA SyncTypeStep ==
    ASSUME TypeInv, LogInv, [SyncNext]_syncVars
    PROVE  TypeInv'
PROOF
  <1>1. SyncAssumption /\ LogOK /\ RowsOK /\ SyncOK /\ SeenOK /\ GenOK
    BY TypeParts
  <1>2. ASSUME UNCHANGED Rows PROVE RowsOK'
    BY <1>1, <1>2 DEF Rows, RowsOK
  <1>3. CASE Happening
    <2>1. PICK kind \in {"new", "delete"}, id \in Ids : Event(kind, id) /\ Happened(kind, id)
      BY <1>3, HappeningIs
    <2>2. SyncOK' /\ LogOK'
      BY <2>1, EventPushes DEF Happened
    <2>3. GenOK' /\ SeenOK' /\ RowsOK'
      BY <1>1, <2>1 DEF Event, GenOK, SeenOK, RowsOK
    <2> QED BY <1>1, <2>2, <2>3, TypePartsNext
  <1>4. CASE Connect
    <2>1. SyncOK' /\ GenOK'
      BY <1>1, <1>4, ConnectMoves, Bounds DEF GenOK, Gens
    <2>2. LogOK' /\ SeenOK'
      BY <1>1, <1>4 DEF Connect, LogOK, SeenOK, Pts
    <2> QED BY <1>1, <1>2, <1>4, <2>1, <2>2, TypePartsNext DEF Connect
  <1>5. CASE Stop \/ Crash
    <2>1. SyncOK' /\ UNCHANGED <<World, Rows, seen>>
      BY <1>5, EndMoves
    <2>2. LogOK' /\ SeenOK' /\ GenOK'
      BY <1>1, <2>1 DEF World, LogOK, SeenOK, GenOK, Pts
    <2> QED BY <1>1, <1>2, <2>1, <2>2, TypePartsNext
  <1>6. CASE Wipe
    <2>1. RowsOK' /\ SeenOK' /\ UNCHANGED <<channel, log, gen, sync>>
      BY <1>6, WipeMoves
    <2>2. LogOK' /\ SyncOK' /\ GenOK'
      BY <1>1, <2>1 DEF LogOK, SyncOK, GenOK, Pts
    <2> QED BY <1>1, <2>1, <2>2, TypePartsNext
  <1>7. ASSUME NEW g \in Gens, Ready(g) \/ Take(g) PROVE TypeInv'
    <2>1. SyncOK' /\ UNCHANGED <<World, Rows, seen>>
      BY <1>1, <1>7, ReadyMoves, TakeMoves
    <2>2. LogOK' /\ SeenOK' /\ GenOK'
      BY <1>1, <2>1 DEF World, LogOK, SeenOK, GenOK, Pts
    <2> QED BY <1>1, <1>2, <2>1, <2>2, TypePartsNext
  <1>8. CASE UNCHANGED syncVars
    BY <1>1, <1>8, TypePartsNext DEF syncVars, LogOK, RowsOK, SyncOK, SeenOK, GenOK, Pts
  <1> QED BY <1>3, <1>4, <1>5, <1>6, <1>7, <1>8, NextMoves, StepType DEF Moves

-----------------------------------------------------------------------------
(* The log, and the connection at work. *)

LEMMA LogStep ==
    ASSUME TypeInv, LogInv, [SyncNext]_syncVars
    PROVE  LogInv'
PROOF
  <1>1. SyncAssumption /\ LogOK /\ SyncOK /\ Pts \in Nat
    BY TypeParts, SomeType
  <1> DEFINE Taken(s, d) == \A g \in Gens, t \in SyncTasks : s[g][t].dels \subseteq d
  <1>2. Taken(sync, Deletions)
    BY DEF LogInv
  <1>3. ASSUME UNCHANGED log, Taken(sync', Deletions)
        PROVE  LogInv'
    <2>1. Numbers' = Numbers /\ Deletions' = Deletions /\ Pts' = Pts
      BY <1>3 DEF Numbers, Deletions, IdsOf, Pts
    <2>2. (\E n \in 0 .. Pts : Numbers = 1 .. n)'
      BY <2>1 DEF LogInv
    <2>3. (\A i, j \in 1 .. Pts : log[i].kind = "delete" /\ log[j].kind = "delete" /\ log[i].id = log[j].id => i = j)'
      BY <1>3, <2>1 DEF LogInv
    <2> QED BY <1>3, <2>1, <2>2, <2>3 DEF LogInv
  <1>4. CASE Happening
    <2>1. PICK kind \in {"new", "delete"}, id \in Ids :
             /\ Event(kind, id) /\ Happened(kind, id)
             /\ kind = "new" => \E n \in 0 .. Pts : Numbers = 1 .. n /\ id = n + 1
             /\ kind = "delete" => id \in Numbers \ Deletions
      BY <1>4, HappeningIs
    <2>2. \E m \in 0 .. Pts' : Numbers' = 1 .. m
      <3>1. PICK n \in 0 .. Pts : Numbers = 1 .. n /\ (kind = "new" => id = n + 1)
        BY <2>1 DEF LogInv
      <3>2. CASE kind = "new"
        <4>1. n + 1 \in 0 .. Pts' /\ Numbers' = (1 .. n) \union {n + 1}
          BY <1>1, <2>1, <3>1, <3>2 DEF Happened
        <4>2. (1 .. n) \union {n + 1} = 1 .. n + 1
          BY <1>1
        <4> QED BY <4>1, <4>2
      <3>3. CASE kind = "delete"
        BY <1>1, <2>1, <3>1, <3>3 DEF Happened
      <3> QED BY <3>2, <3>3
    <2>3. ASSUME NEW i \in 1 .. Pts', NEW j \in 1 .. Pts',
                 log'[i].kind = "delete", log'[j].kind = "delete", log'[i].id = log'[j].id
          PROVE  i = j
      <3>1. \A k \in 1 .. Pts' : k \in 1 .. Pts \/ k = Pts + 1
        BY <1>1, <2>1 DEF Happened
      <3>2. \A k \in 1 .. Pts : log'[k] = log[k] /\ (log[k].kind = "delete" => log[k].id \in Deletions)
        BY <2>1 DEF Happened, Deletions, IdsOf
      <3>3. log'[Pts + 1].kind = "delete" => log'[Pts + 1].id \notin Deletions
        BY <2>1 DEF Happened
      <3>4. i \in 1 .. Pts /\ j \in 1 .. Pts => i = j
        BY <2>3, <3>2 DEF LogInv
      <3> QED BY <2>3, <3>1, <3>2, <3>3, <3>4
    <2>4. (\A i, j \in 1 .. Pts : log[i].kind = "delete" /\ log[j].kind = "delete" /\ log[i].id = log[j].id => i = j)'
      BY <2>3
    <2>5. Taken(sync', Deletions')
      BY <1>2, <2>1, EventPushes DEF TasksStand, Happened
    <2> QED BY <2>2, <2>4, <2>5 DEF LogInv
  <1>5. ASSUME NEW g \in Gens, NEW t \in SyncTasks, Step(g, t) PROVE LogInv'
    <2>1. Taken(sync', Deletions)
      <3>1. PICK r \in TaskStates : Moved(g, t, r) /\ r.dels \subseteq Deletions
        BY <1>1, <1>5, SetMoves DEF Step
      <3> QED BY <1>2, <3>1 DEF Moved
    <2> QED BY <1>3, <1>5, <2>1 DEF Step, Goes, World
  <1>6. ASSUME NEW g \in Gens, Ready(g) PROVE LogInv'
    <2>1. Taken(sync', Deletions)
      BY <1>1, <1>2, <1>6, ReadyMoves DEF SyncTasks
    <2> QED BY <1>1, <1>3, <1>6, <2>1, ReadyMoves DEF World
  <1>7. ASSUME NEW g \in Gens, Take(g) PROVE LogInv'
    <2>1. RowsOK
      BY TypeParts
    <2>2. Taken(sync', Deletions)
      BY <1>1, <1>2, <1>7, <2>1, TakeMoves DEF SyncTasks
    <2> QED BY <1>1, <1>3, <1>7, <2>1, <2>2, TakeMoves DEF World
  <1>8. CASE Connect
    <2>1. Taken(sync', Deletions)
      BY <1>2, <1>8, ConnectMoves DEF SyncTasks
    <2> QED BY <1>3, <1>8, <2>1, ConnectMoves
  <1>9. CASE Stop \/ Crash
    <2>1. Off.dels = {}
      BY <1>1, OffType
    <2>2. Taken(sync', Deletions)
      BY <1>2, <1>9, <2>1, EndMoves
    <2> QED BY <1>3, <1>9, <2>2, EndMoves DEF World
  <1>10. CASE Wipe
    BY <1>2, <1>3, <1>10, WipeMoves
  <1>11. CASE UNCHANGED syncVars
    BY <1>2, <1>3, <1>11 DEF syncVars
  <1> QED BY <1>4, <1>5, <1>6, <1>7, <1>8, <1>9, <1>10, <1>11, NextMoves DEF Moves

\* Where a connection is not set up before the one before it is at rest, one is at work.
LEMMA OneStep ==
    ASSUME TypeInv, LogInv, ~Overlap, OneAtWork, [SyncNext]_syncVars
    PROVE  OneAtWork'
PROOF
  <1>1. SyncAssumption /\ SyncOK /\ RowsOK /\ gen \in 0 .. MaxGens
    BY TypeParts DEF GenOK
  <1> DEFINE AtRest(s, g) == ~s[g].on /\ \A t \in SyncTasks : s[g][t].pc = "off"
  <1>2. \A g \in Gens \ {gen} : AtRest(sync, g)
    BY DEF OneAtWork, At
  <1>3. ASSUME gen' = gen, \A g \in Gens \ {gen} : sync'[g] = sync[g]
        PROVE  OneAtWork'
    BY <1>2, <1>3 DEF OneAtWork, At
  <1>4. CASE Happening
    <2>1. TasksStand /\ gen' = gen
      BY <1>4, HappeningIs, EventPushes DEF Event
    <2> QED BY <1>2, <2>1 DEF TasksStand, OneAtWork, At
  <1>5. ASSUME NEW g \in Gens, NEW t \in SyncTasks, Step(g, t) PROVE OneAtWork'
    <2>1. g = gen
      BY <1>2, <1>5 DEF Step, At
    <2>2. \A h \in Gens \ {g} : sync'[h] = sync[h]
      BY <1>1, <1>5, SetMoves DEF Step, Moved
    <2> QED BY <1>3, <1>5, <2>1, <2>2 DEF Step, Goes, World
  <1>6. ASSUME NEW g \in Gens, Ready(g) PROVE OneAtWork'
    <2>1. g = gen
      BY <1>1, <1>2, <1>6, ReadyMoves DEF At, SyncTasks
    <2> QED BY <1>1, <1>3, <1>6, <2>1, ReadyMoves DEF World
  <1>7. ASSUME NEW g \in Gens, Take(g) PROVE OneAtWork'
    <2>1. gen' = gen /\ \A h \in Gens \ {g} : sync'[h] = sync[h]
      BY <1>1, <1>7, TakeMoves DEF World
    <2>2. CASE g = gen
      BY <1>3, <2>1, <2>2
    <2>3. CASE g # gen
      <3>1. ~sync[g].on /\ \A t \in SyncTasks : sync[g][t].pc = "off"
        BY <1>2, <2>3
      <3>2. ~sync'[g].on /\ \A t \in SyncTasks : sync'[g][t].pc = "off"
        <4>1. /\ sync'[g].on = sync[g].on /\ sync'[g].main = sync[g].main /\ sync'[g].back = sync[g].back
              /\ (sync'[g].worker.pc # "off" => sync[g].on)
          BY <1>1, <1>7, TakeMoves
        <4> QED BY <3>1, <4>1 DEF SyncTasks
      <3> QED BY <1>2, <2>1, <3>2 DEF OneAtWork, At
    <2> QED BY <2>2, <2>3
  <1>8. CASE Connect
    <2>1. /\ gen + 1 \in Gens /\ gen' = gen + 1 /\ \A h \in Gens \ {gen'} : sync'[h] = sync[h]
      BY <1>8, ConnectMoves
    <2>2. \A g \in Gens : ~sync[g].on /\ \A t \in SyncTasks : sync[g][t].pc = "off"
      <3>1. \A g \in Gens, t \in SyncTasks : At(g, t, "off")
        BY <1>8 DEF Connect
      <3>2. ~Connected
        BY <1>8 DEF Connect
      <3>3. \A g \in Gens : g # 0
        BY <1>1, Bounds DEF Gens
      <3>4. \A g \in Gens : ~sync[g].on
        BY <1>2, <3>2, <3>3 DEF Connected
      <3> QED BY <3>1, <3>4 DEF At
    <2> QED BY <2>1, <2>2 DEF OneAtWork, At
  <1>9. CASE Stop \/ Crash
    BY <1>3, <1>9, EndMoves DEF World
  <1>10. CASE Wipe
    BY <1>3, <1>10, WipeMoves
  <1>11. CASE UNCHANGED syncVars
    BY <1>3, <1>11 DEF syncVars
  <1> QED BY <1>4, <1>5, <1>6, <1>7, <1>8, <1>9, <1>10, <1>11, NextMoves DEF Moves

LEMMA TypeInit ==
    ASSUME SyncAssumption, SyncInit
    PROVE  TypeInv /\ LogInv
PROOF
  <1>1. NewSync \in Syncs /\ \A t \in SyncTasks : NewSync[t] = Off
    BY OffType DEF NewSync, Syncs, SyncTasks
  <1>2. sync \in [Gens -> Syncs] /\ \A g \in Gens, t \in SyncTasks : sync[g][t] = Off
    BY <1>1 DEF SyncInit
  <1>3. LogOK /\ Pts = 0
    BY Bounds DEF SyncInit, LogOK, Pts
  <1>4. RowsOK /\ SeenOK /\ GenOK
    BY Bounds DEF SyncInit, RowsOK, ChatRows, NoChat, Null, SeenOK, GenOK
  <1>5. SyncOK
    BY <1>2, OffType DEF SyncOK, PcsOf, SyncTasks, MainPcs, BackPcs, WorkerPcs
  <1>6. TypeInv
    BY <1>3, <1>4, <1>5, TypeParts
  <1>7. Numbers = {} /\ Numbers = 1 .. 0
    BY <1>3 DEF Numbers, IdsOf
  <1>8. LogInv
    BY <1>2, <1>3, <1>7, OffType DEF LogInv
  <1> QED BY <1>6, <1>8

\* What is stored of a channel and of the connections that store it is well formed.
THEOREM SyncTypeCorrect == SyncAssumption => (SyncSpec => []SyncTypeOK)
PROOF
  <1> SUFFICES ASSUME SyncAssumption PROVE SyncSpec => []SyncTypeOK
    OBVIOUS
  <1>1. SyncInit => TypeInv /\ LogInv
    BY TypeInit
  <1>2. TypeInv /\ LogInv /\ [SyncNext]_syncVars => TypeInv' /\ LogInv'
    BY SyncTypeStep, LogStep
  <1>3. TypeInv => SyncTypeOK
    BY DEF TypeInv
  <1> QED BY <1>1, <1>2, <1>3, PTL DEF SyncSpec

\* Two connections or one, pushed or not: no task of any stores a message again, once it
\* is stored as deleted, but after the session's rows were wiped.
THEOREM TombstonesKept == SyncAssumption => (SyncSpec => TombstonesStay)
PROOF
  <1> SUFFICES ASSUME SyncAssumption PROVE SyncSpec => TombstonesStay
    OBVIOUS
  <1> DEFINE Stays == seen'.wipes > seen.wipes \/ (tomb \subseteq tomb' /\ msgs' \intersect tomb = {})
  <1>1. SyncInit => TypeInv /\ LogInv
    BY TypeInit
  <1>2. TypeInv /\ LogInv /\ [SyncNext]_syncVars => TypeInv' /\ LogInv'
    BY SyncTypeStep, LogStep
  <1>3. TypeInv /\ LogInv /\ [SyncNext]_syncVars => [Stays]_syncVars
    <2> SUFFICES ASSUME TypeInv, LogInv, [SyncNext]_syncVars PROVE [Stays]_syncVars
      OBVIOUS
    <2>1. RowsOK /\ SyncOK /\ SeenOK
      BY TypeParts
    <2>2. ASSUME UNCHANGED <<msgs, tomb>> PROVE Stays
      BY <2>1, <2>2 DEF RowsOK
    <2>3. CASE Happening
      BY <2>2, <2>3, HappeningIs DEF Event
    <2>4. CASE Connect
      BY <2>2, <2>4, ConnectMoves DEF Rows
    <2>5. CASE Stop \/ Crash
      BY <2>2, <2>5, EndMoves DEF Rows
    <2>6. CASE Wipe
      <3>1. seen.wipes \in Nat
        BY <2>1, Bounds DEF SeenOK
      <3> QED BY <2>6, <3>1, WipeMoves
    <2>7. ASSUME NEW g \in Gens, NEW t \in SyncTasks, Step(g, t) PROVE Stays
      BY <2>7 DEF Step, Goes, RowsGrow
    <2>8. ASSUME NEW g \in Gens, Ready(g) \/ Take(g) PROVE Stays
      BY <2>1, <2>2, <2>8, ReadyMoves, TakeMoves DEF Rows
    <2> HIDE DEF Stays
    <2> QED BY <2>3, <2>4, <2>5, <2>6, <2>7, <2>8, NextMoves DEF Moves
  <1> QED BY <1>1, <1>2, <1>3, PTL DEF SyncSpec, TombstonesStay

-----------------------------------------------------------------------------
(* What backfill leaves behind it. *)

\* A page goes on to the newest of what it is a page of.
LEMMA PageUp ==
    ASSUME SyncAssumption, NEW S \in SUBSET Ids, NEW x \in Page(S), NEW m \in S, x <= m
    PROVE  m \in Page(S)
PROOF
  <1> DEFINE Above(k) == {n \in S : n > k}
  <1>1. x \in S /\ Cardinality(Above(x)) < PageSize
    BY DEF Page
  <1>2. Above(m) \subseteq Above(x)
    <2>1. \A n \in S : n \in Nat
      BY Bounds DEF Ids
    <2>2. \A n \in S : n > m => n > x
      BY <1>1, <2>1
    <2> QED BY <2>2
  <1>3. IsFiniteSet(Above(x)) /\ Cardinality(Above(x)) \in Nat /\ Cardinality(Above(m)) \in Nat
    <2>1. Above(x) \in SUBSET Ids /\ Above(m) \in SUBSET Ids
      OBVIOUS
    <2> HIDE DEF Above
    <2> QED BY <2>1, PageFinite
  <1>4. Cardinality(Above(m)) <= Cardinality(Above(x))
    <2> HIDE DEF Above
    <2> QED BY <1>2, <1>3, FS_Subset
  <1>5. Cardinality(Above(m)) < PageSize
    <2> HIDE DEF Above
    <2> QED BY <1>1, <1>3, <1>4, Bounds
  <1> QED BY <1>5 DEF Page

\* What a step that is none of backfill's changes of what backfill is about.
Elsewhere ==
    /\ Numbers \subseteq Numbers'
    /\ \A m \in Existing' : m \in Ids /\ (m \in Existing \/ \A x \in Numbers : x < m)
    /\ seen'.wipes = 0 => /\ seen.wipes = 0 /\ Stored \subseteq Stored' /\ (chat.known => chat'.known)
                          /\ chat'.cursor = chat.cursor /\ seen'.first = seen.first
    /\ {chat'.cursor, seen'.first} \subseteq {chat.cursor, seen.first, Null}

LEMMA FillingStays ==
    ASSUME TypeInv, NEW me \in TaskStates, Filling(me), Elsewhere
    PROVE  Filling(me)'
PROOF
  <1>0. Numbers \subseteq Ids /\ SyncAssumption /\ (Null \notin Ids)
    BY TypeParts, SomeType, IdsOfType, Bounds DEF Ids, Null, Numbers
  <1>1. me.pc \in Fetched \union {"page"} =>
           /\ me.offset # Null => me.offset \in Numbers'
           /\ seen'.wipes = 0 => chat'.known /\ me.offset = chat'.cursor
    BY DEF Filling, Elsewhere
  <1>2. ASSUME me.pc \in Fetched,
               NEW x \in me.page, NEW m \in Existing',
               x <= m, IF me.offset = Null THEN \E y \in me.page : m <= y ELSE m < me.offset
        PROVE  m \in me.page
    <2>1. me.page \subseteq Numbers /\ (me.offset # Null => me.offset \in Numbers)
      BY <1>2 DEF Filling
    <2>2. CASE m \in Existing
      BY <1>2, <2>2 DEF Filling
    <2>3. CASE m \notin Existing
      <3>1. m \in Ids /\ \A y \in Numbers : y < m
        BY <2>3 DEF Elsewhere
      <3>2. \A y \in Numbers : y \in Nat /\ m \in Nat /\ ~(m <= y)
        BY <1>0, <3>1, Bounds DEF Ids
      <3> QED BY <1>2, <2>1, <3>2
    <2> QED BY <2>2, <2>3
  <1>3. me.pc \in Fetched => me.page \subseteq Numbers'
    BY DEF Filling, Elsewhere
  <1>4. me.pc = "page_record" /\ seen'.wipes = 0 => me.page \subseteq msgs' \union tomb'
    BY DEF Filling, Elsewhere, Stored
  <1> QED BY <1>1, <1>2, <1>3, <1>4 DEF Filling

LEMMA HoleStays ==
    ASSUME TypeInv, HoleInv, Elsewhere
    PROVE  BackfillLeavesNoHole' /\ ({chat.cursor, seen.first} \ {Null} \subseteq Numbers)'
PROOF
  <1>1. ({chat.cursor, seen.first} \ {Null} \subseteq Numbers)'
    BY DEF Elsewhere, HoleInv, Null
  <1>2. ASSUME chat'.cursor # Null, seen'.wipes = 0,
               NEW m \in Existing', chat'.cursor <= m, m <= seen'.first
        PROVE  m \in msgs' \union tomb'
    <2>1. seen.wipes = 0 /\ Stored \subseteq Stored' /\ chat'.cursor = chat.cursor /\ seen'.first = seen.first
      BY <1>2 DEF Elsewhere
    <2>2. m \in Existing
      <3>1. m \in Ids /\ seen.first \in 0 .. MaxEvents
        BY <1>2, TypeParts DEF Elsewhere, SeenOK
      <3>2. seen.first \in Numbers
        BY <1>2, <2>1, <3>1, TypeParts, Bounds DEF HoleInv, Null, Ids
      <3>3. ~(seen.first < m)
        BY <1>2, <2>1, <3>1, TypeParts, Bounds DEF Ids
      <3> QED BY <3>2, <3>3 DEF Elsewhere
    <2> QED BY <1>2, <2>1, <2>2 DEF HoleInv, BackfillLeavesNoHole, Stored
  <1> QED BY <1>1, <1>2 DEF BackfillLeavesNoHole

\* The same log, or one event more.
LEMMA ElsewhereIs ==
    ASSUME TypeInv, LogInv,
           UNCHANGED log \/ Happening,
           seen'.wipes = 0 => /\ seen.wipes = 0 /\ Stored \subseteq Stored' /\ (chat.known => chat'.known)
                              /\ chat'.cursor = chat.cursor /\ seen'.first = seen.first,
           {chat'.cursor, seen'.first} \subseteq {chat.cursor, seen.first, Null}
    PROVE  Elsewhere
PROOF
  <1>1. SyncAssumption /\ LogOK /\ Existing \subseteq Ids
    BY TypeParts, SomeType
  <1>2. Numbers \subseteq Numbers' /\ \A m \in Existing' : m \in Ids /\ (m \in Existing \/ \A x \in Numbers : x < m)
    <2>1. CASE UNCHANGED log
      BY <1>1, <2>1 DEF Numbers, Existing, IdsOf, Pts
    <2>2. CASE Happening
      <3>1. PICK kind \in {"new", "delete"}, id \in Ids :
               /\ Happened(kind, id)
               /\ kind = "new" => \E n \in 0 .. Pts : Numbers = 1 .. n /\ id = n + 1
        BY <2>2, HappeningIs
      <3>2. Existing = Numbers \ Deletions /\ Existing' = Numbers' \ Deletions'
        BY DEF Existing, Numbers, Deletions
      <3>3. kind = "new" => \A x \in Numbers : x < id
        BY <1>1, <3>1, SomeType
      <3> QED BY <1>1, <3>1, <3>2, <3>3 DEF Happened
    <2> QED BY <2>1, <2>2
  <1> QED BY <1>2 DEF Elsewhere

\* A step that leaves every backfill as it was, or has it look for what is next, or end.
LEMMA OthersLeaveNoHole ==
    ASSUME TypeInv, LogInv, HoleInv, Elsewhere,
           \A g \in Gens : sync'[g].back = sync[g].back \/ sync'[g].back.pc \in {"off", "next"}
    PROVE  HoleInv'
PROOF
  <1>1. \A g \in Gens : Filling(sync[g].back)'
    <2> SUFFICES ASSUME NEW g \in Gens PROVE Filling(sync[g].back)'
      OBVIOUS
    <2>1. CASE sync'[g].back.pc \in {"off", "next"}
      BY <2>1 DEF Filling, Fetched
    <2>2. CASE sync'[g].back = sync[g].back
      <3>1. PICK me \in TaskStates : me = sync[g].back
        BY TypeParts DEF SyncOK, Syncs
      <3>2. Filling(me)'
        BY <3>1, FillingStays DEF HoleInv
      <3> QED BY <2>2, <3>1, <3>2 DEF Filling
    <2> QED BY <2>1, <2>2
  <1> QED BY <1>1, HoleStays DEF HoleInv

\* A step of the backfill that is at work.
LEMMA BackfillGoes ==
    ASSUME TypeInv, LogInv, OneAtWork, NEW g \in Gens, Step(g, "back"),
           BackfillLeavesNoHole', ({chat.cursor, seen.first} \ {Null} \subseteq Numbers)', Filling(sync[g].back)'
    PROVE  HoleInv'
PROOF
  <1>1. g = gen /\ \A h \in Gens \ {g} : sync'[h] = sync[h]
    BY TypeParts, SetMoves DEF Step, Moved, OneAtWork, SyncTasks
  <1>2. \A h \in Gens \ {g} : sync[h].back.pc = "off"
    BY <1>1 DEF OneAtWork, At, SyncTasks
  <1>3. \A h \in Gens : Filling(sync[h].back)'
    BY <1>1, <1>2 DEF Filling, Fetched
  <1> QED BY <1>3 DEF HoleInv

LEMMA BackfillHole ==
    ASSUME TypeInv, LogInv, OneAtWork, HoleInv, NEW g \in Gens, Backfill(g)
    PROVE  HoleInv'
PROOF
  <1>1. /\ SyncAssumption /\ LogOK /\ RowsOK /\ SyncOK /\ SeenOK /\ Step(g, "back") /\ "back" \in SyncTasks
    BY TypeParts, BackfillStep DEF SyncTasks
  <1>2. PICK me \in TaskStates : me = sync[g].back
    BY <1>1 DEF SyncOK, Syncs
  <1>3. Filling(me) /\ me.page \in SUBSET Ids /\ me.offset \in 0 .. MaxEvents
    BY <1>2 DEF HoleInv, TaskStates
  <1>4. UNCHANGED <<channel, log, gen>> /\ RowsGrow /\ seen'.wipes = seen.wipes
    BY <1>1 DEF Step, Goes, World
  <1>5. Numbers' = Numbers /\ Existing' = Existing
    BY <1>4 DEF Numbers, Existing, IdsOf, Pts
  <1>6. ASSUME chat'.cursor = chat.cursor, seen'.first = seen.first PROVE Elsewhere
    BY <1>4, <1>6, ElsewhereIs DEF RowsGrow
  <1>7. ASSUME NEW r, Set(g, "back", r), chat'.cursor = chat.cursor, seen'.first = seen.first, Filling(r)'
        PROVE  HoleInv'
    <2>1. sync'[g].back = r
      BY <1>1, <1>7, SetMoves DEF Moved
    <2>2. Filling(sync[g].back)'
      BY <1>7, <2>1 DEF Filling
    <2> QED BY <1>1, <1>6, <1>7, <2>2, HoleStays, BackfillGoes
  <1>8. ASSUME NEW r, r.pc \in {"off", "next"} PROVE Filling(r)'
    BY <1>8 DEF Filling, Fetched
  <1>9. ASSUME Goto(g, "back", "next") PROVE \E r : Set(g, "back", r) /\ r.pc = "next"
    <2>1. "next" \in PcsOf("back")
      BY DEF PcsOf, BackPcs
    <2> DEFINE r == [sync[g]["back"] EXCEPT !.pc = "next"]
    <2>2. Set(g, "back", r) /\ r.pc = "next"
      BY <1>1, <1>9, <2>1, GotoSets
    <2> HIDE DEF r
    <2> QED BY <2>2
  <1>10. CASE BackNext(g)
    <2>1. PICK r : /\ chat' = chat /\ seen' = seen /\ Set(g, "back", r)
                   /\ r = IF sync[g].on /\ chat.known /\ ~chat.stopped
                          THEN [Off EXCEPT !.pc = "page", !.offset = chat.cursor, !.round = chat.count] ELSE Off
      BY <1>10 DEF BackNext, Rows
    <2>2. \/ r.pc = "off"
          \/ r.pc = "page" /\ r.offset = chat.cursor /\ chat.known
      BY <2>1 DEF Off
    <2>3. Filling(r)'
      BY <1>5, <2>1, <2>2 DEF Filling, Fetched, HoleInv
    <2> QED BY <1>7, <2>1, <2>3
  <1>11. CASE BackFetch(g)
    <2> DEFINE older == {m \in Existing : me.offset = Null \/ m < me.offset}
    <2> PICK r : r = [me EXCEPT !.pc = "page_save", !.page = Page(older)]
      OBVIOUS
    <2>1. me.pc = "page" /\ seen' = seen
      BY <1>2, <1>11 DEF BackFetch, At
    <2>2. \/ Goto(g, "back", "next") /\ chat'.cursor = chat.cursor
          \/ Set(g, "back", r) /\ chat' = chat
      <3>1. chat' = (IF chat.known THEN [chat EXCEPT !.stopped = TRUE] ELSE chat) => chat'.cursor = chat.cursor
        BY <1>1 DEF RowsOK, ChatRows
      <3> QED BY <1>2, <1>11, <3>1 DEF BackFetch
    <2>3. CASE Goto(g, "back", "next") /\ chat'.cursor = chat.cursor
      BY <1>7, <1>8, <1>9, <2>1, <2>3
    <2>4. CASE Set(g, "back", r) /\ chat' = chat
      <3>1. older \in SUBSET Ids /\ older \subseteq Existing /\ Existing \subseteq Numbers
        BY <1>1, SomeType
      <3>2. Page(older) \subseteq older
        <4> HIDE DEF older
        <4> QED BY DEF Page
      <3>3. ASSUME NEW x \in Page(older), NEW m \in Existing, x <= m,
                   IF me.offset = Null THEN \E y \in Page(older) : m <= y ELSE m < me.offset
            PROVE  m \in Page(older)
        <4>1. m \in older
          BY <3>3
        <4> HIDE DEF older
        <4> QED BY <1>1, <3>1, <3>3, <4>1, PageUp
      <3>4. /\ r.pc = "page_save" /\ r.offset = me.offset /\ r.page = Page(older)
        <4> HIDE DEF older
        <4> QED BY DEF TaskStates
      <3>5. (me.offset # Null => me.offset \in Numbers) /\ (seen.wipes = 0 => chat.known /\ me.offset = chat.cursor)
        BY <1>3, <2>1 DEF Filling
      <3>6. Filling(r)'
        <4> HIDE DEF older
        <4> QED BY <1>5, <2>1, <2>4, <3>1, <3>2, <3>3, <3>4, <3>5 DEF Filling, Fetched
      <3> QED BY <1>7, <2>1, <2>4, <3>6
    <2> QED BY <2>2, <2>3, <2>4
  <1>12. CASE BackSave(g)
    <2> PICK r : r = [me EXCEPT !.pc = "page_record"]
      OBVIOUS
    <2>1. me.pc = "page_save" /\ seen' = seen /\ Save(me.page) /\ Goto(g, "back", "page_record")
      BY <1>2, <1>12 DEF BackSave, At
    <2>2. me.page \subseteq Stored' /\ chat'.cursor = chat.cursor
      BY <1>1, <1>3, <2>1, SaveGrows
    <2>3. Set(g, "back", r) /\ r.pc = "page_record" /\ r.page = me.page /\ r.offset = me.offset
      <3>1. "page_record" \in PcsOf("back")
        BY DEF PcsOf, BackPcs
      <3> QED BY <1>1, <1>2, <2>1, <3>1, GotoSets
    <2>4. Filling(me)'
      BY <1>3, <1>6, <2>1, <2>2, FillingStays
    <2>5. Filling(r)'
      <3> QED BY <2>1, <2>2, <2>3, <2>4 DEF Filling, Fetched, Stored
    <2> QED BY <1>7, <2>1, <2>2, <2>3, <2>5
  <1>13. CASE BackRecord(g)
    <2>1. me.pc = "page_record" /\ UNCHANGED <<msgs, tomb>> /\ Goto(g, "back", "next")
      BY <1>2, <1>13 DEF BackRecord, At
    <2>2. Filling(sync[g].back)'
      <3>1. sync'[g].back.pc = "next"
        BY <1>1, <1>9, <2>1, SetMoves DEF Moved
      <3> QED BY <3>1 DEF Filling, Fetched
    <2>3. CASE ~chat.known
      <3>1. chat' = chat /\ seen' = seen
        BY <1>13, <2>3 DEF BackRecord
      <3> QED BY <1>1, <1>6, <2>2, <3>1, HoleStays, BackfillGoes
    <2>4. CASE chat.known
      <3>1. chat'.cursor = IF me.page = {} THEN chat.cursor ELSE Min(me.page)
        <4>1. \E c, s : chat' = [chat EXCEPT !.cursor = IF me.page = {} THEN @ ELSE Min(me.page), !.count = c, !.stopped = s]
          BY <1>2, <1>13, <2>4 DEF BackRecord
        <4> QED BY <1>1, <4>1 DEF RowsOK, ChatRows
      <3>2. seen'.first = IF chat.cursor = Null THEN Newest(me.page) ELSE seen.first
        BY <1>1, <1>2, <1>13, <2>4 DEF BackRecord, SeenOK
      <3>3. me.page # {} => /\ Newest(me.page) \in me.page /\ \A y \in me.page : y <= Newest(me.page)
                            /\ Min(me.page) \in me.page /\ \A y \in me.page : Min(me.page) <= y
        BY <1>1, <1>3, ExtremeType
      <3>4. me.page = {} => Newest(me.page) = Null
        BY DEF Newest
      <3>5. /\ me.page \subseteq Numbers /\ (me.offset # Null => me.offset \in Numbers)
            /\ \A x \in me.page, m \in Existing :
                 x <= m /\ (IF me.offset = Null THEN \E y \in me.page : m <= y ELSE m < me.offset) => m \in me.page
            /\ seen.wipes = 0 => me.offset = chat.cursor /\ me.page \subseteq msgs \union tomb
        BY <1>3, <2>1 DEF Filling, Fetched
      <3>6. ({chat.cursor, seen.first} \ {Null} \subseteq Numbers)'
        BY <1>5, <3>1, <3>2, <3>3, <3>4, <3>5 DEF HoleInv
      <3>7. ASSUME chat'.cursor # Null, seen'.wipes = 0, NEW m \in Existing', chat'.cursor <= m, m <= seen'.first
            PROVE  m \in msgs' \union tomb'
        <4>1. /\ m \in Existing /\ seen.wipes = 0 /\ me.offset = chat.cursor /\ me.page \subseteq msgs \union tomb
              /\ msgs' = msgs /\ tomb' = tomb
          BY <1>4, <1>5, <2>1, <3>5, <3>7
        <4>2. CASE me.page = {}
          <5>1. chat'.cursor = chat.cursor /\ chat.cursor # Null /\ seen'.first = seen.first
            BY <3>1, <3>2, <3>7, <4>2
          <5> QED BY <3>7, <4>1, <5>1 DEF HoleInv, BackfillLeavesNoHole
        <4>3. CASE me.page # {} /\ chat.cursor = Null
          <5>1. Min(me.page) <= m /\ m <= Newest(me.page)
            BY <3>1, <3>2, <3>7, <4>3
          <5>2. m \in me.page
            BY <3>3, <3>5, <4>1, <4>3, <5>1
          <5> QED BY <4>1, <5>2
        <4>4. CASE me.page # {} /\ chat.cursor # Null
          <5>1. Min(me.page) <= m /\ m <= seen.first
            BY <3>1, <3>2, <3>7, <4>4
          <5>2. m \in Nat /\ chat.cursor \in Nat
            BY <1>1, <4>1, SomeType, Bounds DEF Ids, RowsOK, ChatRows
          <5>3. CASE m < chat.cursor
            <6>1. m \in me.page
              BY <3>3, <3>5, <4>1, <4>4, <5>1, <5>3
            <6> QED BY <4>1, <6>1
          <5>4. CASE chat.cursor <= m
            BY <4>1, <4>4, <5>1, <5>4 DEF HoleInv, BackfillLeavesNoHole
          <5> QED BY <5>2, <5>3, <5>4
        <4> QED BY <4>2, <4>3, <4>4
      <3>8. BackfillLeavesNoHole'
        BY <3>7 DEF BackfillLeavesNoHole
      <3> QED BY <1>1, <2>2, <3>6, <3>8, BackfillGoes
    <2> QED BY <2>3, <2>4
  <1> QED BY <1>10, <1>11, <1>12, <1>13 DEF Backfill

LEMMA HoleStep ==
    ASSUME TypeInv, LogInv, ~Overlap, OneAtWork, HoleInv, [SyncNext]_syncVars
    PROVE  HoleInv'
PROOF
  <1>1. SyncAssumption /\ SyncOK /\ RowsOK /\ SeenOK
    BY TypeParts
  <1>2. ASSUME UNCHANGED log \/ Happening, UNCHANGED <<Rows, seen>> PROVE Elsewhere
    BY <1>2, ElsewhereIs DEF Rows, Stored
  <1>3. CASE Happening
    <2>1. TasksStand /\ UNCHANGED <<Rows, seen>>
      BY <1>3, HappeningIs, EventPushes DEF Event, Rows
    <2>2. \A h \in Gens : sync'[h].back = sync[h].back
      BY <2>1 DEF TasksStand, SyncTasks
    <2> QED BY <1>2, <1>3, <2>1, <2>2, OthersLeaveNoHole
  <1>4. CASE Connect
    <2>1. /\ gen' \in Gens /\ UNCHANGED <<log, Rows, seen>>
          /\ \A h \in Gens \ {gen'} : sync'[h] = sync[h]
          /\ sync'[gen'].back = sync[gen'].back
      BY <1>4, ConnectMoves
    <2>2. \A h \in Gens : sync'[h].back = sync[h].back
      BY <2>1
    <2> QED BY <1>2, <2>1, <2>2, OthersLeaveNoHole
  <1>5. CASE Stop \/ Crash
    <2>1. /\ gen \in Gens /\ UNCHANGED <<World, Rows, seen>>
          /\ \A h \in Gens \ {gen} : sync'[h] = sync[h]
          /\ sync'[gen].back \in {sync[gen].back, Off}
      BY <1>5, EndMoves DEF SyncTasks
    <2>2. \A h \in Gens : sync'[h].back = sync[h].back \/ sync'[h].back.pc = "off"
      BY <1>1, <2>1, OffType
    <2> QED BY <1>2, <2>1, <2>2, OthersLeaveNoHole DEF World
  <1>6. CASE Wipe
    <2>1. /\ UNCHANGED <<log, sync>> /\ seen'.wipes = seen.wipes + 1 /\ seen'.first = Null /\ chat'.cursor = Null
      BY <1>6, WipeMoves DEF NoChat
    <2>2. seen'.wipes # 0
      BY <1>1, <2>1, Bounds DEF SeenOK
    <2>3. Elsewhere
      BY <2>1, <2>2, ElsewhereIs
    <2> QED BY <2>1, <2>3, OthersLeaveNoHole
  <1>7. ASSUME NEW g \in Gens, Ready(g) \/ Take(g) PROVE HoleInv'
    <2>1. /\ UNCHANGED <<World, Rows, seen>> /\ \A h \in Gens \ {g} : sync'[h] = sync[h]
          /\ sync'[g].back = sync[g].back \/ sync'[g].back.pc = "next"
      BY <1>1, <1>7, ReadyMoves, TakeMoves
    <2> QED BY <1>2, <2>1, OthersLeaveNoHole DEF World
  <1>8. ASSUME NEW g \in Gens, NEW t \in {"main", "worker"}, Step(g, t) PROVE HoleInv'
    <2>1. t \in SyncTasks /\ t # "back"
      BY DEF SyncTasks
    <2>2. Elsewhere
      BY <1>8, <2>1, ElsewhereIs DEF Step, Goes, World, RowsGrow
    <2>3. \A h \in Gens : sync'[h].back = sync[h].back
      BY <1>1, <1>8, <2>1, SetMoves DEF Step, Moved, SyncTasks
    <2> QED BY <2>2, <2>3, OthersLeaveNoHole
  <1>9. ASSUME NEW g \in Gens, CatchUp(g, "main") \/ CatchUp(g, "worker") PROVE HoleInv'
    BY <1>8, <1>9, CatchUpStep
  <1>10. ASSUME NEW g \in Gens, Dialogs(g) PROVE HoleInv'
    BY <1>7, <1>8, <1>10, DialogsStep DEF Dialogs
  <1>11. ASSUME NEW g \in Gens, Live(g) PROVE HoleInv'
    BY <1>7, <1>8, <1>11, LiveStep DEF Live
  <1>12. CASE UNCHANGED syncVars
    <2>1. UNCHANGED <<log, Rows, seen>> /\ sync' = sync
      BY <1>12 DEF syncVars, Rows
    <2> QED BY <1>2, <2>1, OthersLeaveNoHole
  <1> QED BY <1>3, <1>4, <1>5, <1>6, <1>9, <1>10, <1>11, <1>12, BackfillHole DEF SyncNext, Happening

-----------------------------------------------------------------------------
(* What follows a channel of which nothing is pushed. *)

Following == Differing \union Long \union {"dialog_max", "dialog_row"}

LEMMA FollowsNothing ==
    ASSUME NEW r, r.pc \notin Following
    PROVE  Follows(r)'
  BY DEF Follows, Following, Differing, Long

\* What is stored is more, and nothing of what is followed is new.
Beside ==
    /\ UNCHANGED log /\ Stored \subseteq Stored'
    /\ chat'.pts = chat.pts /\ (chat.known => chat'.known) /\ (chat.gap => chat'.gap)
    /\ seen'.base = seen.base

LEMMA BesideKeeps ==
    ASSUME Beside
    PROVE  /\ Pts' = Pts /\ Deletions' = Deletions
           /\ \A from, to : KeptWithin(from, to) => KeptWithin(from, to)'
           /\ \A ids, from, to : Within(ids, from, to) => Within(ids, from, to)'
  BY DEF Beside, KeptWithin, Within, Pts, Deletions, IdsOf, Stored

LEMMA TrackedBeside ==
    ASSUME Tracked, Beside
    PROVE  Tracked'
PROOF
  <1>1. Pts' = Pts /\ Deletions' = Deletions
    BY BesideKeeps
  <1>2. ASSUME seen'.base # Null /\ ~chat'.gap PROVE KeptWithin(seen.base, chat.pts)'
    BY <1>1, <1>2 DEF Tracked, Beside, KeptWithin, Within, Stored
  <1> QED BY <1>1, <1>2 DEF Tracked, Beside

LEMMA FollowsBeside ==
    ASSUME NEW me, Follows(me), Beside
    PROVE  Follows(me)'
PROOF
  <1>1. /\ Pts' = Pts /\ Deletions' = Deletions /\ log' = log /\ seen'.base = seen.base /\ chat'.pts = chat.pts
        /\ (chat.gap => chat'.gap) /\ (msgs \union tomb) \subseteq (msgs' \union tomb')
    BY BesideKeeps DEF Beside, Stored
  <1>2. me.pc \in Following => me.pts # Null /\ me.pts <= Pts'
    BY <1>1 DEF Follows, Following
  <1>3. me.pc = "long_pts" /\ seen'.base # Null => chat'.gap
    BY <1>1 DEF Follows
  <1>4. ASSUME seen'.base # Null, ~chat'.gap
        PROVE  /\ me.pc \in Differing => chat'.pts <= me.pts
               /\ me.pc = "diff" => me.pts = chat'.pts
               /\ me.pc = "diff_save" => Within(me.page, chat.pts, me.pts)'
               /\ me.pc \in {"diff_save", "diff_delete"} =>
                    \A i \in 1 .. Pts' : log'[i].kind = "delete" /\ log'[i].id \in me.dels => i <= me.pts
               /\ me.pc \in {"diff_delete", "diff_pts"} => KeptWithin(chat.pts, me.pts)'
    <2>1. seen.base # Null /\ ~chat.gap
      BY <1>1, <1>4
    <2>2. me.pc = "diff_save" => Within(me.page, chat.pts, me.pts)'
      BY <1>1, <2>1 DEF Follows, Within
    <2>3. me.pc \in {"diff_delete", "diff_pts"} => KeptWithin(chat.pts, me.pts)'
      BY <1>1, <2>1 DEF Follows, KeptWithin, Within
    <2> QED BY <1>1, <2>1, <2>2, <2>3 DEF Follows
  <1> QED BY <1>2, <1>3, <1>4 DEF Follows, Following

\* The task that is at work goes on.
LEMMA MainGoes ==
    ASSUME TypeInv, LogInv, OneAtWork, TrackInv, NEW g \in Gens, Step(g, "main"),
           NEW r, Set(g, "main", r), Tracked', Follows(r)'
    PROVE  TrackInv'
PROOF
  <1>1. SyncOK /\ "main" \in SyncTasks /\ "worker" \in SyncTasks /\ "worker" # "main"
    BY TypeParts DEF SyncTasks
  <1>2. /\ sync'[g].main = r /\ sync'[g].worker = sync[g].worker /\ sync'[g].queue = sync[g].queue
        /\ \A h \in Gens \ {g} : sync'[h] = sync[h]
    BY <1>1, SetMoves DEF Moved
  <1>3. g = gen
    BY <1>1 DEF Step, OneAtWork
  <1>4. \A h \in Gens \ {g} : sync'[h].main.pc = "off"
    BY <1>1, <1>2, <1>3 DEF OneAtWork, At
  <1>5. \A h \in Gens : Follows(sync[h].main)'
    <2>1. \A h \in Gens \ {g} : Follows(sync[h].main)'
      BY <1>4 DEF Follows, Differing, Long
    <2>2. Follows(sync[g].main)'
      BY <1>2 DEF Follows
    <2> QED BY <2>1, <2>2
  <1>6. \A h \in Gens : sync'[h].worker.pc = "off" /\ sync'[h].queue = <<>>
    BY <1>2 DEF TrackInv
  <1> QED BY <1>5, <1>6 DEF TrackInv

\* It goes on to where it follows nothing.
LEMMA MainRests ==
    ASSUME TypeInv, LogInv, OneAtWork, TrackInv, NEW g \in Gens, Step(g, "main"), Tracked',
           Leave(g, "main") \/ \E pc \in MainPcs \ Following : Goto(g, "main", pc)
    PROVE  TrackInv'
PROOF
  <1>1. SyncOK /\ SyncAssumption /\ "main" \in SyncTasks /\ PcsOf("main") = MainPcs
    BY TypeParts DEF SyncTasks, PcsOf
  <1>2. PICK r : Set(g, "main", r) /\ r.pc \notin Following
    <2>1. CASE Leave(g, "main")
      <3>1. PICK r \in TaskStates : Set(g, "main", r) /\ r.pc \in {"off", "dialog", "ready"}
        BY <1>1, <2>1, LeaveSets
      <3> QED BY <3>1 DEF Following, Differing, Long
    <2>2. ASSUME NEW pc \in MainPcs \ Following, Goto(g, "main", pc)
          PROVE  \E r : Set(g, "main", r) /\ r.pc \notin Following
      <3> DEFINE r == [sync[g]["main"] EXCEPT !.pc = pc]
      <3>1. Set(g, "main", r) /\ r.pc = pc
        BY <1>1, <2>2, GotoSets
      <3> HIDE DEF r
      <3> QED BY <3>1
    <2> QED BY <2>1, <2>2
  <1> QED BY <1>2, FollowsNothing, MainGoes

\* It goes on as it is.
LEMMA MainGoesTo ==
    ASSUME TypeInv, NEW g \in Gens, NEW pc \in MainPcs, Goto(g, "main", pc)
    PROVE  \E r : /\ Set(g, "main", r) /\ r.pc = pc /\ r.pts = sync[g].main.pts /\ r.page = sync[g].main.page
                  /\ r.dels = sync[g].main.dels
PROOF
  <1>1. SyncOK /\ "main" \in SyncTasks /\ pc \in PcsOf("main")
    BY TypeParts DEF SyncTasks, PcsOf
  <1> DEFINE r == [sync[g]["main"] EXCEPT !.pc = pc]
  <1>2. /\ Set(g, "main", r) /\ r.pc = pc /\ r.pts = sync[g]["main"].pts /\ r.page = sync[g]["main"].page
        /\ r.dels = sync[g]["main"].dels
    BY <1>1, GotoSets
  <1> HIDE DEF r
  <1> QED BY <1>2

\* The difference, a slice at a time: fetched, stored, then the pts moves past it.
LEMMA DiffTracks ==
    ASSUME TypeInv, LogInv, OneAtWork, TrackInv, NEW g \in Gens,
           DiffFetch(g, "main") \/ DiffSave(g, "main") \/ DiffDelete(g, "main") \/ DiffPts(g, "main")
    PROVE  TrackInv'
PROOF
  <1>1. /\ SyncAssumption /\ LogOK /\ RowsOK /\ SyncOK /\ SeenOK /\ "main" \in SyncTasks
        /\ Pts \in 0 .. MaxEvents /\ chat.pts \in 0 .. MaxEvents /\ seen.base \in 0 .. MaxEvents /\ MaxEvents \in Nat
    BY TypeParts, SomeType, Bounds DEF SyncTasks, RowsOK, ChatRows, SeenOK
  <1>2. CatchUp(g, "main") /\ Step(g, "main")
    BY CatchUpStep DEF CatchUp
  <1>3. RowsGrow /\ log' = log /\ Pts' = Pts /\ Deletions' = Deletions
    BY <1>2 DEF Step, Goes, World, Pts, Deletions, IdsOf
  <1>4. PICK me \in TaskStates : me = sync[g].main /\ me = sync[g]["main"]
    BY <1>1 DEF SyncOK, Syncs
  <1>5. Follows(me) /\ me.pts \in 0 .. MaxEvents /\ me.page \in SUBSET Ids /\ me.dels \subseteq Deletions
        /\ me.dels \in SUBSET Ids
    BY <1>1, <1>4 DEF TrackInv, TaskStates, LogInv
  <1>6. ASSUME UNCHANGED seen, chat'.pts = chat.pts PROVE Beside
    BY <1>3, <1>6 DEF Beside, RowsGrow
  <1>7. ASSUME NEW r, Set(g, "main", r), Tracked', Follows(r)' PROVE TrackInv'
    BY <1>2, <1>7, MainGoes
  <1>8. CASE DiffFetch(g, "main")
    <2>1. me.pc = "diff" /\ UNCHANGED <<Rows, seen>>
      BY <1>4, <1>8 DEF DiffFetch, At
    <2>2. Beside /\ Tracked'
      BY <1>6, <2>1, TrackedBeside DEF Rows, TrackInv
    <2>3. /\ me.pts # Null /\ me.pts <= Pts
          /\ seen.base # Null /\ ~chat.gap => me.pts = chat.pts
      BY <1>5, <2>1 DEF Follows, Differing
    <2>4. CASE Leave(g, "main")
      BY <1>2, <2>2, <2>4, MainRests
    <2>5. CASE me.pts = Pts /\ Set(g, "main", [me EXCEPT !.pc = "diff_pts", !.final = TRUE])
      <3> PICK r : r = [me EXCEPT !.pc = "diff_pts", !.final = TRUE]
        OBVIOUS
      <3>1. r.pc = "diff_pts" /\ r.pts = me.pts
        BY DEF TaskStates
      <3>2. seen.base # Null /\ ~chat.gap => KeptWithin(chat.pts, r.pts)
        BY <1>1, <2>3, <3>1 DEF KeptWithin, Within
      <3>3. Follows(r)
        BY <1>1, <2>3, <3>1, <3>2 DEF Follows, Differing, Long
      <3> QED BY <1>7, <2>2, <2>5, <3>3, FollowsBeside
    <2>6. ASSUME NEW n \in me.pts + 1 .. Pts,
                 Set(g, "main", [me EXCEPT !.pc = "diff_save", !.pts = n, !.final = (n = Pts),
                               !.page = IdsOf("new", me.pts + 1, n) \ IdsOf("delete", me.pts + 1, n),
                               !.dels = IdsOf("delete", me.pts + 1, n)])
          PROVE  TrackInv'
      <3> PICK r : r = [me EXCEPT !.pc = "diff_save", !.pts = n, !.final = (n = Pts),
                               !.page = IdsOf("new", me.pts + 1, n) \ IdsOf("delete", me.pts + 1, n),
                               !.dels = IdsOf("delete", me.pts + 1, n)]
        OBVIOUS
      <3>1. /\ r.pc = "diff_save" /\ r.pts = n /\ r.dels = IdsOf("delete", me.pts + 1, n)
            /\ r.page = IdsOf("new", me.pts + 1, n) \ IdsOf("delete", me.pts + 1, n)
        BY DEF TaskStates
      <3>2. n \in Nat /\ n # Null /\ n <= Pts /\ me.pts <= n /\ me.pts + 1 \in 1 .. Pts + 1 /\ n \in 0 .. Pts
        BY <1>1, <1>5, <2>6 DEF Null
      <3>3. r.dels \subseteq Deletions
        BY <1>1, <3>1, <3>2, IdsOfType DEF Deletions
      <3>4. Within(r.page, me.pts, n)
        <4> SUFFICES ASSUME NEW i \in me.pts + 1 .. n, log[i].kind = "new"
                     PROVE  log[i].id \in r.page \union Deletions
          BY DEF Within
        <4>1. log[i].id \in IdsOf("new", me.pts + 1, n)
          BY DEF IdsOf
        <4> QED BY <3>1, <3>3, <4>1
      <3>5. ASSUME NEW i \in 1 .. Pts, log[i].kind = "delete", log[i].id \in r.dels
            PROVE  i <= n
        <4>1. PICK j \in me.pts + 1 .. n : log[j].kind = "delete" /\ log[j].id = log[i].id
          BY <3>1, <3>5 DEF IdsOf
        <4>2. j \in 1 .. Pts
          BY <1>1, <1>5, <3>2
        <4>3. i = j
          BY <3>5, <4>1, <4>2 DEF LogInv
        <4> QED BY <1>5, <3>2, <4>3
      <3>6. Follows(r)
        BY <1>1, <2>3, <3>1, <3>2, <3>4, <3>5 DEF Follows, Differing, Long
      <3> QED BY <1>7, <2>2, <2>6, <3>6, FollowsBeside
    <2>7. CASE Pts > me.pts + 1 /\ Set(g, "main", [me EXCEPT !.pc = "long_max", !.pts = Pts, !.page = Page(Existing)])
      <3> PICK r : r = [me EXCEPT !.pc = "long_max", !.pts = Pts, !.page = Page(Existing)]
        OBVIOUS
      <3>1. r.pc = "long_max" /\ r.pts = Pts
        BY DEF TaskStates
      <3>2. Pts # Null
        BY <1>1, <1>5, <2>7 DEF Null
      <3>3. Follows(r)
        BY <1>1, <3>1, <3>2 DEF Follows, Differing, Long
      <3> QED BY <1>7, <2>2, <2>7, <3>3, FollowsBeside
    <2> QED BY <1>4, <1>8, <2>4, <2>5, <2>6, <2>7 DEF DiffFetch
  <1>9. CASE DiffSave(g, "main")
    <2>1. me.pc = "diff_save" /\ UNCHANGED seen /\ Save(me.page) /\ Goto(g, "main", "diff_delete")
      BY <1>4, <1>9 DEF DiffSave, At
    <2>2. me.page \subseteq Stored' /\ chat'.pts = chat.pts
      BY <1>1, <1>5, <2>1, SaveGrows
    <2>3. Beside /\ Tracked' /\ Follows(me)'
      BY <1>5, <1>6, <2>1, <2>2, TrackedBeside, FollowsBeside DEF TrackInv
    <2>4. PICK r : Set(g, "main", r) /\ r.pc = "diff_delete" /\ r.pts = me.pts /\ r.page = me.page /\ r.dels = me.dels
      <3>1. "diff_delete" \in MainPcs
        BY DEF MainPcs
      <3> QED BY <1>4, <2>1, <3>1, MainGoesTo
    <2>5. ASSUME seen'.base # Null, ~chat'.gap PROVE KeptWithin(chat.pts, me.pts)'
      <3>1. Within(me.page, chat.pts, me.pts)'
        BY <2>1, <2>3, <2>5 DEF Follows
      <3> QED BY <2>2, <3>1 DEF KeptWithin, Within, Stored
    <2>6. Follows(r)'
      BY <2>1, <2>3, <2>4, <2>5 DEF Follows, Differing, Long
    <2> QED BY <1>7, <2>3, <2>4, <2>6
  <1>10. CASE DiffDelete(g, "main")
    <2>1. me.pc = "diff_delete" /\ UNCHANGED seen /\ Goto(g, "main", "diff_pts")
      BY <1>4, <1>10 DEF DiffDelete, At
    <2>2. PICK r : Set(g, "main", r) /\ r.pc = "diff_pts" /\ r.pts = me.pts
      <3>1. "diff_pts" \in MainPcs
        BY DEF MainPcs
      <3> QED BY <1>4, <2>1, <3>1, MainGoesTo
    <2>3. me.pts # Null /\ me.pts <= Pts
      BY <1>5, <2>1 DEF Follows, Differing
    <2>4. CASE UNCHANGED Rows
      <3>1. Beside /\ Tracked' /\ Follows(me)'
        BY <1>5, <1>6, <2>1, <2>4, TrackedBeside, FollowsBeside DEF TrackInv, Rows
      <3>2. Follows(r)'
        BY <2>1, <2>2, <3>1 DEF Follows, Differing, Long
      <3> QED BY <1>7, <2>2, <3>1, <3>2
    <2>5. CASE ~UNCHANGED Rows
      <3> DEFINE I == {i \in 1 .. Pts : log[i].kind = "delete" /\ log[i].id \in me.dels}
      <3>1. me.dels # {} /\ Tombstone(me.dels) /\ MovePts(Max(I))
        BY <1>4, <1>10, <2>5 DEF DiffDelete
      <3>2. I # {} /\ I \in SUBSET (0 .. Pts) /\ I \subseteq 1 .. Pts
        BY <1>1, <1>5, <3>1 DEF Deletions, IdsOf
      <3>3. PICK m \in I : m = Max(I)
        <4> HIDE DEF I
        <4>1. Pts \in Nat
          BY <1>1
        <4>2. Max(I) \in I
          BY <3>2, <4>1, GreatestIs
        <4> QED BY <4>2
      <3>4. /\ m \in 1 .. Pts /\ m \in 0 .. MaxEvents /\ MovePts(m)
            /\ seen.base # Null /\ ~chat.gap => m <= me.pts
        <4>1. m \in 1 .. Pts /\ MovePts(m)
          BY <3>1, <3>3
        <4>2. seen.base # Null /\ ~chat.gap => m <= me.pts
          BY <1>5, <2>1, <3>3 DEF Follows
        <4> QED BY <1>1, <4>1, <4>2
      <3>5. /\ chat'.known = chat.known /\ chat'.gap = chat.gap /\ chat'.pts \in {chat.pts, m} /\ chat'.pts >= chat.pts
        BY <1>1, <3>4, PtsType
      <3>6. ASSUME seen'.base # Null, ~chat'.gap
            PROVE  /\ chat'.pts <= me.pts /\ KeptWithin(chat.pts, me.pts)' /\ KeptWithin(seen.base, chat.pts)'
        <4>1. seen.base # Null /\ ~chat.gap /\ seen'.base = seen.base
          BY <2>1, <3>5, <3>6
        <4>2. chat.pts <= me.pts /\ KeptWithin(chat.pts, me.pts) /\ KeptWithin(seen.base, chat.pts)
          BY <1>5, <2>1, <4>1 DEF Follows, Differing, TrackInv, Tracked
        <4>3. chat'.pts \in Nat /\ chat'.pts <= me.pts
          BY <1>1, <1>5, <3>4, <3>5, <4>1, <4>2
        <4>4. \A i : /\ i \in chat'.pts + 1 .. me.pts => i \in chat.pts + 1 .. me.pts
                     /\ i \in seen.base + 1 .. chat'.pts => i \in chat.pts + 1 .. me.pts \/ i \in seen.base + 1 .. chat.pts
          BY <1>1, <1>5, <3>5, <4>2, <4>3
        <4>5. Stored \subseteq Stored'
          BY <1>3 DEF RowsGrow
        <4> QED BY <1>3, <4>1, <4>2, <4>3, <4>4, <4>5 DEF KeptWithin, Within, Stored
      <3>7. Tracked'
        <4>1. chat'.pts <= Pts'
          BY <1>1, <1>3, <3>4, <3>5 DEF TrackInv, Tracked
        <4>2. seen'.base # Null => chat'.known /\ chat'.pts # Null
          BY <1>1, <2>1, <3>4, <3>5 DEF TrackInv, Tracked, Null
        <4> QED BY <3>6, <4>1, <4>2 DEF Tracked
      <3>8. Follows(r)'
        BY <1>3, <2>1, <2>2, <2>3, <3>6 DEF Follows, Differing, Long
      <3> QED BY <1>7, <2>2, <3>7, <3>8
    <2> QED BY <2>4, <2>5
  <1>11. CASE DiffPts(g, "main")
    <2>1. me.pc = "diff_pts" /\ UNCHANGED <<msgs, tomb, seen>> /\ SetPts(me.pts)
      BY <1>4, <1>11 DEF DiffPts, At
    <2>2. /\ chat'.known = chat.known /\ chat'.gap = chat.gap /\ chat'.pts \in {chat.pts, me.pts}
          /\ (chat.known => chat'.pts = me.pts)
      BY <1>1, <1>5, <2>1, PtsType
    <2>3. me.pts # Null /\ me.pts <= Pts
      BY <1>5, <2>1 DEF Follows, Differing
    <2>4. ASSUME seen'.base # Null PROVE chat'.pts = me.pts /\ chat'.known
      BY <2>1, <2>2, <2>4 DEF TrackInv, Tracked
    <2>5. ASSUME seen'.base # Null, ~chat'.gap PROVE KeptWithin(seen.base, chat.pts)'
      <3>1. seen.base # Null /\ ~chat.gap /\ seen'.base = seen.base /\ chat'.pts = me.pts
        BY <2>1, <2>2, <2>4, <2>5
      <3>2. chat.pts <= me.pts /\ KeptWithin(chat.pts, me.pts) /\ KeptWithin(seen.base, chat.pts)
        BY <1>5, <2>1, <3>1 DEF Follows, Differing, TrackInv, Tracked
      <3>3. \A i \in seen.base + 1 .. me.pts : i \in chat.pts + 1 .. me.pts \/ i \in seen.base + 1 .. chat.pts
        BY <1>1, <1>5, <3>2
      <3> QED BY <1>3, <2>1, <3>1, <3>2, <3>3 DEF KeptWithin, Within
    <2>6. Tracked'
      <3>1. chat'.pts <= Pts'
        BY <1>3, <2>2, <2>3 DEF TrackInv, Tracked
      <3> QED BY <2>3, <2>4, <2>5, <3>1 DEF Tracked
    <2>7. CASE Leave(g, "main")
      BY <1>2, <2>6, <2>7, MainRests
    <2>8. CASE Set(g, "main", [me EXCEPT !.pc = "diff", !.round = @ + 1])
      <3> PICK r : r = [me EXCEPT !.pc = "diff", !.round = @ + 1]
        OBVIOUS
      <3>1. r.pc = "diff" /\ r.pts = me.pts
        BY DEF TaskStates
      <3>2. Follows(r)'
        BY <1>1, <1>3, <1>5, <2>3, <2>4, <3>1 DEF Follows, Differing, Long
      <3> QED BY <1>7, <2>6, <2>8, <3>2
    <2> QED BY <1>4, <1>11, <2>7, <2>8 DEF DiffPts
  <1> QED BY <1>8, <1>9, <1>10, <1>11

\* Too long a difference: the gap is noted before the pts moves past it.
LEMMA LongTracks ==
    ASSUME TypeInv, LogInv, OneAtWork, TrackInv, NEW g \in Gens,
           LongMax(g, "main") \/ LongSave(g, "main") \/ LongGap(g, "main") \/ LongPts(g, "main")
    PROVE  TrackInv'
PROOF
  <1>1. /\ SyncAssumption /\ LogOK /\ RowsOK /\ SyncOK /\ SeenOK /\ "main" \in SyncTasks
        /\ Pts \in 0 .. MaxEvents /\ chat.pts \in 0 .. MaxEvents /\ MaxEvents \in Nat
    BY TypeParts, SomeType, Bounds DEF SyncTasks, RowsOK, ChatRows
  <1>2. CatchUp(g, "main") /\ Step(g, "main")
    BY CatchUpStep DEF CatchUp
  <1>3. RowsGrow /\ log' = log /\ Pts' = Pts
    BY <1>2 DEF Step, Goes, World, Pts
  <1>4. PICK me \in TaskStates : me = sync[g].main /\ me = sync[g]["main"]
    BY <1>1 DEF SyncOK, Syncs
  <1>5. Follows(me) /\ me.pts \in 0 .. MaxEvents /\ me.page \in SUBSET Ids
    BY <1>4 DEF TrackInv, TaskStates
  <1>6. ASSUME UNCHANGED seen, chat'.pts = chat.pts PROVE Beside
    BY <1>3, <1>6 DEF Beside, RowsGrow
  <1>7. me.pc \in Long => me.pts # Null /\ me.pts <= Pts
    BY <1>5 DEF Follows
  <1>8. ASSUME NEW r, Set(g, "main", r), Tracked',
               r.pc \in Long, r.pts # Null, r.pts <= Pts, r.pc = "long_pts" /\ seen'.base # Null => chat'.gap
        PROVE  TrackInv'
    <2>1. Follows(r)'
      BY <1>3, <1>8 DEF Follows, Differing, Long
    <2> QED BY <1>2, <1>8, <2>1, MainGoes
  <1>9. CASE LongMax(g, "main")
    <2>1. me.pc = "long_max" /\ UNCHANGED <<Rows, seen>>
      BY <1>4, <1>9 DEF LongMax, At
    <2>2. Tracked'
      BY <1>6, <2>1, TrackedBeside DEF TrackInv, Rows
    <2> PICK r : r = [me EXCEPT !.pc = "long_save", !.max = MaxMessageId]
      OBVIOUS
    <2>3. r.pc = "long_save" /\ r.pts = me.pts /\ Set(g, "main", r)
      <3>1. Set(g, "main", r)
        BY <1>4, <1>9 DEF LongMax
      <3> QED BY <3>1 DEF TaskStates
    <2> QED BY <1>7, <1>8, <2>1, <2>2, <2>3 DEF Long
  <1>10. CASE LongSave(g, "main")
    <2>1. me.pc = "long_save" /\ UNCHANGED seen /\ Save(me.page) /\ Goto(g, "main", "long_gap")
      BY <1>4, <1>10 DEF LongSave, At
    <2>2. Tracked'
      BY <1>1, <1>5, <1>6, <2>1, SaveGrows, TrackedBeside DEF TrackInv
    <2>3. PICK r : Set(g, "main", r) /\ r.pc = "long_gap" /\ r.pts = me.pts
      <3>1. "long_gap" \in MainPcs
        BY DEF MainPcs
      <3> QED BY <1>4, <2>1, <3>1, MainGoesTo
    <2> QED BY <1>7, <1>8, <2>1, <2>2, <2>3 DEF Long
  <1>11. CASE LongGap(g, "main")
    <2>1. me.pc = "long_gap" /\ UNCHANGED seen /\ SetGap /\ Goto(g, "main", "long_pts")
      BY <1>4, <1>11 DEF LongGap, At
    <2>2. chat'.pts = chat.pts /\ (chat.known => chat'.gap)
      BY <1>1, <2>1, GapType
    <2>3. Tracked'
      BY <1>6, <2>1, <2>2, TrackedBeside DEF TrackInv
    <2>4. PICK r : Set(g, "main", r) /\ r.pc = "long_pts" /\ r.pts = me.pts
      <3>1. "long_pts" \in MainPcs
        BY DEF MainPcs
      <3> QED BY <1>4, <2>1, <3>1, MainGoesTo
    <2>5. seen'.base # Null => chat'.gap
      BY <2>1, <2>2 DEF TrackInv, Tracked
    <2> QED BY <1>7, <1>8, <2>1, <2>3, <2>4, <2>5 DEF Long
  <1>12. CASE LongPts(g, "main")
    <2>1. me.pc = "long_pts" /\ UNCHANGED seen /\ SetPts(me.pts)
      BY <1>4, <1>12 DEF LongPts, At
    <2>2. /\ chat'.known = chat.known /\ chat'.gap = chat.gap /\ chat'.pts \in {chat.pts, me.pts}
          /\ (chat.known => chat'.pts = me.pts)
      BY <1>1, <1>5, <2>1, PtsType
    <2>3. me.pts # Null /\ me.pts <= Pts /\ (seen.base # Null => chat.gap)
      BY <1>5, <2>1 DEF Follows, Long
    <2>4. Tracked'
      BY <1>3, <2>1, <2>2, <2>3 DEF TrackInv, Tracked
    <2>5. CASE me.max = Null /\ Leave(g, "main")
      BY <1>2, <2>4, <2>5, MainRests
    <2>6. CASE Set(g, "main", [me EXCEPT !.pc = "fill", !.offset = Null, !.round = 0])
      <3> PICK r : r = [me EXCEPT !.pc = "fill", !.offset = Null, !.round = 0]
        OBVIOUS
      <3>1. r.pc \notin Following
        BY DEF TaskStates, Following, Differing, Long
      <3> QED BY <1>2, <2>4, <2>6, <3>1, FollowsNothing, MainGoes
    <2> QED BY <1>4, <1>12, <2>5, <2>6 DEF LongPts
  <1> QED BY <1>9, <1>10, <1>11, <1>12

\* What it fetches of the newest, or gives up, is beside what is tracked.
LEMMA FillTracks ==
    ASSUME TypeInv, LogInv, OneAtWork, TrackInv, NEW g \in Gens,
           RequestFails(g, "main") \/ FillFetch(g, "main") \/ FillSave(g, "main") \/ FillGap(g, "main")
    PROVE  TrackInv'
PROOF
  <1>1. SyncAssumption /\ RowsOK /\ SyncOK /\ "main" \in SyncTasks
    BY TypeParts DEF SyncTasks
  <1>2. CatchUp(g, "main") /\ Step(g, "main")
    BY CatchUpStep DEF CatchUp
  <1>3. RowsGrow /\ log' = log
    BY <1>2 DEF Step, Goes, World
  <1>4. PICK me \in TaskStates : me = sync[g].main /\ me = sync[g]["main"]
    BY <1>1 DEF SyncOK, Syncs
  <1>5. me.page \in SUBSET Ids /\ me.then \in {"off", "dialog", "ready"}
    BY DEF TaskStates
  <1>6. UNCHANGED seen /\ chat'.pts = chat.pts
    <2>1. CASE RequestFails(g, "main") \/ FillFetch(g, "main")
      BY <2>1 DEF RequestFails, FillFetch, Rows
    <2>2. CASE FillSave(g, "main")
      BY <1>1, <1>4, <1>5, <2>2, SaveGrows DEF FillSave
    <2>3. CASE FillGap(g, "main")
      BY <1>1, <2>3, GapType DEF FillGap
    <2> QED BY <2>1, <2>2, <2>3
  <1>7. Tracked'
    <2>1. Beside
      BY <1>3, <1>6 DEF Beside, RowsGrow
    <2> QED BY <2>1, TrackedBeside DEF TrackInv
  <1>8. ASSUME NEW r, Set(g, "main", r), r.pc \notin Following PROVE TrackInv'
    BY <1>2, <1>7, <1>8, FollowsNothing, MainGoes
  <1>9. CASE Leave(g, "main")
    BY <1>2, <1>7, <1>9, MainRests
  <1>10. CASE RequestFails(g, "main")
    <2> PICK r : r = [Off EXCEPT !.pc = IF At(g, "main", "dialog") THEN "ready" ELSE me.then]
      OBVIOUS
    <2>1. r.pc \notin Following
      BY <1>5 DEF Off, Following, Differing, Long
    <2>2. Set(g, "main", r)
      BY <1>4, <1>10 DEF RequestFails
    <2> QED BY <1>8, <2>1, <2>2
  <1>11. CASE FillFetch(g, "main")
    <2>1. PICK S : \/ Leave(g, "main")
                   \/ Set(g, "main", [me EXCEPT !.pc = "fill_save", !.page = S])
      BY <1>4, <1>11 DEF FillFetch
    <2> PICK r : r = [me EXCEPT !.pc = "fill_save", !.page = S]
      OBVIOUS
    <2>2. r.pc \notin Following
      BY DEF TaskStates, Following, Differing, Long
    <2> QED BY <1>8, <1>9, <2>1, <2>2
  <1>12. CASE FillSave(g, "main")
    <2> PICK r : r = [me EXCEPT !.pc = IF me.round + 1 = MaxForward THEN "fill_gap" ELSE "fill",
                               !.offset = Min(me.page), !.round = @ + 1]
      OBVIOUS
    <2>1. Leave(g, "main") \/ Set(g, "main", r)
      BY <1>4, <1>12 DEF FillSave
    <2>2. r.pc \notin Following
      BY DEF TaskStates, Following, Differing, Long
    <2> QED BY <1>8, <1>9, <2>1, <2>2
  <1> QED BY <1>9, <1>10, <1>11, <1>12 DEF FillGap

\* The dialogs: where there is no pts, the channel is tracked from the dialog's.
LEMMA DialogTracks ==
    ASSUME TypeInv, LogInv, OneAtWork, TrackInv, NEW g \in Gens,
           ReadChannels(g) \/ DialogFetch(g) \/ DialogMax(g) \/ DialogRow(g) \/ DialogSave(g) \/ Reconcile(g)
    PROVE  TrackInv'
PROOF
  <1>1. /\ SyncAssumption /\ LogOK /\ RowsOK /\ SyncOK /\ SeenOK /\ "main" \in SyncTasks
        /\ Pts \in 0 .. MaxEvents /\ chat.pts \in 0 .. MaxEvents /\ MaxEvents \in Nat
    BY TypeParts, SomeType, Bounds DEF SyncTasks, RowsOK, ChatRows
  <1>2. Step(g, "main")
    BY DialogsStep
  <1>3. RowsGrow /\ log' = log /\ Pts' = Pts
    BY <1>2 DEF Step, Goes, World, Pts
  <1>4. PICK me \in TaskStates : me = sync[g].main /\ me = sync[g]["main"]
    BY <1>1 DEF SyncOK, Syncs
  <1>5. Follows(me) /\ me.pts \in 0 .. MaxEvents /\ me.page \in SUBSET Ids
    BY <1>4 DEF TrackInv, TaskStates
  <1>6. ASSUME UNCHANGED seen, chat'.pts = chat.pts PROVE Beside /\ Tracked'
    <2>1. Beside
      BY <1>3, <1>6 DEF Beside, RowsGrow
    <2> QED BY <2>1, TrackedBeside DEF TrackInv
  <1>7. ASSUME NEW r, Set(g, "main", r), Tracked', Follows(r)' PROVE TrackInv'
    BY <1>2, <1>7, MainGoes
  <1>8. ASSUME NEW r, Set(g, "main", r), Tracked', r.pc \notin Following PROVE TrackInv'
    BY <1>7, <1>8, FollowsNothing
  <1>9. CASE ReadChannels(g)
    <2>1. UNCHANGED <<Rows, seen>>
      BY <1>9 DEF ReadChannels
    <2>2. Beside /\ Tracked'
      BY <1>6, <2>1 DEF Rows
    <2> PICK r : r = IF sync[g].on THEN Enter(chat.pts, "dialog") ELSE Off
      OBVIOUS
    <2>3. Set(g, "main", r)
      BY <1>9 DEF ReadChannels
    <2>4. \/ r.pc \in {"off", "dialog"}
          \/ r.pc = "diff" /\ r.pts = chat.pts /\ chat.pts # Null
      BY DEF Enter, Off
    <2>5. CASE r.pc \in {"off", "dialog"}
      BY <1>8, <2>2, <2>3, <2>5 DEF Following, Differing, Long
    <2>6. CASE r.pc = "diff" /\ r.pts = chat.pts /\ chat.pts # Null
      <3>1. Follows(r)
        BY <1>1, <2>6 DEF Follows, Differing, Long, TrackInv, Tracked
      <3> QED BY <1>7, <2>2, <2>3, <3>1, FollowsBeside
    <2> QED BY <2>4, <2>5, <2>6
  <1>10. CASE DialogFetch(g)
    <2>1. Tracked'
      BY <1>6, <1>10 DEF DialogFetch, Rows
    <2>2. CASE Goto(g, "main", "ready")
      <3>1. "ready" \in MainPcs \ Following
        BY DEF MainPcs, Following, Differing, Long
      <3> QED BY <1>2, <2>1, <2>2, <3>1, MainRests
    <2>3. CASE Existing # {} /\ \E S : Set(g, "main", [Off EXCEPT !.pc = "dialog_max", !.page = S, !.pts = Pts, !.then = "ready"])
      <3>1. PICK S : Set(g, "main", [Off EXCEPT !.pc = "dialog_max", !.page = S, !.pts = Pts, !.then = "ready"])
        BY <2>3
      <3> PICK r : r = [Off EXCEPT !.pc = "dialog_max", !.page = S, !.pts = Pts, !.then = "ready"]
        OBVIOUS
      <3>2. r.pc = "dialog_max" /\ r.pts = Pts
        BY DEF Off
      <3>3. Pts # Null
        BY <1>1, <2>3 DEF Existing, IdsOf, Null
      <3>4. Follows(r)'
        BY <1>1, <1>3, <3>2, <3>3 DEF Follows, Differing, Long
      <3> QED BY <1>7, <2>1, <3>1, <3>4
    <2> QED BY <1>10, <2>2, <2>3 DEF DialogFetch
  <1>11. CASE DialogMax(g)
    <2>1. me.pc = "dialog_max" /\ UNCHANGED <<Rows, seen>>
      BY <1>4, <1>11 DEF DialogMax, At
    <2>2. Tracked'
      BY <1>6, <2>1 DEF Rows
    <2> PICK r : r = [me EXCEPT !.pc = "dialog_row", !.max = MaxMessageId]
      OBVIOUS
    <2>3. r.pc = "dialog_row" /\ r.pts = me.pts
      BY DEF TaskStates
    <2>4. Set(g, "main", r)
      BY <1>4, <1>11 DEF DialogMax
    <2>5. Follows(r)'
      BY <1>3, <1>5, <2>1, <2>3 DEF Follows, Differing, Long
    <2> QED BY <1>7, <2>2, <2>4, <2>5
  <1>12. CASE DialogRow(g)
    <2>1. /\ me.pc = "dialog_row" /\ me.pts # Null /\ me.pts <= Pts /\ UNCHANGED <<msgs, tomb>>
          /\ Goto(g, "main", "dialog_save")
      BY <1>4, <1>5, <1>12 DEF DialogRow, At, Follows
    <2>2. /\ chat'.known /\ chat'.gap = chat.gap
          /\ chat'.pts = IF chat.pts = Null THEN me.pts ELSE chat.pts
          /\ seen'.base = IF chat.pts = Null /\ seen.base = Null THEN me.pts ELSE seen.base
      BY <1>1, <1>4, <1>12 DEF DialogRow, RowsOK, ChatRows, SeenOK
    <2>3. Tracked'
      <3>1. CASE chat.pts = Null
        <4>1. chat'.pts = me.pts /\ seen'.base = me.pts
          BY <2>2, <3>1 DEF TrackInv, Tracked
        <4>2. KeptWithin(seen.base, chat.pts)'
          BY <1>5, <4>1 DEF KeptWithin, Within
        <4> QED BY <1>3, <2>1, <2>2, <4>1, <4>2 DEF Tracked
      <3>2. CASE chat.pts # Null
        <4>1. Beside
          BY <1>3, <2>2, <3>2 DEF Beside, RowsGrow
        <4> QED BY <4>1, TrackedBeside DEF TrackInv
      <3> QED BY <3>1, <3>2
    <2>4. "dialog_save" \in MainPcs \ Following
      BY DEF MainPcs, Following, Differing, Long
    <2> QED BY <1>2, <2>1, <2>3, <2>4, MainRests
  <1>13. CASE DialogSave(g)
    <2>1. Tracked'
      BY <1>1, <1>4, <1>5, <1>6, <1>13, SaveGrows DEF DialogSave
    <2>2. \E pc \in {"fill", "ready"} : Goto(g, "main", pc)
      <3>1. Set(g, "main", [sync[g].main EXCEPT !.pc = "fill"]) => Goto(g, "main", "fill")
        BY DEF Set, Goto
      <3> QED BY <1>13, <3>1 DEF DialogSave
    <2>3. {"fill", "ready"} \subseteq MainPcs \ Following
      BY DEF MainPcs, Following, Differing, Long
    <2> QED BY <1>2, <2>1, <2>2, <2>3, MainRests
  <1>14. CASE Reconcile(g)
    <2>1. Tracked'
      BY <1>6, <1>14 DEF Reconcile, Rows
    <2> PICK r : r = IF sync[g].on THEN [Off EXCEPT !.pc = "dialog"] ELSE Off
      OBVIOUS
    <2>2. r.pc \notin Following
      BY DEF Off, Following, Differing, Long
    <2>3. Set(g, "main", r)
      BY <1>14 DEF Reconcile
    <2> QED BY <1>8, <2>1, <2>2, <2>3
  <1> QED BY <1>9, <1>10, <1>11, <1>12, <1>13, <1>14

LEMMA TrackStep ==
    ASSUME TypeInv, LogInv, ~Overlap, OneAtWork, TrackInv, ~channel.pushed, ~channel.unsteady, [SyncNext]_syncVars
    PROVE  TrackInv'
PROOF
  <1>1. SyncAssumption /\ LogOK /\ SyncOK /\ RowsOK /\ SeenOK /\ Pts \in Nat
    BY TypeParts, SomeType
  <1>2. \A g \in Gens : sync[g].worker.pc = "off" /\ sync[g].queue = <<>> /\ Follows(sync[g].main)
    BY DEF TrackInv
  <1>3. ASSUME Beside,
               \A g \in Gens : /\ sync'[g].worker.pc = "off" /\ sync'[g].queue = <<>>
                               /\ sync'[g].main = sync[g].main \/ sync'[g].main.pc \notin Following
        PROVE  TrackInv'
    <2>1. Tracked'
      BY <1>3, TrackedBeside DEF TrackInv
    <2>2. ASSUME NEW g \in Gens PROVE Follows(sync[g].main)'
      <3>1. CASE sync'[g].main = sync[g].main
        <4>1. PICK me : me = sync[g].main
          OBVIOUS
        <4>2. Follows(me)'
          BY <1>2, <1>3, <4>1, FollowsBeside
        <4> QED BY <3>1, <4>1, <4>2 DEF Follows
      <3>2. CASE sync'[g].main.pc \notin Following
        BY <3>2 DEF Follows, Following, Differing, Long
      <3> QED BY <1>3, <3>1, <3>2
    <2> QED BY <1>3, <2>1, <2>2 DEF TrackInv
  <1>4. ASSUME UNCHANGED <<log, Rows, seen>> PROVE Beside
    BY <1>4 DEF Beside, Rows, Stored
  <1>5. CASE Happening
    <2>1. PICK kind \in {"new", "delete"}, id \in Ids :
             /\ Event(kind, id) /\ Happened(kind, id)
             /\ kind = "delete" => id \in Numbers \ Deletions
      BY <1>5, HappeningIs
    <2>2. UNCHANGED <<Rows, seen>> /\ sync' = sync
      BY <2>1, EventPushes DEF Event, Rows
    <2>3. /\ Pts' = Pts + 1 /\ Deletions \subseteq Deletions' /\ \A i \in 1 .. Pts : log'[i] = log[i]
          /\ log'[Pts + 1].kind = "delete" => log'[Pts + 1].id \notin Deletions
          /\ msgs' = msgs /\ tomb' = tomb /\ chat' = chat /\ seen' = seen
      BY <2>1, <2>2 DEF Happened, Rows
    <2>4. ASSUME NEW ids, NEW from \in Nat, NEW to \in Nat, to <= Pts, Within(ids, from, to)
          PROVE  Within(ids, from, to)'
      <3>1. \A i \in from + 1 .. to : i \in 1 .. Pts
        BY <1>1, <2>4
      <3> QED BY <2>3, <2>4, <3>1 DEF Within
    <2>5. chat.pts \in Nat /\ seen.base \in Nat
      BY <1>1, Bounds DEF RowsOK, ChatRows, SeenOK
    <2>6. Tracked'
      <3>1. chat'.pts <= Pts'
        BY <1>1, <2>3, <2>5 DEF TrackInv, Tracked
      <3>2. ASSUME seen.base # Null, ~chat.gap PROVE KeptWithin(seen.base, chat.pts)'
        <4>1. Within(msgs \union tomb, seen.base, chat.pts) /\ chat.pts <= Pts
          BY <3>2 DEF TrackInv, Tracked, KeptWithin
        <4> HIDE DEF Within
        <4> PICK ids : ids = msgs \union tomb
          OBVIOUS
        <4>2. PICK from \in Nat, to \in Nat : from = seen.base /\ to = chat.pts
          BY <2>5
        <4>3. Within(ids, from, to)'
          BY <2>4, <4>1, <4>2
        <4> QED BY <2>3, <4>2, <4>3 DEF KeptWithin, Within
      <3> QED BY <2>3, <3>1, <3>2 DEF TrackInv, Tracked
    <2>7. ASSUME NEW g \in Gens PROVE Follows(sync[g].main)'
      <3>1. PICK me \in TaskStates : me = sync[g].main /\ me = sync[g]["main"]
        BY <1>1 DEF SyncOK, Syncs
      <3>2. Follows(me) /\ me.pts \in Nat /\ me.dels \subseteq Deletions
        BY <1>1, <1>2, <3>1, Bounds DEF TaskStates, LogInv, SyncTasks
      <3>3. me.pc \in Following => me.pts # Null /\ me.pts <= Pts /\ me.pts <= Pts'
        BY <1>1, <2>3, <3>2 DEF Follows, Following
      <3>4. me.pc \in Differing => me.pc \in Following
        BY DEF Following
      <3>5. ASSUME seen.base # Null, ~chat.gap
            PROVE  /\ me.pc = "diff_save" => Within(me.page, chat.pts, me.pts)'
                   /\ me.pc \in {"diff_save", "diff_delete"} =>
                        \A i \in 1 .. Pts' : log'[i].kind = "delete" /\ log'[i].id \in me.dels => i <= me.pts
                   /\ me.pc \in {"diff_delete", "diff_pts"} => KeptWithin(chat.pts, me.pts)'
        <4>1. ASSUME me.pc = "diff_save" PROVE Within(me.page, chat.pts, me.pts)'
          <5>1. PICK from \in Nat : from = chat.pts
            BY <2>5
          <5>2. Within(me.page, from, me.pts) /\ me.pts <= Pts
            BY <3>2, <3>3, <3>4, <3>5, <4>1, <5>1 DEF Follows, Differing
          <5>3. Within(me.page, from, me.pts)'
            BY <2>4, <3>2, <5>2
          <5> QED BY <2>3, <5>1, <5>3 DEF Within
        <4>2. ASSUME me.pc \in {"diff_save", "diff_delete"}, NEW i \in 1 .. Pts', log'[i].kind = "delete", log'[i].id \in me.dels
              PROVE  i <= me.pts
          <5>1. i \in 1 .. Pts
            BY <1>1, <2>3, <3>2, <4>2
          <5> QED BY <2>3, <3>2, <3>5, <4>2, <5>1 DEF Follows
        <4>3. ASSUME me.pc \in {"diff_delete", "diff_pts"} PROVE KeptWithin(chat.pts, me.pts)'
          <5> PICK ids : ids = msgs \union tomb
            OBVIOUS
          <5>1. PICK from \in Nat : from = chat.pts
            BY <2>5
          <5>2. Within(ids, from, me.pts) /\ me.pts <= Pts
            BY <3>2, <3>3, <3>4, <3>5, <4>3, <5>1 DEF Follows, Differing, KeptWithin
          <5>3. Within(ids, from, me.pts)'
            BY <2>4, <3>2, <5>2
          <5> QED BY <2>3, <5>1, <5>3 DEF KeptWithin, Within
        <4> QED BY <4>1, <4>2, <4>3
      <3>6. Follows(me)'
        BY <2>3, <3>2, <3>3, <3>5 DEF Follows, Following
      <3> QED BY <2>2, <3>1, <3>6 DEF Follows
    <2> QED BY <1>2, <2>2, <2>6, <2>7 DEF TrackInv
  <1>6. CASE Connect
    <2>1. /\ gen' \in Gens /\ UNCHANGED <<log, Rows, seen>>
          /\ \A h \in Gens \ {gen'} : sync'[h] = sync[h]
          /\ sync'[gen'].worker = sync[gen'].worker /\ sync'[gen'].queue = sync[gen'].queue
          /\ sync'[gen'].main.pc = "start"
      BY <1>6, ConnectMoves
    <2>2. "start" \notin Following
      BY DEF Following, Differing, Long
    <2> QED BY <1>2, <1>3, <1>4, <2>1, <2>2
  <1>7. CASE Stop \/ Crash
    <2>1. /\ gen \in Gens /\ UNCHANGED <<World, Rows, seen>>
          /\ \A h \in Gens \ {gen} : sync'[h] = sync[h]
          /\ sync'[gen].main \in {sync[gen].main, Off} /\ sync'[gen].worker \in {sync[gen].worker, Off}
          /\ sync'[gen].queue \in {sync[gen].queue, <<>>}
      BY <1>7, EndMoves DEF SyncTasks
    <2>2. Off.pc = "off" /\ "off" \notin Following
      BY <1>1, OffType DEF Following, Differing, Long
    <2>3. Beside
      BY <1>4, <2>1 DEF World
    <2> QED BY <1>2, <1>3, <2>1, <2>2, <2>3
  <1>8. CASE Wipe
    <2>1. /\ UNCHANGED <<log, sync>> /\ seen'.base = Null /\ chat'.pts = Null
      BY <1>8, WipeMoves DEF NoChat
    <2>2. Pts' = Pts /\ Null <= Pts
      BY <1>1, <2>1 DEF Pts, Null
    <2>3. Tracked'
      BY <2>1, <2>2 DEF Tracked
    <2>4. \A g \in Gens : Follows(sync[g].main)'
      BY <1>2, <2>1, <2>2 DEF Follows
    <2> QED BY <1>2, <2>1, <2>3, <2>4 DEF TrackInv
  <1>9. ASSUME NEW g \in Gens, Ready(g) PROVE TrackInv'
    <2>1. /\ UNCHANGED <<World, Rows, seen>> /\ \A h \in Gens \ {g} : sync'[h] = sync[h]
          /\ sync'[g].queue = sync[g].queue /\ sync'[g].worker = sync[g].worker
          /\ sync'[g].main.pc \in {"off", "waiting"}
      BY <1>1, <1>9, ReadyMoves
    <2>2. sync'[g].main.pc \notin Following
      BY <2>1 DEF Following, Differing, Long
    <2>3. Beside
      BY <1>4, <2>1 DEF World
    <2> QED BY <1>2, <1>3, <2>1, <2>2, <2>3
  <1>10. ASSUME NEW g \in Gens, Take(g) PROVE FALSE
    BY <1>2, <1>10 DEF Take
  <1>11. ASSUME NEW g \in Gens, Step(g, "worker") PROVE FALSE
    BY <1>2, <1>11 DEF Step, At
  <1>12. ASSUME NEW g \in Gens, Backfill(g) PROVE TrackInv'
    <2>1. Step(g, "back") /\ "back" \in SyncTasks /\ "main" \in SyncTasks /\ "worker" \in SyncTasks
      BY <1>12, BackfillStep DEF SyncTasks
    <2>2. Beside
      BY <2>1 DEF Step, Goes, World, Beside, RowsGrow
    <2>3. \A h \in Gens : sync'[h].main = sync[h].main /\ sync'[h].worker = sync[h].worker /\ sync'[h].queue = sync[h].queue
      BY <1>1, <2>1, SetMoves DEF Step, Moved
    <2> QED BY <1>2, <1>3, <2>2, <2>3
  <1>13. ASSUME NEW g \in Gens, CatchUp(g, "main") PROVE TrackInv'
    <2>1. ~DiffRejected(g, "main")
      BY DEF DiffRejected
    <2> QED BY <1>13, <2>1, DiffTracks, LongTracks, FillTracks DEF CatchUp
  <1>14. ASSUME NEW g \in Gens, CatchUp(g, "worker") PROVE TrackInv'
    BY <1>11, <1>14, CatchUpStep
  <1>15. ASSUME NEW g \in Gens, Dialogs(g) PROVE TrackInv'
    BY <1>9, <1>15, DialogTracks DEF Dialogs
  <1>16. ASSUME NEW g \in Gens, Live(g) PROVE TrackInv'
    BY <1>10, <1>11, <1>16, LiveStep DEF Live
  <1>17. CASE UNCHANGED syncVars
    <2>1. UNCHANGED <<log, Rows, seen>> /\ sync' = sync
      BY <1>17 DEF syncVars, Rows
    <2> QED BY <1>2, <1>3, <1>4, <2>1
  <1> QED BY <1>5, <1>6, <1>7, <1>8, <1>12, <1>13, <1>14, <1>15, <1>16, <1>17 DEF SyncNext, Happening

-----------------------------------------------------------------------------
(* Nothing is forgotten. *)

LEMMA ChannelStays ==
    ASSUME TypeInv, LogInv, [SyncNext]_syncVars
    PROVE  UNCHANGED channel
PROOF
  <1>1. SyncAssumption /\ SyncOK /\ RowsOK
    BY TypeParts
  <1> QED BY <1>1, NextMoves, HappeningIs, ConnectMoves, EndMoves, WipeMoves, ReadyMoves, TakeMoves
          DEF Moves, Event, Step, Goes, World, syncVars

\* What the theorem that follows carries along.
Carried == TypeInv /\ LogInv /\ OneAtWork /\ HoleInv

LEMMA CarriedInit == ASSUME SyncAssumption, SyncInit PROVE Carried
PROOF
  <1>1. TypeInv /\ LogInv
    BY TypeInit
  <1>2. /\ chat.cursor = Null /\ seen.first = Null
        /\ \A g \in Gens : /\ ~sync[g].on /\ sync[g].back.pc = "off"
                           /\ \A t \in SyncTasks : sync[g][t].pc = "off"
    BY DEF SyncInit, NoChat, NewSync, Off, SyncTasks
  <1>3. OneAtWork
    BY <1>2 DEF OneAtWork, At
  <1>4. HoleInv
    BY <1>2 DEF HoleInv, BackfillLeavesNoHole, Filling, Fetched
  <1> QED BY <1>1, <1>3, <1>4 DEF Carried

\* Of any channel, pushed or not: what lies between the cursor of its backfill and the
\* newest message of the first page it stored is stored.
THEOREM NoHoleBehind == SyncAssumption /\ ~Overlap => (SyncSpec => []BackfillLeavesNoHole)
PROOF
  <1> SUFFICES ASSUME SyncAssumption, ~Overlap PROVE SyncSpec => []BackfillLeavesNoHole
    OBVIOUS
  <1>1. SyncInit => Carried
    BY CarriedInit
  <1>2. Carried /\ [SyncNext]_syncVars => Carried'
    BY SyncTypeStep, LogStep, OneStep, HoleStep DEF Carried
  <1>3. Carried => BackfillLeavesNoHole
    BY DEF Carried, HoleInv
  <1> QED BY <1>1, <1>2, <1>3, PTL DEF SyncSpec

LEMMA TrackInit == ASSUME SyncInit, SyncAssumption PROVE TrackInv
PROOF
  <1>1. /\ Pts = 0 /\ chat.pts = 0 /\ seen.base = Null
        /\ \A g \in Gens : sync[g].worker.pc = "off" /\ sync[g].queue = <<>> /\ sync[g].main.pc = "off"
    BY DEF SyncInit, Pts, NoChat, NewSync, Off, Null
  <1> QED BY <1>1 DEF TrackInv, Tracked, Follows, Differing, Long

\* Where a connection begins when the one before it is at rest, and a channel that is not
\* pushed is one Telegram answers for: what came and is not stored is looked for, above the
\* pts, below the cursor, or where the gap says it is.
THEOREM NothingForgotten ==
    SyncAssumption /\ ~Overlap /\ (\A c \in Channels : c.unsteady => c.pushed) => (SyncSpec => []NothingIsForgotten)
PROOF
  <1> SUFFICES ASSUME SyncAssumption, ~Overlap, \A c \in Channels : c.unsteady => c.pushed
               PROVE  SyncSpec => []NothingIsForgotten
    OBVIOUS
  <1>1. SyncInit => Carried /\ QuietInv
    BY CarriedInit, TrackInit DEF QuietInv
  <1>2. Carried /\ QuietInv /\ [SyncNext]_syncVars => Carried' /\ QuietInv'
    <2> SUFFICES ASSUME Carried, QuietInv, [SyncNext]_syncVars PROVE Carried' /\ QuietInv'
      OBVIOUS
    <2>1. Carried'
      BY SyncTypeStep, LogStep, OneStep, HoleStep DEF Carried
    <2>2. ASSUME ~channel'.pushed PROVE TrackInv'
      <3>1. channel' = channel /\ channel \in Channels
        BY ChannelStays, TypeParts DEF Carried, LogOK
      <3>2. ~channel.pushed /\ ~channel.unsteady
        BY <2>2, <3>1
      <3> QED BY <3>2, TrackStep DEF Carried, QuietInv
    <2> QED BY <2>1, <2>2 DEF QuietInv
  <1>3. Carried /\ QuietInv => NothingIsForgotten
    <2> SUFFICES ASSUME Carried, QuietInv PROVE NothingIsForgotten
      OBVIOUS
    <2>1. BackfillLeavesNoHole
      BY DEF Carried, HoleInv
    <2>2. ASSUME ~channel.pushed, chat.pts # Null, ~chat.gap, seen.base # Null
          PROVE  IdsOf("new", seen.base + 1, chat.pts) \ IdsOf("delete", 1, Pts) \subseteq msgs \union tomb
      <3>1. KeptWithin(seen.base, chat.pts)
        BY <2>2 DEF QuietInv, TrackInv, Tracked
      <3> QED BY <3>1 DEF KeptWithin, Within, IdsOf, Deletions
    <2> QED BY <2>1, <2>2 DEF NothingIsForgotten, QuietMissedIsRecorded, MissedIsRecorded
  <1> QED BY <1>1, <1>2, <1>3, PTL DEF SyncSpec

-----------------------------------------------------------------------------
\* The locks and a channel side by side, as they are model-checked: the inductive invariant of
\* the one (what a process holds, what is on the wire and what Postgres counts, locks.ts) and the
\* shape of the other.
THEOREM BothHold == MCSpec => []BothInv
PROOF
  <1>1. MCInit => Init /\ SyncInit
    BY DEF MCInit
  <1>2. [MCNext]_<<part, lockVars, syncVars>> => [Next]_lockVars /\ [SyncNext]_syncVars
    BY DEF MCNext
  <1>3. MCSpec => Spec /\ SyncSpec
    BY <1>1, <1>2, PTL DEF MCSpec, Spec, SyncSpec
  <1>4. IInv /\ SyncTypeOK => BothInv
    BY DEF BothInv
  <1> QED BY <1>3, <1>4, Invariance, SyncTypeCorrect, SyncAssumed, PTL
=============================================================================

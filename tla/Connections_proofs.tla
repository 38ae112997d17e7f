------------------------- MODULE Connections_proofs -------------------------
(* Proofs of what is kept of one connection (Connections), of the mails about *)
(* it (Alerts) and of a scoped token's calls that read it (Reading), for any   *)
(* number of replicas, calls and messages, faults, crashes and expiries.       *)
EXTENDS MCConnections, Sequences, TLAPS, FiniteSetTheorems

-----------------------------------------------------------------------------
(* The invariants. *)

Pcs ==
    {"idle", "insert", "undo", "claim", "extend", "connect", "reclaim", "release", "evo_delete", "row_delete",
     "live", "owner", "messages", "record"}
Instances == [there : BOOLEAN, live : Lives, owner : BOOLEAN, history : BOOLEAN]
Rows == [there : BOOLEAN, paired : BOOLEAN, hold : BOOLEAN, lease : BOOLEAN, old : BOOLEAN]
Steps == [pc : Pcs, claimed : BOOLEAN]

\* What TypeOK leaves open: what is under way, and that a socket is open for an owner.
TypeInv ==
    /\ TypeOK
    /\ evo \in Instances /\ row \in Rows
    /\ readable \in BOOLEAN
    /\ task \in [Procs -> [Tasks -> Steps]]
    /\ noted \in [Procs -> BOOLEAN] /\ storing \in [Procs -> BOOLEAN]
    /\ fresh \in [Procs -> BOOLEAN] /\ watch \in [Procs -> BOOLEAN]
    /\ evo.live = "open" => evo.owner

Making(p) == At(p, "web", "insert") \/ At(p, "web", "undo")
Used == row.there \/ row.old

\* Who makes the instance is alone, and there is no row yet; who is about to delete the
\* row has seen the instance go, and nobody makes another for a row that was used.
LifeInv ==
    /\ NoOrphan
    /\ \A p \in Procs : Making(p) =>
        /\ evo.there /\ row = NoRow
        /\ \A q \in Procs \ {p} : At(q, "web", "idle")
    /\ \A p \in Procs, t \in Tasks : At(p, t, "row_delete") => ~evo.there /\ Used
    /\ \A p \in Procs : At(p, "web", "idle") \/ Making(p) \/ Used

\* A claimed connect and Evolution's own reconnect exclude each other: the hold outlasts
\* the reconnect.
HoldInv ==
    /\ OneSocket
    /\ evo.live = "retry" => row.hold

\* The lease is one reaper's for as long as it reaps.
LeaseInv ==
    /\ ReapedByOne
    /\ \A p \in Procs : ~At(p, "reap", "idle") => row.old /\ (row.there => row.lease)

\* What a reaper has yet to look at is where the link that it watches can be seen.
WatchInv ==
    /\ PairedIsKept
    /\ \A p \in Procs : watch[p] => Linked
    /\ \A p \in Procs : At(p, "reap", "messages") /\ watch[p] => evo.history

-----------------------------------------------------------------------------
(* Types. *)

LEMMA GotoType ==
    ASSUME TypeInv, NEW p \in Procs, NEW t \in Tasks, NEW pc \in Pcs, Goto(p, t, pc)
    PROVE  /\ task' \in [Procs -> [Tasks -> Steps]]
           /\ task'[p][t].pc = pc /\ task'[p][t].claimed = task[p][t].claimed
           /\ \A q \in Procs, u \in Tasks : <<q, u>> # <<p, t>> => task'[q][u] = task[q][u]
PROOF
  <1>1. task \in [Procs -> [Tasks -> Steps]] /\ task' = [task EXCEPT ![p][t].pc = pc]
    BY DEF TypeInv, Goto
  <1>2. [task[p][t] EXCEPT !.pc = pc] \in Steps /\ [task[p][t] EXCEPT !.pc = pc].pc = pc
        /\ [task[p][t] EXCEPT !.pc = pc].claimed = task[p][t].claimed
    BY <1>1 DEF Steps
  <1>3. task'[p][t] = [task[p][t] EXCEPT !.pc = pc]
    BY <1>1
  <1> QED BY <1>1, <1>2, <1>3

LEMMA StepType ==
    ASSUME TypeInv, NEW p \in Procs, NEW t \in Tasks, NEW x \in Steps, task' = [task EXCEPT ![p][t] = x]
    PROVE  /\ task' \in [Procs -> [Tasks -> Steps]] /\ task'[p][t] = x
           /\ \A q \in Procs, u \in Tasks : <<q, u>> # <<p, t>> => task'[q][u] = task[q][u]
  BY DEF TypeInv

LEMMA IdleType == Idle \in Steps /\ Idle.pc = "idle" /\ Idle.claimed = FALSE
  BY DEF Idle, Steps, Pcs

LEMMA TypeInit == Init => TypeInv
PROOF
  <1> SUFFICES ASSUME Init PROVE TypeInv
    OBVIOUS
  <1>1. NoEvo \in Instances /\ NoRow \in Rows /\ NoEvo.live = "close" /\ ~NoRow.there /\ ~NoRow.paired /\ ~NoRow.hold
    BY DEF NoEvo, NoRow, Instances, Rows, Lives
  <1>2. task \in [Procs -> [Tasks -> Steps]]
    BY IdleType DEF Init
  <1>3. TypeOK
    BY <1>1, <1>2 DEF Init, TypeOK, Instances, Rows, Steps
  <1> QED BY <1>1, <1>2, <1>3 DEF Init, TypeInv

\* The parts of the type that each kind of step writes.
EvoOK == evo \in Instances /\ (~evo.there => evo = NoEvo) /\ (evo.live = "open" => evo.owner) /\ watch \in [Procs -> BOOLEAN]
RowOK == row \in Rows /\ (~row.there => ~row.paired /\ ~row.hold)
MemoryOK == noted \in [Procs -> BOOLEAN] /\ storing \in [Procs -> BOOLEAN] /\ fresh \in [Procs -> BOOLEAN]
GivenOK == crew \in Crews /\ readable \in BOOLEAN
TaskOK == task \in [Procs -> [Tasks -> Steps]]

LEMMA TypeParts == TypeInv <=> EvoOK /\ RowOK /\ MemoryOK /\ GivenOK /\ TaskOK
  BY DEF TypeInv, TypeOK, EvoOK, RowOK, MemoryOK, GivenOK, TaskOK, Instances, Rows, Steps

LEMMA SetEvoType ==
    ASSUME TypeInv, NEW e \in Instances, SetEvo(e), ~e.there => e = NoEvo, e.live = "open" => e.owner
    PROVE  EvoOK'
  BY DEF SetEvo, EvoOK, TypeInv, LinkedOf, Instances

LEMMA NoteType ==
    ASSUME TypeInv, NEW p \in Procs, Note(p)
    PROVE  noted' \in [Procs -> BOOLEAN] /\ storing' \in [Procs -> BOOLEAN]
  BY DEF TypeInv, Note

LEMMA TypeStep == TypeInv /\ [Next]_vars => TypeInv'
PROOF
  <1> SUFFICES ASSUME TypeInv, [Next]_vars PROVE TypeInv'
    OBVIOUS
  <1>0. /\ EvoOK /\ RowOK /\ MemoryOK /\ GivenOK /\ TaskOK
        /\ NoEvo \in Instances /\ ~NoEvo.there /\ NoEvo.live = "close" /\ ~NoEvo.owner
        /\ NoRow \in Rows /\ ~NoRow.there /\ ~NoRow.paired /\ ~NoRow.hold
        /\ "web" \in Tasks /\ "reap" \in Tasks
    BY TypeParts DEF NoEvo, NoRow, Instances, Rows, Lives, Tasks
  <1>1. TypeInv' <=> EvoOK' /\ RowOK' /\ MemoryOK' /\ GivenOK' /\ TaskOK'
    BY DEF TypeInv, TypeOK, EvoOK, RowOK, MemoryOK, GivenOK, TaskOK, Instances, Rows, Steps
  <1>2. ASSUME UNCHANGED <<evo, watch>> PROVE EvoOK'
    BY <1>0, <1>2 DEF EvoOK
  <1>3. ASSUME UNCHANGED row PROVE RowOK'
    BY <1>0, <1>3 DEF RowOK
  <1>4. ASSUME UNCHANGED memory PROVE MemoryOK'
    BY <1>0, <1>4 DEF MemoryOK, memory
  <1>5. ASSUME UNCHANGED given PROVE GivenOK'
    BY <1>0, <1>5 DEF GivenOK, given
  <1>6. ASSUME UNCHANGED task PROVE TaskOK'
    BY <1>0, <1>6 DEF TaskOK
  <1>7. ASSUME NEW p \in Procs, NEW t \in Tasks, Done(p, t) PROVE TaskOK'
    BY <1>7, IdleType, StepType DEF Done, TaskOK
  <1>8. ASSUME NEW p \in Procs, NEW t \in Tasks, NEW pc \in Pcs, Goto(p, t, pc) PROVE TaskOK'
    BY <1>8, GotoType DEF TaskOK
  <1>9. /\ \A live \in Lives, owner \in BOOLEAN, history \in BOOLEAN :
             /\ [evo EXCEPT !.live = live] \in Instances
             /\ [evo EXCEPT !.live = live].there = evo.there /\ [evo EXCEPT !.live = live].live = live
             /\ [evo EXCEPT !.live = live].owner = evo.owner
             /\ [evo EXCEPT !.live = live, !.owner = owner] \in Instances
             /\ [evo EXCEPT !.live = live, !.owner = owner].there = evo.there
             /\ [evo EXCEPT !.live = live, !.owner = owner].live = live
             /\ [evo EXCEPT !.live = live, !.owner = owner].owner = owner
             /\ [evo EXCEPT !.history = history] \in Instances
             /\ [evo EXCEPT !.history = history].there = evo.there
             /\ [evo EXCEPT !.history = history].live = evo.live
             /\ [evo EXCEPT !.history = history].owner = evo.owner
        /\ evo.live # "close" => evo.there
    BY <1>0 DEF EvoOK, Instances
  <1> USE DEF Pcs, Lives
  <1>10. ASSUME NEW p \in Procs, Provision(p) PROVE TypeInv'
    <2>1. CASE Create(p)
      <3>1. [NoEvo EXCEPT !.there = TRUE] \in Instances /\ [NoEvo EXCEPT !.there = TRUE].there = TRUE
            /\ [NoEvo EXCEPT !.there = TRUE].live = "close"
        BY <1>0 DEF Instances
      <3>2. EvoOK'
        BY <2>1, <3>1, SetEvoType DEF Create
      <3> QED BY <1>0, <1>1, <1>3, <1>4, <1>5, <1>8, <2>1, <3>2 DEF Create
    <2>2. CASE Insert(p)
      <3>1. RowOK'
        BY <1>0, <2>2 DEF Insert, RowOK, Rows
      <3> QED BY <1>0, <1>1, <1>2, <1>4, <1>5, <1>7, <2>2, <3>1 DEF Insert
    <2>3. CASE InsertFails(p)
      BY <1>0, <1>1, <1>2, <1>3, <1>4, <1>5, <1>8, <2>3 DEF InsertFails
    <2>4. CASE Undo(p)
      <3>1. EvoOK'
        BY <1>0, <1>2, <2>4, SetEvoType DEF Undo
      <3> QED BY <1>0, <1>1, <1>3, <1>4, <1>5, <1>7, <2>4, <3>1 DEF Undo
    <2> QED BY <1>10, <2>1, <2>2, <2>3, <2>4 DEF Provision
  <1>11. ASSUME NEW p \in Procs, Pairing(p) PROVE TypeInv'
    <2>1. CASE PollRead(p)
      BY <1>0, <1>1, <1>2, <1>3, <1>4, <1>5, <1>8, <2>1 DEF PollRead
    <2>2. CASE PollOpen(p)
      <3>1. RowOK' /\ MemoryOK'
        <4>1. noted' \in [Procs -> BOOLEAN] /\ storing' \in [Procs -> BOOLEAN]
          BY <2>2, NoteType DEF PollOpen
        <4>2. fresh' \in [Procs -> BOOLEAN]
          BY <1>0, <2>2 DEF PollOpen, MemoryOK
        <4>3. row' \in Rows /\ row'.there = row.there /\ row.there
          BY <1>0, <2>2 DEF PollOpen, RowOK, Rows, MemoryOK
        <4> QED BY <4>1, <4>2, <4>3 DEF RowOK, MemoryOK
      <3> QED BY <1>0, <1>1, <1>2, <1>5, <1>6, <2>2, <3>1 DEF PollOpen
    <2>3. CASE Extend(p)
      <3>1. RowOK' /\ MemoryOK'
        BY <1>0, <2>3 DEF Extend, RowOK, Rows, MemoryOK
      <3> QED BY <1>0, <1>1, <1>2, <1>5, <1>8, <2>3, <3>1 DEF Extend
    <2>4. CASE Claim(p) \/ Reclaim(p)
      <3>1. RowOK' /\ MemoryOK'
        BY <1>0, <2>4 DEF Claim, Reclaim, RowOK, Rows, MemoryOK
      <3>2. TaskOK'
        <4>1. [pc |-> "connect", claimed |-> TRUE] \in Steps
          BY DEF Steps
        <4> QED BY <1>0, <1>7, <2>4, <4>1, StepType DEF Claim, Reclaim, TaskOK
      <3> QED BY <1>0, <1>1, <1>2, <1>5, <2>4, <3>1, <3>2 DEF Claim, Reclaim
    <2>5. CASE Connect(p)
      <3>1. EvoOK'
        <4> DEFINE e == IF evo.there /\ Reads("close") THEN [evo EXCEPT !.live = "connecting"] ELSE evo
        <4>1. e \in Instances /\ (~e.there => e = NoEvo) /\ (e.live = "open" => e.owner)
          BY <1>0, <1>9 DEF EvoOK
        <4>2. SetEvo(e)
          BY <2>5 DEF Connect
        <4> HIDE DEF e
        <4> QED BY <4>1, <4>2, SetEvoType
      <3>2. MemoryOK'
        BY <1>0, <2>5, NoteType DEF Connect, MemoryOK
      <3> QED BY <1>0, <1>1, <1>3, <1>5, <1>7, <2>5, <3>1, <3>2 DEF Connect
    <2>6. CASE ConnectFails(p)
      BY <1>0, <1>1, <1>2, <1>3, <1>4, <1>5, <1>7, <2>6 DEF ConnectFails
    <2>7. CASE Reconnect(p)
      BY <1>0, <1>1, <1>2, <1>3, <1>4, <1>5, <1>8, <2>7 DEF Reconnect
    <2>8. CASE Logout(p)
      <3>1. EvoOK'
        <4> DEFINE e == IF Reads("close") THEN evo ELSE [evo EXCEPT !.live = "close", !.owner = FALSE]
        <4>1. e \in Instances /\ (~e.there => e = NoEvo) /\ (e.live = "open" => e.owner)
          BY <1>0, <1>9, <2>8 DEF EvoOK, Logout
        <4>2. SetEvo(e)
          BY <2>8 DEF Logout
        <4> HIDE DEF e
        <4> QED BY <4>1, <4>2, SetEvoType
      <3>2. MemoryOK'
        BY <1>0, <2>8 DEF Logout, MemoryOK
      <3> QED BY <1>0, <1>1, <1>3, <1>5, <1>8, <2>8, <3>1, <3>2 DEF Logout
    <2>9. CASE Release(p)
      <3>1. RowOK' /\ MemoryOK'
        BY <1>0, <2>9 DEF Release, RowOK, Rows, MemoryOK
      <3> QED BY <1>0, <1>1, <1>2, <1>5, <1>7, <2>9, <3>1 DEF Release
    <2> QED BY <1>11, <2>1, <2>2, <2>3, <2>4, <2>5, <2>6, <2>7, <2>8, <2>9 DEF Pairing
  <1>12. ASSUME NEW p \in Procs, NEW t \in Tasks, EvoDelete(p, t) \/ RowDelete(p, t) PROVE TypeInv'
    <2>1. CASE EvoDelete(p, t)
      <3>1. EvoOK'
        BY <1>0, <1>2, <2>1, SetEvoType DEF EvoDelete
      <3>2. TaskOK'
        BY <1>7, <1>8, <2>1 DEF EvoDelete
      <3> QED BY <1>0, <1>1, <1>3, <1>4, <1>5, <2>1, <3>1, <3>2 DEF EvoDelete
    <2>2. CASE RowDelete(p, t)
      <3>1. RowOK'
        BY <1>0, <2>2 DEF RowDelete, RowOK, Rows
      <3> QED BY <1>0, <1>1, <1>2, <1>4, <1>5, <1>7, <2>2, <3>1 DEF RowDelete
    <2> QED BY <1>12, <2>1, <2>2
  <1>13. ASSUME NEW p \in Procs, Reap(p) PROVE TypeInv'
    <2>1. CASE ReapClaim(p)
      <3>1. RowOK'
        BY <1>0, <2>1 DEF ReapClaim, RowOK, Rows
      <3>2. EvoOK'
        BY <1>0, <2>1 DEF ReapClaim, EvoOK, LinkedOf, Linked, Instances, GivenOK
      <3> QED BY <1>0, <1>1, <1>4, <1>5, <1>8, <2>1, <3>1, <3>2 DEF ReapClaim
    <2>2. CASE SeeLive(p) \/ SeeOwner(p) \/ SeeMessages(p)
      <3>1. TaskOK'
        <4>1. \E pc \in Pcs : Goto(p, "reap", pc)
          BY <1>0, <2>2 DEF SeeLive, SeeOwner, SeeMessages, EvoOK, GivenOK, Instances
        <4> QED BY <1>0, <1>8, <4>1
      <3> QED BY <1>0, <1>1, <1>2, <1>3, <1>4, <1>5, <2>2, <3>1 DEF SeeLive, SeeOwner, SeeMessages
    <2>3. CASE EvidenceFails(p)
      BY <1>0, <1>1, <1>2, <1>3, <1>4, <1>5, <1>7, <2>3 DEF EvidenceFails
    <2>4. CASE Record(p)
      <3>1. RowOK' /\ MemoryOK'
        BY <1>0, <2>4 DEF Record, RowOK, Rows, MemoryOK
      <3> QED BY <1>0, <1>1, <1>2, <1>5, <1>7, <2>4, <3>1 DEF Record
    <2> QED BY <1>0, <1>12, <1>13, <2>1, <2>2, <2>3, <2>4 DEF Reap, Evidence
  <1>14. ASSUME NEW p \in Procs, Delete(p) \/ ReadStatus(p) \/ StorePaired(p) \/ FreshEnds(p) \/ Crash(p) PROVE TypeInv'
    <2>1. CASE Delete(p)
      BY <1>0, <1>1, <1>2, <1>3, <1>4, <1>5, <1>8, <2>1 DEF Delete
    <2>2. CASE ReadStatus(p)
      <3>1. MemoryOK'
        BY <1>0, <2>2, NoteType DEF ReadStatus, MemoryOK
      <3> QED BY <1>0, <1>1, <1>2, <1>3, <1>5, <1>6, <2>2, <3>1 DEF ReadStatus
    <2>3. CASE StorePaired(p)
      <3>1. RowOK' /\ MemoryOK'
        BY <1>0, <2>3 DEF StorePaired, RowOK, Rows, MemoryOK
      <3> QED BY <1>0, <1>1, <1>2, <1>5, <1>6, <2>3, <3>1 DEF StorePaired
    <2>4. CASE FreshEnds(p)
      <3>1. MemoryOK'
        BY <1>0, <2>4 DEF FreshEnds, MemoryOK
      <3> QED BY <1>0, <1>1, <1>2, <1>3, <1>5, <1>6, <2>4, <3>1 DEF FreshEnds
    <2>5. CASE Crash(p)
      <3>1. MemoryOK' /\ EvoOK'
        BY <1>0, <2>5 DEF Crash, MemoryOK, EvoOK
      <3>2. TaskOK'
        <4>1. [t \in Tasks |-> Idle] \in [Tasks -> Steps]
          BY IdleType
        <4> QED BY <1>0, <2>5, <4>1 DEF Crash, TaskOK
      <3> QED BY <1>0, <1>1, <1>3, <1>5, <2>5, <3>1, <3>2 DEF Crash
    <2> QED BY <1>14, <2>1, <2>2, <2>3, <2>4, <2>5
  <1>15. ASSUME HoldEnds \/ Ages \/ LeaseEnds PROVE TypeInv'
    <2>1. RowOK'
      BY <1>0, <1>15 DEF HoldEnds, Ages, LeaseEnds, RowOK, Rows
    <2> QED BY <1>0, <1>1, <1>2, <1>4, <1>5, <1>6, <1>15, <2>1 DEF HoldEnds, Ages, LeaseEnds
  <1>16. ASSUME NEW e \in Instances, SetEvo(e), ~e.there => e = NoEvo, e.live = "open" => e.owner,
                UNCHANGED <<given, row, task, memory>>
         PROVE  TypeInv'
    BY <1>0, <1>1, <1>3, <1>4, <1>5, <1>6, <1>16, SetEvoType
  <1>17. ASSUME Scan \/ RetryLands \/ History \/ Expires \/ Opens \/ Drops \/ Unlinked PROVE TypeInv'
    <2>1. evo.there /\ UNCHANGED <<given, row, task, memory>>
      BY <1>9, <1>17 DEF Scan, RetryLands, History, Expires, Opens, Drops, Unlinked, Become
    <2>2. CASE Scan
      BY <1>9, <1>16, <2>1, <2>2 DEF Scan
    <2>3. CASE RetryLands
      BY <1>9, <1>16, <2>1, <2>3 DEF RetryLands, Become
    <2>4. CASE History
      BY <1>0, <1>9, <1>16, <2>1, <2>4 DEF History, Become, EvoOK
    <2>5. CASE Expires \/ Unlinked
      BY <1>9, <1>16, <2>1, <2>5 DEF Expires, Unlinked, Become
    <2>6. CASE Opens \/ Drops
      BY <1>9, <1>16, <2>1, <2>6 DEF Opens, Drops, Become
    <2> QED BY <1>17, <2>2, <2>3, <2>4, <2>5, <2>6
  <1>18. CASE UNCHANGED vars
    BY <1>0, <1>1, <1>2, <1>3, <1>4, <1>5, <1>6, <1>18 DEF vars, given, memory
  <1> QED BY <1>0, <1>10, <1>11, <1>12, <1>13, <1>14, <1>15, <1>17, <1>18 DEF Next

-----------------------------------------------------------------------------
(* What a step does to the tasks. *)

Moves(p, t, pc) ==
    \A q \in Procs, u \in Tasks : task'[q][u].pc = IF q = p /\ u = t THEN pc ELSE task[q][u].pc

LEMMA GotoMoves ==
    ASSUME TypeInv, NEW p \in Procs, NEW t \in Tasks, NEW pc \in Pcs, Goto(p, t, pc)
    PROVE  Moves(p, t, pc) /\ \A q \in Procs, u \in Tasks : task'[q][u].claimed = task[q][u].claimed
PROOF
  <1>1. /\ task'[p][t].pc = pc /\ task'[p][t].claimed = task[p][t].claimed
        /\ \A q \in Procs, u \in Tasks : <<q, u>> # <<p, t>> => task'[q][u] = task[q][u]
    BY GotoType
  <1> QED BY <1>1 DEF Moves

LEMMA DoneMoves ==
    ASSUME TypeInv, NEW p \in Procs, NEW t \in Tasks, Done(p, t)
    PROVE  Moves(p, t, "idle") /\ \A q \in Procs, u \in Tasks : task'[q][u].claimed => task[q][u].claimed
PROOF
  <1>1. /\ task'[p][t] = Idle
        /\ \A q \in Procs, u \in Tasks : <<q, u>> # <<p, t>> => task'[q][u] = task[q][u]
    BY IdleType, StepType DEF Done
  <1> QED BY <1>1, IdleType DEF Moves

LEMMA ClaimMoves ==
    ASSUME TypeInv, NEW p \in Procs, task' = [task EXCEPT ![p]["web"] = [pc |-> "connect", claimed |-> TRUE]]
    PROVE  Moves(p, "web", "connect")
PROOF
  <1>1. [pc |-> "connect", claimed |-> TRUE] \in Steps /\ "web" \in Tasks
    BY DEF Steps, Pcs, Tasks
  <1> QED BY <1>1, StepType DEF Moves

-----------------------------------------------------------------------------
(* The instance and its row. *)

\* Tasks move, but for those that make or delete; the row keeps what it was.
LEMMA LifeStays ==
    ASSUME TypeInv, LifeInv, evo'.there = evo.there, row'.there = row.there, Used => Used',
           row = NoRow => row' = NoRow, orphaned' = orphaned,
           \A q \in Procs, u \in Tasks :
               \/ task'[q][u].pc = task[q][u].pc
               \/ /\ task[q][u].pc \notin {"insert", "undo"} /\ task'[q][u].pc \notin {"insert", "undo", "row_delete"}
                  /\ u = "web" => task'[q][u].pc = "idle" \/ Used
    PROVE  LifeInv'
PROOF
  <1>1. /\ row = NoRow => ~Used
        /\ "web" \in Tasks
    BY DEF NoRow, Used, Tasks
  <1>2. \A p \in Procs : Making(p) <=> Making(p)'
    BY <1>1 DEF Making, At
  <1>3. NoOrphan'
    BY <1>2 DEF LifeInv, NoOrphan, Making
  <1>4. ASSUME NEW p \in Procs, Making(p)' PROVE evo'.there /\ row' = NoRow /\ \A q \in Procs \ {p} : At(q, "web", "idle")'
    BY <1>1, <1>2, <1>4 DEF LifeInv, At
  <1>5. \A p \in Procs, t \in Tasks : At(p, t, "row_delete")' => ~evo'.there /\ Used'
    BY DEF LifeInv, At
  <1>6. \A p \in Procs : At(p, "web", "idle")' \/ Making(p)' \/ Used'
    BY <1>1, <1>2 DEF LifeInv, At
  <1> QED BY <1>3, <1>4, <1>5, <1>6 DEF LifeInv

LEMMA LifeStep == TypeInv /\ LifeInv /\ LeaseInv /\ [Next]_vars => LifeInv'
PROOF
  <1> SUFFICES ASSUME TypeInv, LifeInv, LeaseInv, [Next]_vars PROVE LifeInv'
    OBVIOUS
  <1> USE DEF Pcs, At
  <1>0. /\ evo \in Instances /\ row \in Rows /\ "web" \in Tasks /\ "reap" \in Tasks /\ Tasks = {"web", "reap"}
        /\ ~row.there => ~row.paired /\ ~row.hold
        /\ evo.live # "close" => evo.there
        /\ row = NoRow => ~row.there /\ ~row.old /\ ~row.paired /\ ~row.hold /\ ~row.lease
        /\ NoRow \in Rows
    BY DEF TypeInv, TypeOK, NoEvo, NoRow, Tasks, Rows
  \* A step that moves one task, or none, and neither makes nor deletes.
  <1>1. ASSUME NEW p \in Procs, NEW t \in Tasks, NEW pc \in Pcs \ {"insert", "undo", "row_delete"}, Moves(p, t, pc),
               task[p][t].pc \notin {"insert", "undo"}, t = "web" => pc = "idle" \/ Used,
               evo'.there = evo.there, row'.there = row.there, row'.old = row.old, row = NoRow => row' = NoRow, orphaned' = orphaned
        PROVE  LifeInv'
    BY <1>1, LifeStays DEF Moves, Used
  <1>2. ASSUME task' = task, evo'.there = evo.there, row'.there = row.there, row.old => row'.old, row = NoRow => row' = NoRow,
               orphaned' = orphaned
        PROVE  LifeInv'
    BY <1>2, LifeStays DEF Used
  <1>3. \A p \in Procs : task[p]["web"].pc \notin {"idle", "insert", "undo"} => Used
    BY DEF LifeInv, Making
  <1>4. row = NoRow => /\ [row EXCEPT !.hold = row.there] = row /\ [row EXCEPT !.hold = FALSE] = row
                       /\ [row EXCEPT !.paired = row.there] = row
    BY <1>0 DEF Rows, NoRow
  <1>5. ASSUME NEW p \in Procs, Create(p) PROVE LifeInv'
    <2>1. evo'.there = TRUE /\ row' = row /\ row = NoRow /\ orphaned' = orphaned /\ ~evo.there /\ \A q \in Procs : At(q, "web", "idle")
      BY <1>5 DEF Create, SetEvo, NoEvo
    <2>2. Moves(p, "web", "insert")
      BY <1>0, <1>5, GotoMoves DEF Create
    <2>3. Used' = Used /\ ~Used
      BY <1>0, <2>1 DEF Used
    <2>4. \A q \in Procs : Making(q)' <=> q = p
      BY <1>0, <2>1, <2>2 DEF Making, Moves
    <2>5. \A q \in Procs, u \in Tasks : ~At(q, u, "row_delete")'
      BY <1>0, <2>2, <2>3 DEF Moves, LifeInv
    <2>6. NoOrphan'
      BY <2>4 DEF NoOrphan, Making
    <2>7. \A q \in Procs \ {p} : At(q, "web", "idle")'
      BY <1>0, <2>1, <2>2 DEF Moves
    <2> QED BY <2>1, <2>4, <2>5, <2>6, <2>7 DEF LifeInv
  <1>6. ASSUME NEW p \in Procs, Insert(p) PROVE LifeInv'
    <2>1. row'.there = TRUE /\ evo' = evo /\ orphaned' = orphaned
      BY <1>6 DEF Insert, NoRow
    <2>2. Moves(p, "web", "idle")
      BY <1>0, <1>6, DoneMoves DEF Insert
    <2>3. \A q \in Procs : ~Making(q)'
      BY <1>0, <1>6, <2>2 DEF Making, Moves, LifeInv, Insert
    <2>4. \A q \in Procs, u \in Tasks : ~At(q, u, "row_delete")'
      BY <1>0, <1>6, <2>2 DEF Moves, LifeInv, Insert, Making
    <2>5. Used' /\ NoOrphan'
      BY <2>1 DEF Used, NoOrphan
    <2> QED BY <2>3, <2>4, <2>5 DEF LifeInv
  <1>7. ASSUME NEW p \in Procs, InsertFails(p) PROVE LifeInv'
    <2>1. UNCHANGED <<evo, row, orphaned>> /\ Making(p)
      BY <1>7 DEF InsertFails, Making
    <2>2. Moves(p, "web", "undo")
      BY <1>0, <1>7, GotoMoves DEF InsertFails
    <2>3. \A q \in Procs : Making(q)' <=> Making(q)
      BY <1>0, <2>1, <2>2 DEF Making, Moves
    <2>4. NoOrphan'
      BY <2>1, <2>3 DEF LifeInv, NoOrphan, Making
    <2>5. \A q \in Procs, u \in Tasks : At(q, u, "row_delete")' => At(q, u, "row_delete")
      BY <1>0, <2>2 DEF Moves
    <2>6. \A q \in Procs : At(q, "web", "idle") => At(q, "web", "idle")'
      BY <1>0, <1>7, <2>2 DEF Moves, InsertFails
    <2>7. Used' = Used
      BY <2>1 DEF Used
    <2> QED BY <2>1, <2>3, <2>4, <2>5, <2>6, <2>7 DEF LifeInv
  <1>8. ASSUME NEW p \in Procs, Undo(p) PROVE LifeInv'
    <2>0. ~NoEvo.there
      BY DEF NoEvo
    <2>1. /\ ~evo'.there \/ orphaned' = TRUE
          /\ row' = row /\ Making(p)
      BY <1>8, <2>0 DEF Undo, Making, SetEvo
    <2>2. Moves(p, "web", "idle")
      BY <1>0, <1>8, DoneMoves DEF Undo
    <2>3. \A q \in Procs : ~Making(q)'
      BY <1>0, <2>1, <2>2 DEF Making, Moves, LifeInv
    <2>4. \A q \in Procs, u \in Tasks : ~At(q, u, "row_delete")'
      BY <1>0, <2>1, <2>2 DEF Moves, LifeInv
    <2>5. NoOrphan'
      BY <2>1 DEF NoOrphan
    <2>6. \A q \in Procs : At(q, "web", "idle")'
      BY <1>0, <2>1, <2>2 DEF Moves, LifeInv
    <2> QED BY <2>3, <2>4, <2>5, <2>6 DEF LifeInv
  <1>9. ASSUME NEW p \in Procs, NEW t \in Tasks, EvoDelete(p, t) \/ RowDelete(p, t) PROVE LifeInv'
    <2>0. ~NoEvo.there /\ ~NoRow.there /\ [NoRow EXCEPT !.old = TRUE].old = TRUE /\ [NoRow EXCEPT !.old = TRUE].there = FALSE
      BY DEF NoEvo, NoRow
    <2>1. Used /\ \A q \in Procs : ~Making(q)
      <3>1. task[p][t].pc \in {"evo_delete", "row_delete"}
        BY <1>9 DEF EvoDelete, RowDelete
      <3>2. Used
        BY <1>0, <1>3, <3>1 DEF LeaseInv, Used
      <3> QED BY <1>0, <3>2 DEF LifeInv, Used
    <2>2. \E pc \in {"idle", "row_delete"} : Moves(p, t, pc) /\ (pc = "row_delete" => ~evo'.there /\ row' = row)
      BY <1>9, <2>0, GotoMoves, DoneMoves DEF EvoDelete, RowDelete, SetEvo
    <2>3. \A q \in Procs : ~Making(q)'
      BY <1>0, <2>1, <2>2 DEF Making, Moves
    <2>4. /\ Used' /\ NoOrphan'
          /\ ~evo'.there \/ (evo' = evo /\ row' = row /\ orphaned' = orphaned)
      <3>1. CASE EvoDelete(p, t)
        BY <2>0, <2>1, <2>3, <3>1 DEF EvoDelete, SetEvo, Used, NoOrphan, LifeInv, Making
      <3>2. CASE RowDelete(p, t)
        BY <2>0, <2>1, <2>3, <3>2 DEF RowDelete, Used, NoOrphan, LifeInv, Making
      <3> QED BY <1>9, <3>1, <3>2
    <2>5. \A q \in Procs, u \in Tasks : At(q, u, "row_delete")' => ~evo'.there
      BY <2>2, <2>4 DEF Moves, LifeInv
    <2> QED BY <2>3, <2>4, <2>5 DEF LifeInv
  <1>10. ASSUME NEW p \in Procs, Crash(p) PROVE LifeInv'
    <2>1. \A q \in Procs, u \in Tasks : task'[q][u].pc = IF q = p THEN "idle" ELSE task[q][u].pc
      BY <1>10, IdleType DEF Crash, TypeInv
    <2>2. UNCHANGED <<evo, row>> /\ orphaned' = (orphaned \/ Making(p)) /\ Used' = Used
      BY <1>10 DEF Crash, Making, Used
    <2>3. \A q \in Procs : Making(q)' <=> Making(q) /\ q # p
      BY <1>0, <2>1 DEF Making
    <2>4. NoOrphan'
      BY <2>2, <2>3 DEF LifeInv, NoOrphan, Making
    <2> QED BY <1>0, <2>1, <2>2, <2>3, <2>4 DEF LifeInv
  <1>11. ASSUME NEW p \in Procs, Pairing(p) PROVE LifeInv'
    <2>1. orphaned' = orphaned
      BY <1>11 DEF Pairing, PollRead, PollOpen, Extend, Claim, Connect, ConnectFails, Reconnect, Reclaim, Logout, Release
    <2>2. evo'.there = evo.there
      BY <1>0, <1>11 DEF Pairing, PollRead, PollOpen, Extend, Claim, Connect, ConnectFails, Reconnect, Reclaim, Logout, Release,
         SetEvo, Instances
    <2>3. row'.there = row.there /\ row'.old = row.old
      <3>1. row' = row \/ \E a \in BOOLEAN : row' = [row EXCEPT !.hold = a]
        BY <1>0, <1>11 DEF Pairing, PollRead, PollOpen, Extend, Claim, Connect, ConnectFails, Reconnect, Reclaim, Logout, Release, Rows
      <3> QED BY <1>0, <3>1 DEF Rows
    <2>4. row = NoRow => row' = NoRow
      <3>1. ~row.there => row' \in {row, [row EXCEPT !.hold = row.there], [row EXCEPT !.hold = FALSE]}
        BY <1>11 DEF Pairing, PollRead, PollOpen, Extend, Claim, Connect, ConnectFails, Reconnect, Reclaim, Logout, Release
      <3> QED BY <1>0, <1>4, <3>1
    <2>5. CASE PollOpen(p)
      BY <1>2, <2>1, <2>2, <2>3, <2>4, <2>5 DEF PollOpen
    <2>6. CASE PollRead(p) \/ Reconnect(p) \/ Logout(p)
      <3>1. \E pc \in {"extend", "claim", "reclaim", "release"} : Moves(p, "web", pc)
        BY <1>0, <2>6, GotoMoves DEF PollRead, Reconnect, Logout
      <3>2. task[p]["web"].pc = "idle" /\ Used
        BY <2>6 DEF PollRead, Reconnect, Logout, Free, Used
      <3> QED BY <1>0, <1>1, <2>1, <2>2, <2>3, <2>4, <3>1, <3>2
    <2>7. CASE Extend(p) \/ Claim(p) \/ Reclaim(p) \/ Connect(p) \/ ConnectFails(p) \/ Release(p)
      <3>1. \E pc \in {"idle", "connect"} : Moves(p, "web", pc)
        BY <1>0, <2>7, GotoMoves, DoneMoves, ClaimMoves DEF Extend, Claim, Reclaim, Connect, ConnectFails, Release
      <3>2. task[p]["web"].pc \notin {"idle", "insert", "undo"}
        BY <2>7 DEF Extend, Claim, Reclaim, Connect, ConnectFails, Release
      <3> QED BY <1>0, <1>1, <1>3, <2>1, <2>2, <2>3, <2>4, <3>1, <3>2
    <2> QED BY <1>11, <2>5, <2>6, <2>7 DEF Pairing
  <1>12. ASSUME NEW p \in Procs, ReapClaim(p) \/ Evidence(p) PROVE LifeInv'
    <2>1. evo' = evo /\ orphaned' = orphaned
      BY <1>12 DEF ReapClaim, Evidence, SeeLive, SeeOwner, SeeMessages, EvidenceFails, Record
    <2>2. row'.there = row.there /\ row'.old = row.old /\ (row = NoRow => row' = NoRow)
      <3>1. row' = row \/ row' = [row EXCEPT !.paired = row.there] \/ (row.there /\ row' = [row EXCEPT !.lease = TRUE])
        BY <1>12 DEF ReapClaim, Due, Evidence, SeeLive, SeeOwner, SeeMessages, EvidenceFails, Record
      <3> QED BY <1>0, <1>4, <3>1 DEF Rows
    <2>3. \E pc \in Pcs \ {"insert", "undo", "row_delete"} : Moves(p, "reap", pc)
      <3>1. (\E pc \in {"live", "record", "owner", "messages", "evo_delete"} : Goto(p, "reap", pc)) \/ Done(p, "reap")
        BY <1>0, <1>12 DEF ReapClaim, Evidence, SeeLive, SeeOwner, SeeMessages, EvidenceFails, Record, TypeInv, Instances
      <3> QED BY <1>0, <3>1, GotoMoves, DoneMoves
    <2>4. task[p]["reap"].pc \notin {"insert", "undo"}
      BY <1>12 DEF ReapClaim, Free, Evidence, SeeLive, SeeOwner, SeeMessages, EvidenceFails, Record
    <2> QED BY <1>0, <1>1, <2>1, <2>2, <2>3, <2>4
  <1>13. ASSUME NEW p \in Procs, Delete(p) PROVE LifeInv'
    <2>1. Moves(p, "web", "evo_delete") /\ Used /\ task[p]["web"].pc = "idle"
      BY <1>0, <1>13, GotoMoves DEF Delete, Free, Used
    <2> QED BY <1>0, <1>1, <1>13, <2>1 DEF Delete
  <1>14. ASSUME NEW p \in Procs, ReadStatus(p) \/ StorePaired(p) \/ FreshEnds(p) PROVE LifeInv'
    <2>1. task' = task /\ evo' = evo /\ orphaned' = orphaned
      BY <1>14 DEF ReadStatus, StorePaired, FreshEnds
    <2>2. row' = row \/ row' = [row EXCEPT !.paired = row.there]
      BY <1>14 DEF ReadStatus, StorePaired, FreshEnds
    <2>3. row'.there = row.there /\ row'.old = row.old /\ (row = NoRow => row' = NoRow)
      BY <1>0, <1>4, <2>2 DEF Rows
    <2> QED BY <1>2, <2>1, <2>3
  <1>15. ASSUME HoldEnds \/ Ages \/ LeaseEnds PROVE LifeInv'
    <2>1. task' = task /\ evo' = evo /\ orphaned' = orphaned
      BY <1>15 DEF HoldEnds, Ages, LeaseEnds
    <2>2. row'.there = row.there /\ (row.old => row'.old) /\ row # NoRow
      BY <1>0, <1>15 DEF HoldEnds, Ages, LeaseEnds, Rows
    <2> QED BY <1>2, <2>1, <2>2
  <1>16. ASSUME Scan \/ RetryLands \/ History \/ Expires \/ Opens \/ Drops \/ Unlinked PROVE LifeInv'
    <2>1. UNCHANGED <<task, row, orphaned>>
      BY <1>16 DEF Scan, RetryLands, History, Expires, Opens, Drops, Unlinked, Become
    <2>2. evo'.there = evo.there
      BY <1>0, <1>16 DEF Scan, RetryLands, History, Expires, Opens, Drops, Unlinked, Become, SetEvo, Instances
    <2> QED BY <1>2, <2>1, <2>2
  <1>17. CASE UNCHANGED vars
    BY <1>2, <1>17 DEF vars
  <1>18. ASSUME NEW p \in Procs, Provision(p) PROVE LifeInv'
    BY <1>5, <1>6, <1>7, <1>8, <1>18 DEF Provision
  <1>19. ASSUME NEW p \in Procs, Reap(p) PROVE LifeInv'
    BY <1>0, <1>9, <1>12, <1>19 DEF Reap
  <1> HIDE DEF Pcs, At
  <1> QED BY <1>0, <1>9, <1>10, <1>11, <1>13, <1>14, <1>15, <1>16, <1>17, <1>18, <1>19 DEF Next

-----------------------------------------------------------------------------
(* The reaper's lease. *)

\* No task begins to reap, and the lease and the row stay for who does.
LEMMA LeaseStays ==
    ASSUME LeaseInv, row.old => row'.old, row'.there => row.there /\ row'.lease = row.lease,
           \A q \in Procs : At(q, "reap", "idle") => At(q, "reap", "idle")'
    PROVE  LeaseInv'
  BY DEF LeaseInv, ReapedByOne, At

LEMMA LeaseStep == TypeInv /\ LifeInv /\ LeaseInv /\ [Next]_vars => LeaseInv'
PROOF
  <1> SUFFICES ASSUME TypeInv, LifeInv, LeaseInv, [Next]_vars PROVE LeaseInv'
    OBVIOUS
  <1> USE DEF Pcs
  <1>0. row \in Rows /\ "web" \in Tasks /\ "reap" \in Tasks
    BY DEF TypeInv, Tasks
  <1>1. ASSUME task' = task, row'.old = row.old, row'.there = row.there, row'.lease = row.lease PROVE LeaseInv'
    BY <1>1, LeaseStays DEF At
  <1>2. ASSUME NEW p \in Procs, NEW pc, Moves(p, "web", pc), row'.old = row.old, row'.there = row.there, row'.lease = row.lease
        PROVE  LeaseInv'
    BY <1>0, <1>2, LeaseStays DEF At, Moves
  <1>3. ASSUME NEW p \in Procs, NEW pc, Moves(p, "reap", pc), ~At(p, "reap", "idle"), row.old => row'.old,
               row'.there => row.there /\ row'.lease = row.lease
        PROVE  LeaseInv'
    BY <1>0, <1>3, LeaseStays DEF At, Moves
  <1>4. ASSUME NEW p \in Procs, Provision(p) PROVE LeaseInv'
    <2>1. \E pc : Moves(p, "web", pc)
      BY <1>0, <1>4, GotoMoves, DoneMoves DEF Provision, Create, Insert, InsertFails, Undo
    <2>2. CASE row' = row
      BY <1>2, <2>1, <2>2
    <2>3. CASE Insert(p)
      <3>1. ~row.old
        BY <2>3 DEF Insert, LifeInv, Making, NoRow
      <3>2. \A q \in Procs : At(q, "reap", "idle") /\ At(q, "reap", "idle")'
        BY <1>0, <2>1, <3>1 DEF LeaseInv, At, Moves
      <3> QED BY <3>2 DEF LeaseInv, ReapedByOne, At
    <2> QED BY <1>4, <2>2, <2>3 DEF Provision, Create, InsertFails, Undo
  <1>5. ASSUME NEW p \in Procs, Pairing(p) \/ Delete(p) PROVE LeaseInv'
    <2>1. row'.old = row.old /\ row'.there = row.there /\ row'.lease = row.lease
      <3>1. row' = row \/ \E a : row' = [row EXCEPT !.hold = a]
        BY <1>5 DEF Pairing, PollRead, PollOpen, Extend, Claim, Connect, ConnectFails, Reconnect, Reclaim, Logout, Release, Delete
      <3> QED BY <1>0, <3>1 DEF Rows
    <2>2. task' = task \/ \E pc : Moves(p, "web", pc)
      <3>1. CASE PollRead(p) \/ PollOpen(p) \/ Extend(p) \/ Reconnect(p) \/ Logout(p) \/ Delete(p)
        BY <1>0, <3>1, GotoMoves DEF PollRead, PollOpen, Extend, Reconnect, Logout, Delete
      <3>2. CASE Claim(p) \/ Connect(p) \/ ConnectFails(p) \/ Reclaim(p) \/ Release(p)
        BY <1>0, <3>2, ClaimMoves, DoneMoves DEF Claim, Connect, ConnectFails, Reclaim, Release
      <3> QED BY <1>5, <3>1, <3>2 DEF Pairing
    <2> QED BY <1>1, <1>2, <2>1, <2>2
  <1>6. ASSUME NEW p \in Procs, NEW t \in Tasks, EvoDelete(p, t) \/ RowDelete(p, t) PROVE LeaseInv'
    <2>0. [NoRow EXCEPT !.old = TRUE].old = TRUE /\ [NoRow EXCEPT !.old = TRUE].there = FALSE
      BY DEF NoRow
    <2>1. (row.old => row'.old) /\ (row'.there => row.there /\ row'.lease = row.lease)
      BY <1>6, <2>0 DEF EvoDelete, RowDelete
    <2>2. ~At(p, t, "idle") /\ \E pc : Moves(p, t, pc)
      BY <1>6, GotoMoves, DoneMoves DEF EvoDelete, RowDelete, At
    <2> QED BY <1>0, <2>1, <2>2, LeaseStays DEF At, Moves
  <1>7. ASSUME NEW p \in Procs, ReapClaim(p) PROVE LeaseInv'
    <2>1. row.there /\ row.old /\ ~row.lease /\ row'.old /\ row'.lease
      BY <1>0, <1>7 DEF ReapClaim, Due, Rows
    <2>2. \A q \in Procs : At(q, "reap", "idle")
      BY <2>1 DEF LeaseInv
    <2>3. Moves(p, "reap", "live")
      BY <1>0, <1>7, GotoMoves DEF ReapClaim
    <2> QED BY <1>0, <2>1, <2>2, <2>3 DEF LeaseInv, ReapedByOne, At, Moves
  <1>8. ASSUME NEW p \in Procs, Evidence(p) PROVE LeaseInv'
    <2>1. row'.old = row.old /\ row'.there = row.there /\ row'.lease = row.lease
      BY <1>0, <1>8 DEF Evidence, SeeLive, SeeOwner, SeeMessages, EvidenceFails, Record, Rows
    <2>2. \E pc : Moves(p, "reap", pc)
      <3>1. (\E pc \in {"live", "record", "owner", "messages", "evo_delete"} : Goto(p, "reap", pc)) \/ Done(p, "reap")
        BY <1>0, <1>8 DEF Evidence, SeeLive, SeeOwner, SeeMessages, EvidenceFails, Record, TypeInv, Instances
      <3> QED BY <1>0, <3>1, GotoMoves, DoneMoves
    <2>3. ~At(p, "reap", "idle")
      BY <1>8 DEF Evidence, SeeLive, SeeOwner, SeeMessages, EvidenceFails, Record, At
    <2> QED BY <1>3, <2>1, <2>2, <2>3
  <1>9. ASSUME NEW p \in Procs, ReadStatus(p) \/ StorePaired(p) \/ FreshEnds(p) PROVE LeaseInv'
    <2>1. task' = task /\ (row' = row \/ row' = [row EXCEPT !.paired = row.there])
      BY <1>9 DEF ReadStatus, StorePaired, FreshEnds
    <2> QED BY <1>0, <1>1, <2>1 DEF Rows
  <1>10. ASSUME NEW p \in Procs, Crash(p) PROVE LeaseInv'
    <2>1. row' = row /\ \A q \in Procs : task'[q]["reap"].pc = "idle" \/ task'[q] = task[q]
      BY <1>0, <1>10, IdleType DEF Crash, TypeInv
    <2> QED BY <2>1, LeaseStays DEF At
  <1>11. CASE HoldEnds \/ Ages
    BY <1>0, <1>11, LeaseStays DEF HoldEnds, Ages, Rows, At
  <1>12. CASE LeaseEnds
    BY <1>12 DEF LeaseEnds, LeaseInv, ReapedByOne, At
  <1>13. CASE Scan \/ RetryLands \/ History \/ Expires \/ Opens \/ Drops \/ Unlinked \/ UNCHANGED vars
    BY <1>1, <1>13 DEF Scan, RetryLands, History, Expires, Opens, Drops, Unlinked, Become, vars
  <1> QED BY <1>0, <1>4, <1>5, <1>6, <1>7, <1>8, <1>9, <1>10, <1>11, <1>12, <1>13 DEF Next, Reap

-----------------------------------------------------------------------------
(* The connect hold. *)

\* Evolution does not begin to reconnect, the hold is not let go, and nobody claims.
LEMMA HoldStays ==
    ASSUME HoldInv, evo'.live = "retry" => evo.live = "retry" /\ (row.hold => row'.hold),
           \A p \in Procs : task'[p]["web"].claimed => task[p]["web"].claimed
    PROVE  HoldInv'
  BY DEF HoldInv, OneSocket, ClaimUnderWay

LEMMA HoldStep == Alone /\ TypeInv /\ LifeInv /\ HoldInv /\ [Next]_vars => HoldInv'
PROOF
  <1> SUFFICES ASSUME Alone, TypeInv, LifeInv, HoldInv, [Next]_vars PROVE HoldInv'
    OBVIOUS
  <1> USE DEF Pcs
  <1>0. /\ row \in Rows /\ evo \in Instances /\ "web" \in Tasks /\ "reap" \in Tasks
        /\ NoEvo.live = "close" /\ (evo.live # "close" => evo.there) /\ (row.hold => row.there)
    BY DEF TypeInv, TypeOK, NoEvo, Tasks
  <1>1. ASSUME NEW p \in Procs, NEW t \in Tasks, (\E pc \in Pcs : Goto(p, t, pc)) \/ Done(p, t),
               evo'.live = "retry" => evo.live = "retry" /\ (row.hold => row'.hold)
        PROVE  HoldInv'
    BY <1>0, <1>1, GotoMoves, DoneMoves, HoldStays
  <1>2. ASSUME task' = task, evo'.live = "retry" => evo.live = "retry" /\ (row.hold => row'.hold)
        PROVE  HoldInv'
    BY <1>2, HoldStays
  <1>3. ASSUME NEW p \in Procs, Provision(p) PROVE HoldInv'
    <2>1. evo'.live = "retry" => evo.live = "retry" /\ (row.hold => row'.hold)
      BY <1>0, <1>3 DEF Provision, Create, Insert, InsertFails, Undo, SetEvo, NoEvo, LifeInv, Making, NoRow, HoldInv
    <2> QED BY <1>0, <1>1, <1>3, <2>1 DEF Provision, Create, Insert, InsertFails, Undo
  <1>4. ASSUME NEW p \in Procs, Claim(p) \/ Reclaim(p) PROVE HoldInv'
    <2>1. CASE row.there /\ ~row.hold
      <3>1. evo' = evo /\ evo.live # "retry"
        BY <1>4, <2>1 DEF Claim, Reclaim, HoldInv
      <3> QED BY <3>1 DEF HoldInv, OneSocket
    <2>2. CASE ~(row.there /\ ~row.hold)
      BY <1>0, <1>1, <1>4, <2>2 DEF Claim, Reclaim
    <2> QED BY <2>1, <2>2
  <1>5. ASSUME NEW p \in Procs, PollRead(p) \/ PollOpen(p) \/ Extend(p) \/ Reconnect(p) \/ Delete(p) PROVE HoldInv'
    <2>1. evo' = evo /\ (row.hold => row'.hold)
      <3>1. CASE PollOpen(p)
        <4>1. fresh[p] \in BOOLEAN /\ row.hold \in BOOLEAN
          BY <1>0 DEF TypeInv, Rows
        <4>2. row'.hold = (row.hold \/ ~fresh[p])
          BY <1>0, <3>1 DEF PollOpen, Rows
        <4> QED BY <3>1, <4>1, <4>2 DEF PollOpen
      <3> QED BY <1>0, <1>5, <3>1 DEF PollRead, Extend, Reconnect, Delete, Rows
    <2> QED BY <1>0, <1>1, <1>2, <1>5, <2>1 DEF PollRead, PollOpen, Extend, Reconnect, Delete
  <1>6. ASSUME NEW p \in Procs, Connect(p) \/ ConnectFails(p) PROVE HoldInv'
    <2>1. evo'.live = "retry" => evo.live = "retry" /\ row' = row
      BY <1>0, <1>6 DEF Connect, ConnectFails, SetEvo, Instances
    <2> QED BY <1>0, <1>1, <1>6, <2>1 DEF Connect, ConnectFails
  <1>7. ASSUME NEW p \in Procs, Logout(p) \/ Release(p) PROVE HoldInv'
    <2>1. evo'.live # "retry"
      BY <1>0, <1>7 DEF Logout, Release, SetEvo, Instances
    <2> QED BY <1>0, <1>1, <1>7, <2>1 DEF Logout, Release
  <1>8. ASSUME NEW p \in Procs, NEW t \in Tasks, EvoDelete(p, t) \/ RowDelete(p, t) PROVE HoldInv'
    <2>1. evo'.live = "retry" => evo.live = "retry" /\ (row.hold => row'.hold)
      <3>1. CASE EvoDelete(p, t)
        BY <1>0, <3>1 DEF EvoDelete, SetEvo
      <3>2. CASE RowDelete(p, t)
        BY <1>0, <3>2 DEF RowDelete, LifeInv
      <3> QED BY <1>8, <3>1, <3>2
    <2> QED BY <1>0, <1>1, <1>8, <2>1 DEF EvoDelete, RowDelete
  <1>9. ASSUME NEW p \in Procs, ReapClaim(p) \/ Evidence(p) PROVE HoldInv'
    <2>1. evo' = evo /\ row'.hold = row.hold
      BY <1>0, <1>9 DEF ReapClaim, Evidence, SeeLive, SeeOwner, SeeMessages, EvidenceFails, Record, Rows
    <2>2. (\E pc \in Pcs : Goto(p, "reap", pc)) \/ Done(p, "reap")
      BY <1>0, <1>9 DEF ReapClaim, Evidence, SeeLive, SeeOwner, SeeMessages, EvidenceFails, Record, TypeInv, Instances
    <2> QED BY <1>0, <1>1, <2>1, <2>2
  <1>10. ASSUME NEW p \in Procs, ReadStatus(p) \/ StorePaired(p) \/ FreshEnds(p) PROVE HoldInv'
    <2>1. task' = task /\ evo' = evo /\ (row' = row \/ row' = [row EXCEPT !.paired = row.there])
      BY <1>10 DEF ReadStatus, StorePaired, FreshEnds
    <2> QED BY <1>0, <1>2, <2>1 DEF Rows
  <1>11. ASSUME NEW p \in Procs, Crash(p) PROVE HoldInv'
    <2>1. UNCHANGED <<evo, row>> /\ \A q \in Procs : ~task'[q]["web"].claimed \/ task'[q] = task[q]
      BY <1>0, <1>11, IdleType DEF Crash, TypeInv
    <2> QED BY <2>1, HoldStays
  <1>12. CASE HoldEnds \/ Ages \/ LeaseEnds
    BY <1>0, <1>2, <1>12 DEF HoldEnds, Ages, LeaseEnds, Rows
  <1>13. CASE Scan
    BY <1>13 DEF Scan, HoldInv, OneSocket, ClaimUnderWay
  <1>14. CASE RetryLands \/ History \/ Expires \/ Opens \/ Drops \/ Unlinked
    <2>1. UNCHANGED <<task, row>> /\ evo'.live # "retry"
      BY <1>0, <1>14 DEF RetryLands, History, Expires, Opens, Drops, Unlinked, Become, SetEvo, Instances, Lives
    <2> QED BY <1>2, <2>1
  <1>15. CASE UNCHANGED vars
    BY <1>2, <1>15 DEF vars
  <1> QED BY <1>0, <1>3, <1>4, <1>5, <1>6, <1>7, <1>8, <1>9, <1>10, <1>11, <1>12, <1>13, <1>14, <1>15 DEF Next, Pairing, Reap

-----------------------------------------------------------------------------
(* What the reaper sees. *)

Deleting == {"evo_delete", "row_delete"}

\* The instance stays, or becomes one that is linked where it was; nobody gets further
\* in what the reaper reads.
LEMMA WatchStays ==
    ASSUME TypeInv, WatchInv, UNCHANGED given, UNCHANGED <<evo, watch>> \/ SetEvo(evo'),
           evo.there /\ evo'.there /\ evo.history => evo'.history,
           \A q \in Procs : task'[q]["reap"].pc = task[q]["reap"].pc \/ task'[q]["reap"].pc \notin {"messages"} \union Deleting
    PROVE  WatchInv'
PROOF
  <1>1. readable' = readable /\ \A q \in Procs : watch'[q] => watch[q] /\ Linked'
    BY DEF given, SetEvo, WatchInv, Linked, LinkedOf, TypeInv
  <1>2. PairedIsKept'
    BY <1>1 DEF PairedIsKept, WatchInv, At, Deleting
  <1>3. \A q \in Procs : At(q, "reap", "messages")' /\ watch'[q] => evo'.history
    BY <1>1 DEF WatchInv, At, Linked, LinkedOf
  <1> QED BY <1>1, <1>2, <1>3 DEF WatchInv

LEMMA WatchStep == TypeInv /\ WatchInv /\ [Next]_vars => WatchInv'
PROOF
  <1> SUFFICES ASSUME TypeInv, WatchInv, [Next]_vars PROVE WatchInv'
    OBVIOUS
  <1> USE DEF Pcs
  <1>0. /\ evo \in Instances /\ "web" \in Tasks /\ "reap" \in Tasks /\ watch \in [Procs -> BOOLEAN]
        /\ NoEvo.there = FALSE /\ (evo.live = "open" => evo.owner)
        /\ task \in [Procs -> [Tasks -> Steps]]
    BY DEF TypeInv, NoEvo, Tasks
  <1>1. ASSUME UNCHANGED given, UNCHANGED <<evo, watch>> \/ SetEvo(evo'), evo.there /\ evo'.there /\ evo.history => evo'.history,
               task' = task \/ (\E p \in Procs : (\E pc \in Pcs : Goto(p, "web", pc)) \/ Done(p, "web"))
        PROVE  WatchInv'
    <2>1. \A q \in Procs : task'[q]["reap"].pc = task[q]["reap"].pc
      <3>1. ASSUME NEW p \in Procs, NEW pc \in Pcs, Moves(p, "web", pc), NEW q \in Procs PROVE task'[q]["reap"].pc = task[q]["reap"].pc
        BY <1>0, <3>1 DEF Moves
      <3> QED BY <1>0, <1>1, <3>1, GotoMoves, DoneMoves
    <2> QED BY <1>1, <2>1, WatchStays
  <1>2. ASSUME NEW p \in Procs, Provision(p) \/ Pairing(p) \/ Delete(p) \/ EvoDelete(p, "web") \/ RowDelete(p, "web") PROVE WatchInv'
    <2>1. CASE Provision(p)
      <3>1. \/ UNCHANGED <<evo, watch>> \/ (SetEvo(evo') /\ ~evo.there) \/ (SetEvo(evo') /\ ~evo'.there)
        BY <1>0, <2>1 DEF Provision, Create, Insert, InsertFails, Undo, SetEvo
      <3> QED BY <1>1, <2>1, <3>1 DEF Provision, Create, Insert, InsertFails, Undo
    <2>2. CASE Connect(p) \/ Logout(p)
      <3>1. SetEvo(evo') /\ evo'.history = evo.history
        BY <1>0, <2>2 DEF Connect, Logout, SetEvo, Instances
      <3> QED BY <1>1, <2>2, <3>1 DEF Connect, Logout
    <2>3. CASE EvoDelete(p, "web")
      <3>1. UNCHANGED <<evo, watch>> \/ (SetEvo(evo') /\ ~evo'.there)
        BY <1>0, <2>3 DEF EvoDelete, SetEvo
      <3> QED BY <1>1, <2>3, <3>1 DEF EvoDelete
    <2>4. CASE PollRead(p) \/ PollOpen(p) \/ Extend(p) \/ ConnectFails(p) \/ Reconnect(p) \/ Release(p) \/ Delete(p) \/ RowDelete(p, "web")
      BY <1>1, <2>4 DEF PollRead, PollOpen, Extend, ConnectFails, Reconnect, Release, Delete, RowDelete
    <2>5. CASE Claim(p) \/ Reclaim(p)
      <3>1. UNCHANGED <<evo, watch, given>>
        BY <2>5 DEF Claim, Reclaim
      <3>2. Moves(p, "web", "connect") \/ Moves(p, "web", "idle")
        BY <1>0, <2>5, ClaimMoves, DoneMoves DEF Claim, Reclaim
      <3> QED BY <1>0, <3>1, <3>2, WatchStays DEF Moves
    <2> QED BY <1>2, <2>1, <2>2, <2>3, <2>4, <2>5 DEF Pairing
  <1>3. ASSUME NEW p \in Procs, NEW pc \in Pcs, Moves(p, "reap", pc), UNCHANGED given, UNCHANGED <<evo, watch>> \/ SetEvo(evo'),
               pc = "messages" => (watch[p] => evo.history), pc \in Deleting => ~watch[p], evo' = evo \/ ~evo'.there
        PROVE  WatchInv'
    <2>1. readable' = readable /\ \A q \in Procs : watch'[q] => watch[q] /\ Linked' /\ evo'.there
      BY <1>0, <1>3 DEF given, SetEvo, WatchInv, Linked, LinkedOf
    <2>2. PairedIsKept'
      BY <1>0, <1>3, <2>1 DEF PairedIsKept, WatchInv, At, Deleting, Moves
    <2>3. \A q \in Procs : At(q, "reap", "messages")' /\ watch'[q] => evo'.history
      BY <1>0, <1>3, <2>1 DEF WatchInv, At, Moves
    <2> QED BY <2>1, <2>2, <2>3 DEF WatchInv
  <1>4. ASSUME NEW p \in Procs, ReapClaim(p) PROVE WatchInv'
    <2>1. Moves(p, "reap", "live") /\ UNCHANGED <<evo, given>>
      BY <1>0, <1>4, GotoMoves DEF ReapClaim
    <2>2. \A q \in Procs : watch'[q] = IF q = p THEN Linked ELSE watch[q]
      BY <1>0, <1>4 DEF ReapClaim
    <2>3. Linked' = Linked
      BY <2>1 DEF Linked, given
    <2> QED BY <1>0, <2>1, <2>2, <2>3 DEF WatchInv, PairedIsKept, At, Moves
  <1>5. ASSUME NEW p \in Procs, Evidence(p) PROVE WatchInv'
    <2>0. UNCHANGED <<evo, watch, given>>
      BY <1>5 DEF Evidence, SeeLive, SeeOwner, SeeMessages, EvidenceFails, Record
    <2>1. CASE SeeLive(p) \/ EvidenceFails(p) \/ Record(p)
      <3>1. \E pc \in {"idle", "record", "owner"} : Moves(p, "reap", pc)
        BY <1>0, <2>1, GotoMoves, DoneMoves DEF SeeLive, EvidenceFails, Record
      <3> QED BY <1>3, <2>0, <3>1 DEF Deleting
    <2>2. CASE SeeOwner(p)
      <3>1. watch[p] /\ ~evo.owner => readable /\ evo.history
        BY <1>0 DEF WatchInv, Linked, LinkedOf
      <3>2. CASE evo.owner
        BY <1>0, <1>3, <2>0, <2>2, <3>2, GotoMoves DEF SeeOwner, Deleting
      <3>3. CASE ~evo.owner /\ readable
        BY <1>0, <1>3, <2>0, <2>2, <3>1, <3>3, GotoMoves DEF SeeOwner, Deleting
      <3>4. CASE ~evo.owner /\ ~readable
        BY <1>0, <1>3, <2>0, <2>2, <3>1, <3>4, GotoMoves DEF SeeOwner, Deleting
      <3> QED BY <3>2, <3>3, <3>4
    <2>3. CASE SeeMessages(p)
      <3>1. watch[p] => evo.history
        BY <2>3 DEF WatchInv, SeeMessages
      <3> QED BY <1>0, <1>3, <2>0, <2>3, <3>1, GotoMoves DEF SeeMessages, Deleting
    <2> QED BY <1>5, <2>1, <2>2, <2>3 DEF Evidence
  <1>6. ASSUME NEW p \in Procs, EvoDelete(p, "reap") \/ RowDelete(p, "reap") PROVE WatchInv'
    <2>1. ~watch[p]
      BY <1>6 DEF EvoDelete, RowDelete, WatchInv, PairedIsKept
    <2>2. \E pc \in {"idle", "row_delete"} : Moves(p, "reap", pc)
      BY <1>0, <1>6, GotoMoves, DoneMoves DEF EvoDelete, RowDelete
    <2>3. UNCHANGED given /\ (UNCHANGED <<evo, watch>> \/ SetEvo(evo')) /\ (evo' = evo \/ ~evo'.there)
      BY <1>0, <1>6 DEF EvoDelete, RowDelete, SetEvo
    <2> QED BY <1>3, <2>1, <2>2, <2>3
  <1>7. ASSUME NEW p \in Procs, ReadStatus(p) \/ StorePaired(p) \/ FreshEnds(p) PROVE WatchInv'
    BY <1>1, <1>7 DEF ReadStatus, StorePaired, FreshEnds
  <1>8. ASSUME NEW p \in Procs, Crash(p) PROVE WatchInv'
    <2>1. UNCHANGED <<evo, given>> /\ \A q \in Procs : watch'[q] => watch[q] /\ task'[q] = task[q]
      BY <1>0, <1>8 DEF Crash
    <2> QED BY <2>1 DEF WatchInv, PairedIsKept, At, Linked, given
  <1>9. CASE HoldEnds \/ Ages \/ LeaseEnds
    BY <1>1, <1>9 DEF HoldEnds, Ages, LeaseEnds
  <1>10. CASE Scan \/ RetryLands \/ History \/ Expires \/ Opens \/ Drops \/ Unlinked
    <2>1. SetEvo(evo') /\ UNCHANGED <<task, given>>
      BY <1>10 DEF Scan, RetryLands, History, Expires, Opens, Drops, Unlinked, Become, SetEvo
    <2>2. evo.history => evo'.history
      BY <1>0, <1>10 DEF Scan, RetryLands, History, Expires, Opens, Drops, Unlinked, Become, SetEvo, Instances
    <2> QED BY <1>1, <2>1, <2>2
  <1>11. CASE UNCHANGED vars
    BY <1>1, <1>11 DEF vars, given
  <1> QED BY <1>2, <1>4, <1>5, <1>6, <1>7, <1>8, <1>9, <1>10, <1>11 DEF Next, Reap

-----------------------------------------------------------------------------
(* The theorems. *)

LEMMA InvInit == Init => TypeInv /\ LifeInv /\ HoldInv /\ LeaseInv /\ WatchInv
PROOF
  <1> SUFFICES ASSUME Init PROVE TypeInv /\ LifeInv /\ HoldInv /\ LeaseInv /\ WatchInv
    OBVIOUS
  <1>1. "web" \in Tasks /\ "reap" \in Tasks /\ ~NoEvo.there /\ NoEvo.live = "close" /\ \A p \in Procs, t \in Tasks : task[p][t] = Idle
    BY DEF Init, Tasks, NoEvo
  <1>2. LifeInv
    BY <1>1, IdleType DEF Init, LifeInv, NoOrphan, Making, At
  <1>3. HoldInv
    BY <1>1, IdleType DEF Init, HoldInv, OneSocket, ClaimUnderWay
  <1>4. LeaseInv
    BY <1>1, IdleType DEF Init, LeaseInv, ReapedByOne, At
  <1>5. WatchInv
    BY <1>1, IdleType DEF Init, WatchInv, PairedIsKept, At
  <1> QED BY <1>2, <1>3, <1>4, <1>5, TypeInit

\* What holds of every run, whenever a logout comes.
LEMMA Invariants == Spec => [](TypeInv /\ LifeInv /\ LeaseInv /\ WatchInv)
PROOF
  <1>1. TypeInv /\ LifeInv /\ LeaseInv /\ WatchInv /\ [Next]_vars => (TypeInv /\ LifeInv /\ LeaseInv /\ WatchInv)'
    BY TypeStep, LifeStep, LeaseStep, WatchStep
  <1> QED BY <1>1, InvInit, PTL DEF Spec

\* The row and the instance are of their types: what is gone has no state left
\* (instances.ts, app.instances).
THEOREM TypeCorrect == Spec => []TypeOK
PROOF
  <1>1. TypeInv => TypeOK
    BY DEF TypeInv
  <1> QED BY <1>1, Invariants, PTL

\* The reaper never goes on to delete a connection whose account was linked when it claimed
\* it and still is, whatever it reads and whatever fails, and of any number of replicas one
\* reaps (unpaired-reaper.ts).
THEOREM ReapingIsRight == Spec => []ReapsRightly
PROOF
  <1>1. LeaseInv /\ WatchInv => ReapsRightly
    BY DEF LeaseInv, WatchInv, ReapsRightly
  <1> QED BY <1>1, Invariants, PTL

\* Without a logout that meets Evolution's own reconnect, no claimed connect does either,
\* and an instance is without its row only where a provisioning was not undone
\* (claimConnect(), deleteInstance(), provisionWhatsappInstance(), instances.ts).
THEOREM EvolutionAgreement ==
    ASSUME Alone
    PROVE  Spec => []EvolutionAgrees
PROOF
  <1>1. TypeInv /\ LifeInv /\ LeaseInv /\ WatchInv /\ HoldInv /\ [Next]_vars => HoldInv'
    BY HoldStep
  <1>2. LifeInv /\ HoldInv => EvolutionAgrees
    BY DEF LifeInv, HoldInv, EvolutionAgrees
  <1> QED BY <1>1, <1>2, InvInit, Invariants, PTL DEF Spec

\* No instance is left without its row, with or without such a logout.
THEOREM NothingOrphaned == Spec => []NoOrphan
PROOF
  <1>1. LifeInv => NoOrphan
    BY DEF LifeInv
  <1> QED BY <1>1, Invariants, PTL

-----------------------------------------------------------------------------
(* Alerts: the invariants. *)

EvalPcs ==
    {"idle", "read", "operator", "loop_mail", "ended_mail", "decide", "outage", "recovery", "alerted", "clear"}
Evals == [pc : EvalPcs, row : A!Rows, health : A!Healths, loop : Nat]

AlertTypes ==
    /\ world \in AlertWorlds /\ health \in world.healths /\ alertRow \in A!Rows
    /\ loop \in Nat /\ told \subseteq 0 .. loop /\ last \in {"none", "outage", "recovery"}
    /\ loaded \in [Procs -> SUBSET A!Rows] /\ eval \in [Procs -> Evals]
    /\ alertSpent \in [changes : Nat, faults : Nat, crashes : Nat]

\* Who does not run does nothing, loops are numbered as they end, and where the sweep holds
\* no rows none is loaded.
RunningInv ==
    /\ \A p \in Procs : p \notin world.procs => eval[p].pc = "idle"
    /\ \A p \in Procs : eval[p].loop \in 0 .. loop
    /\ ~world.stale => \A p \in Procs : loaded[p] = {}

\* Until an evaluation mails, the row it was handed says as much of alerts as the row there
\* is, and that says what was mailed last; between the mail and the write after it the row is
\* behind by that mail.
Turn(e) ==
    /\ e.pc \notin {"idle", "alerted", "clear"} => e.row.alerted = alertRow.alerted
    /\ e.pc = "outage" => ~alertRow.alerted
    /\ e.pc = "recovery" => alertRow.alerted
    /\ e.pc \notin {"alerted", "clear"} => (last = "outage" <=> alertRow.alerted)
    /\ e.pc = "alerted" => last = "outage" /\ ~alertRow.alerted
    /\ e.pc = "clear" => last = "recovery" /\ alertRow.alerted
TurnInv == ~world.stale => \A p \in Procs : world.procs = {p} => Turn(eval[p])

\* A claim on the row is of the loop that goes on; whoever mails of a loop has claimed it
\* alone, and nobody was told of it.
LoopInv ==
    alertSpent.faults = 0 =>
        /\ \A p \in Procs : A!At(p, "loop_mail") =>
            /\ eval[p].loop \in 0 .. loop /\ eval[p].loop \notin told
            /\ eval[p].loop = loop => alertRow.ops
            /\ \A q \in Procs \ {p} : ~(A!At(q, "loop_mail") /\ eval[q].loop = eval[p].loop)
        /\ ~alertRow.ops => loop \notin told

AlertInv == AlertTypes /\ RunningInv /\ TurnInv /\ LoopInv

LEMMA AlertStart == A!Init => AlertInv
PROOF
  <1> SUFFICES ASSUME A!Init PROVE AlertInv
    OBVIOUS
  <1>1. /\ A!NoRow \in A!Rows /\ ~A!NoRow.alerted /\ A!Idle \in Evals /\ A!Idle.pc = "idle" /\ A!Idle.loop = 0
    BY DEF A!NoRow, A!Rows, A!Idle, Evals, EvalPcs, A!Healths
  <1>2. AlertTypes
    BY <1>1, AlertsAssumed DEF A!Init, AlertTypes, A!Assumption
  <1>3. RunningInv
    BY <1>1 DEF A!Init, RunningInv
  <1>4. TurnInv
    BY <1>1 DEF A!Init, TurnInv, Turn
  <1>5. LoopInv
    BY <1>1 DEF A!Init, LoopInv, A!At
  <1> QED BY <1>2, <1>3, <1>4, <1>5 DEF AlertInv

-----------------------------------------------------------------------------
(* Alerts: how an evaluation goes on. *)

\* Process p alone has moved: to pc, about the same row, state and loop.
Onward(p, pc) ==
    /\ eval' \in [Procs -> Evals]
    /\ eval'[p].pc = pc /\ eval'[p].row = eval[p].row /\ eval'[p].health = eval[p].health /\ eval'[p].loop = eval[p].loop
    /\ \A q \in Procs \ {p} : eval'[q] = eval[q]

LEMMA GoesOn == ASSUME AlertTypes, NEW p \in Procs, NEW pc \in EvalPcs, A!Goto(p, pc) PROVE Onward(p, pc)
PROOF
  <1>1. eval[p] \in Evals
    BY DEF AlertTypes
  <1>2. PICK e : e = [eval[p] EXCEPT !.pc = pc]
    OBVIOUS
  <1>3. e \in Evals /\ e.pc = pc /\ e.row = eval[p].row /\ e.health = eval[p].health /\ e.loop = eval[p].loop
    BY <1>1, <1>2 DEF Evals
  <1>4. eval' = [eval EXCEPT ![p] = e]
    BY <1>2 DEF A!Goto
  <1> QED BY <1>3, <1>4 DEF Onward, AlertTypes

Ended(p) ==
    /\ eval' \in [Procs -> Evals] /\ eval'[p].pc = "idle" /\ eval'[p].loop = 0
    /\ \A q \in Procs \ {p} : eval'[q] = eval[q]

LEMMA ComesToEnd == ASSUME AlertTypes, NEW p \in Procs, A!Finish(p) PROVE Ended(p)
PROOF
  <1>1. A!Idle \in Evals /\ A!Idle.pc = "idle" /\ A!Idle.loop = 0
    BY DEF A!NoRow, A!Rows, A!Idle, Evals, EvalPcs, A!Healths
  <1> QED BY <1>1 DEF A!Finish, Ended, AlertTypes

\* What a mail that was not sent leaves.
LEMMA FailureCounts ==
    ASSUME AlertTypes, A!Fails
    PROVE  alertSpent' \in [changes : Nat, faults : Nat, crashes : Nat] /\ alertSpent'.faults # 0
PROOF
  <1>1. PICK n \in Nat : n = alertSpent.faults + 1
    BY DEF AlertTypes
  <1>2. alertSpent' = [alertSpent EXCEPT !.faults = n] /\ n # 0
    BY <1>1 DEF A!Fails, AlertTypes
  <1> QED BY <1>1, <1>2 DEF AlertTypes

\* Whoever has moved runs; of a process alone it is the only one.
LEMMA OnlyOne ==
    ASSUME AlertTypes, RunningInv, NEW p \in Procs, eval[p].pc # "idle", NEW q \in Procs, world.procs = {q}
    PROVE  q = p
PROOF
  BY DEF RunningInv

\* The four invariants of a step of p that changes nothing of the world, given what it does
\* to the mails of its process and to the loops.
LEMMA AlertStays ==
    ASSUME AlertInv, NEW p \in Procs, p \in world.procs, UNCHANGED <<world, health>>,
           alertRow' \in A!Rows, loop' \in Nat, told' \subseteq 0 .. loop', last' \in {"none", "outage", "recovery"},
           loaded' \in [Procs -> SUBSET A!Rows], ~world.stale => loaded' = loaded,
           eval' \in [Procs -> Evals], \A q \in Procs \ {p} : eval'[q] = eval[q],
           loop' >= loop, eval'[p].loop \in 0 .. loop',
           alertSpent' \in [changes : Nat, faults : Nat, crashes : Nat],
           ~world.stale /\ world.procs = {p} => Turn(eval[p])', LoopInv'
    PROVE  AlertInv'
PROOF
  <1>1. AlertTypes'
    BY DEF AlertInv, AlertTypes
  <1>2. RunningInv'
    <2>1. \A q \in Procs : eval'[q].loop \in 0 .. loop'
      BY DEF AlertInv, AlertTypes, RunningInv
    <2> QED BY <2>1 DEF AlertInv, AlertTypes, RunningInv
  <1>3. TurnInv'
    <2> SUFFICES ASSUME ~world.stale, NEW q \in Procs, world.procs = {q} PROVE Turn(eval[q])'
      BY DEF TurnInv
    <2>1. q = p
      OBVIOUS
    <2> QED BY <2>1
  <1> QED BY <1>1, <1>2, <1>3 DEF AlertInv

\* The loops stay as they were, when nobody begins to mail of one.
LEMMA LoopStays ==
    ASSUME AlertInv, NEW p \in Procs, UNCHANGED <<loop, told>>, alertRow'.ops = alertRow.ops,
           alertSpent' \in [changes : Nat, faults : Nat, crashes : Nat], alertSpent'.faults = 0 => alertSpent.faults = 0,
           eval'[p].pc # "loop_mail" \/ eval'[p] = eval[p], \A q \in Procs \ {p} : eval'[q] = eval[q]
    PROVE  LoopInv'
PROOF
  <1> SUFFICES ASSUME alertSpent'.faults = 0 PROVE LoopInv'
    BY DEF LoopInv
  <1>1. \A q \in Procs : eval'[q].pc = "loop_mail" => eval'[q] = eval[q]
    OBVIOUS
  <1> QED BY <1>1 DEF LoopInv, AlertInv, A!At

-----------------------------------------------------------------------------
(* Alerts: each step keeps them. *)

LEMMA RowParts ==
    ASSUME NEW q \in A!Rows, NEW down \in {"no", "new", "old"}, NEW b \in BOOLEAN
    PROVE  /\ [q EXCEPT !.down = down] \in A!Rows
           /\ [q EXCEPT !.down = down].alerted = q.alerted /\ [q EXCEPT !.down = down].ops = q.ops
           /\ [q EXCEPT !.alerted = b] \in A!Rows
           /\ [q EXCEPT !.alerted = b].alerted = b /\ [q EXCEPT !.alerted = b].ops = q.ops
           /\ [q EXCEPT !.ops = b] \in A!Rows
           /\ [q EXCEPT !.ops = b].alerted = q.alerted /\ [q EXCEPT !.ops = b].ops = b
           /\ [q EXCEPT !.down = down, !.alerted = b] \in A!Rows
           /\ [q EXCEPT !.down = down, !.alerted = b].alerted = b
           /\ [q EXCEPT !.down = down, !.alerted = b].ops = q.ops
PROOF
  BY DEF A!Rows

LEMMA ClearsRow ==
    ASSUME AlertTypes, A!Clear PROVE alertRow' \in A!Rows /\ ~alertRow'.alerted /\ alertRow'.ops = alertRow.ops
PROOF
  <1>1. alertRow \in A!Rows /\ alertRow' = [alertRow EXCEPT !.down = "no", !.alerted = FALSE]
    BY DEF AlertTypes, A!Clear
  <1> QED BY <1>1, RowParts

\* An evaluation begins, with the row there is or the one the sweep holds.
LEMMA BeginsAlert ==
    ASSUME AlertInv, NEW p \in Procs, NEW q \in A!Rows, A!Evaluate(p, q) PROVE AlertInv'
PROOF
  <1> USE DEF AlertInv
  <1>1. p \in world.procs /\ q \in {alertRow} \cup loaded[p] /\ loaded' = [loaded EXCEPT ![p] = @ \ {q}]
        /\ UNCHANGED <<world, health, alertRow, last, told, loop, alertSpent>>
    BY DEF A!Evaluate, A!Handed
  <1>2. /\ loaded' \in [Procs -> SUBSET A!Rows]
        /\ ~world.stale => loaded' = loaded /\ q = alertRow
    BY <1>1 DEF RunningInv, AlertTypes
  <1>3. CASE ~A!At(p, "idle")
    <2>1. eval' = eval
      BY <1>3 DEF A!Evaluate
    <2>2. LoopInv'
      BY <1>1, <2>1, LoopStays DEF AlertTypes
    <2>3. ~world.stale /\ world.procs = {p} => Turn(eval[p])'
      BY <1>1, <2>1 DEF TurnInv, Turn
    <2>4. loop >= loop /\ eval[p].loop \in 0 .. loop
      BY DEF AlertTypes, RunningInv
    <2> QED BY <1>1, <1>2, <2>1, <2>2, <2>3, <2>4, AlertStays DEF AlertTypes
  <1>4. CASE A!At(p, "idle")
    <2>1. PICK e : e = [A!Idle EXCEPT !.pc = "read", !.row = q]
      OBVIOUS
    <2>2. e \in Evals /\ e.pc = "read" /\ e.row = q /\ e.loop = 0
      BY <2>1 DEF A!Idle, A!NoRow, A!Rows, Evals, EvalPcs, A!Healths
    <2>3. eval' = [eval EXCEPT ![p] = e]
      BY <1>4, <2>1 DEF A!Evaluate, A!Start
    <2>4. eval' \in [Procs -> Evals] /\ eval'[p] = e /\ \A o \in Procs \ {p} : eval'[o] = eval[o]
      BY <2>2, <2>3 DEF AlertTypes
    <2>5. LoopInv'
      BY <1>1, <2>2, <2>4, LoopStays DEF AlertTypes
    <2>6. ~world.stale /\ world.procs = {p} => Turn(eval[p])'
      <3> SUFFICES ASSUME ~world.stale, world.procs = {p} PROVE Turn(eval[p])'
        OBVIOUS
      <3>1. Turn(eval[p]) /\ eval[p].pc = "idle"
        BY <1>4 DEF TurnInv, A!At
      <3> QED BY <1>1, <1>2, <2>2, <2>4, <3>1 DEF Turn
    <2>7. loop >= loop /\ 0 \in 0 .. loop
      BY DEF AlertTypes
    <2> QED BY <1>1, <1>2, <2>2, <2>4, <2>5, <2>6, <2>7, AlertStays DEF AlertTypes
  <1> QED BY <1>3, <1>4

LEMMA AlertRuns == ASSUME AlertInv, NEW p \in Procs, eval[p].pc # "idle" PROVE p \in world.procs
PROOF
  BY DEF AlertInv, RunningInv

\* An evaluation goes on, or ends, and nothing is written that has to do with loops.
LEMMA StepsAlert ==
    ASSUME AlertInv, NEW p \in Procs, eval[p].pc # "idle", UNCHANGED <<world, health, loaded, told, loop>>,
           alertRow' \in A!Rows, alertRow'.ops = alertRow.ops, last' \in {"none", "outage", "recovery"},
           alertSpent' = alertSpent \/ A!Fails,
           eval' \in [Procs -> Evals], eval'[p].pc # "loop_mail", eval'[p].loop \in {0, eval[p].loop}, \A q \in Procs \ {p} : eval'[q] = eval[q],
           ASSUME Turn(eval[p]) PROVE Turn(eval[p])'
    PROVE  AlertInv'
PROOF
  <1>1. /\ alertSpent' \in [changes : Nat, faults : Nat, crashes : Nat]
        /\ alertSpent'.faults = 0 => alertSpent.faults = 0
    <2>1. CASE alertSpent' = alertSpent
      BY <2>1 DEF AlertInv, AlertTypes
    <2>2. CASE A!Fails
      BY <2>2, FailureCounts DEF AlertInv
    <2> QED BY <2>1, <2>2
  <1>2. p \in world.procs
    BY AlertRuns
  <1>3. LoopInv'
    BY <1>1, LoopStays
  <1>4. ~world.stale /\ world.procs = {p} => Turn(eval[p])'
    BY DEF AlertInv, TurnInv
  <1>5. loop' \in Nat /\ told' \subseteq 0 .. loop' /\ loaded' \in [Procs -> SUBSET A!Rows]
    BY DEF AlertInv, AlertTypes
  <1>6. loop' >= loop /\ eval'[p].loop \in 0 .. loop'
    <2>1. eval[p].loop \in 0 .. loop /\ 0 \in 0 .. loop
      BY DEF AlertInv, AlertTypes, RunningInv
    <2> QED BY <2>1 DEF AlertInv, AlertTypes
  <1> QED BY <1>1, <1>2, <1>3, <1>4, <1>5, <1>6, AlertStays

LEMMA ReadsHealth == ASSUME AlertInv, NEW p \in Procs, A!ReadHealth(p) PROVE AlertInv'
PROOF
  <1>1. eval[p] \in Evals /\ health \in A!Healths /\ eval[p].pc = "read"
    BY AlertsAssumed DEF AlertInv, AlertTypes, A!Assumption, A!ReadHealth, A!At
  <1>2. PICK e : e = [eval[p] EXCEPT !.health = health, !.pc = "operator"]
    OBVIOUS
  <1>3. e \in Evals /\ e.pc = "operator" /\ e.row = eval[p].row /\ e.loop = eval[p].loop
    BY <1>1, <1>2 DEF Evals, EvalPcs
  <1>4. eval' = [eval EXCEPT ![p] = e] /\ UNCHANGED <<world, health, alertRow, loaded, last, told, loop, alertSpent>>
    BY <1>2 DEF A!ReadHealth
  <1>5. eval' \in [Procs -> Evals] /\ eval'[p] = e /\ \A q \in Procs \ {p} : eval'[q] = eval[q]
    BY <1>3, <1>4 DEF AlertInv, AlertTypes
  <1>6. ASSUME Turn(eval[p]) PROVE Turn(eval[p])'
    BY <1>1, <1>3, <1>4, <1>5, <1>6 DEF Turn
  <1> QED BY <1>1, <1>3, <1>4, <1>5, <1>6, StepsAlert DEF AlertInv, AlertTypes

LEMMA Decides == ASSUME AlertInv, NEW p \in Procs, A!Quiet(p) \/ A!Recovered(p) \/ A!Broken(p) PROVE AlertInv'
PROOF
  <1>1. /\ eval[p] \in Evals /\ eval[p].pc = "decide" /\ alertRow \in A!Rows /\ eval[p].row \in A!Rows
        /\ last \in {"none", "outage", "recovery"}
        /\ UNCHANGED <<world, health, loaded, told, loop, alertSpent>>
    BY DEF AlertInv, AlertTypes, A!Quiet, A!Recovered, A!Broken, A!At, Evals
  <1>2. CASE A!Quiet(p)
    <2>1. Ended(p)
      BY <1>2, ComesToEnd DEF A!Quiet, AlertInv
    <2>2. /\ alertRow' \in A!Rows /\ alertRow'.ops = alertRow.ops /\ last' \in {"none", "outage", "recovery"}
          /\ \/ alertRow' = alertRow /\ last' = last
             \/ ~alertRow'.alerted /\ last' = "none"
             \/ ~alertRow'.alerted /\ last' = last /\ ~eval[p].row.alerted
      BY <1>1, <1>2, ClearsRow DEF A!Quiet, AlertInv
    <2>3. ASSUME Turn(eval[p]) PROVE Turn(eval[p])'
      BY <1>1, <2>1, <2>2, <2>3 DEF Turn, Ended
    <2> QED BY <1>1, <2>1, <2>2, <2>3, StepsAlert DEF Ended
  <1>3. CASE A!Recovered(p)
    <2>1. Onward(p, "recovery") /\ UNCHANGED <<alertRow, last>> /\ eval[p].row.alerted
      BY <1>3, GoesOn DEF A!Recovered, AlertInv, EvalPcs
    <2>2. ASSUME Turn(eval[p]) PROVE Turn(eval[p])'
      BY <1>1, <2>1, <2>2 DEF Turn, Onward
    <2> QED BY <1>1, <2>1, <2>2, StepsAlert DEF Onward
  <1>4. CASE A!Broken(p)
    <2>1. alertRow' \in A!Rows /\ alertRow'.ops = alertRow.ops /\ alertRow'.alerted = alertRow.alerted /\ last' = last
      BY <1>1, <1>4, RowParts DEF A!Broken
    <2>2. CASE ~eval[p].row.alerted /\ eval[p].row.down = "old"
      <3>1. Onward(p, "outage")
        BY <1>4, <2>2, GoesOn DEF A!Broken, AlertInv, EvalPcs
      <3>2. ASSUME Turn(eval[p]) PROVE Turn(eval[p])'
        BY <1>1, <2>1, <2>2, <3>1, <3>2 DEF Turn, Onward
      <3> QED BY <1>1, <2>1, <3>1, <3>2, StepsAlert DEF Onward
    <2>3. CASE ~(~eval[p].row.alerted /\ eval[p].row.down = "old")
      <3>1. Ended(p)
        BY <1>4, <2>3, ComesToEnd DEF A!Broken, AlertInv
      <3>2. ASSUME Turn(eval[p]) PROVE Turn(eval[p])'
        BY <1>1, <2>1, <3>1, <3>2 DEF Turn, Ended
      <3> QED BY <1>1, <2>1, <3>1, <3>2, StepsAlert DEF Ended
    <2> QED BY <2>2, <2>3
  <1> QED BY <1>2, <1>3, <1>4

LEMMA Mails == ASSUME AlertInv, NEW p \in Procs, A!Notify(p) \/ A!Write(p) PROVE AlertInv'
PROOF
  <1>1. /\ eval[p].pc \in {"outage", "recovery", "alerted", "clear"} /\ alertRow \in A!Rows
        /\ last \in {"none", "outage", "recovery"} /\ AlertTypes
        /\ UNCHANGED <<world, health, loaded, told, loop>>
    BY DEF AlertInv, AlertTypes, A!Notify, A!Write, A!At
  <1>2. CASE A!Notify(p) /\ last' = eval[p].pc /\ eval[p].pc = "outage" /\ A!Goto(p, "alerted") /\ UNCHANGED alertSpent
    <2>1. Onward(p, "alerted") /\ alertRow' = alertRow
      BY <1>1, <1>2, GoesOn DEF A!Notify, EvalPcs
    <2>2. ASSUME Turn(eval[p]) PROVE Turn(eval[p])'
      BY <1>2, <2>1, <2>2 DEF Turn, Onward
    <2> QED BY <1>1, <1>2, <2>1, <2>2, StepsAlert DEF Onward
  <1>3. CASE A!Notify(p) /\ last' = eval[p].pc /\ eval[p].pc = "recovery" /\ A!Goto(p, "clear") /\ UNCHANGED alertSpent
    <2>1. Onward(p, "clear") /\ alertRow' = alertRow
      BY <1>1, <1>3, GoesOn DEF A!Notify, EvalPcs
    <2>2. ASSUME Turn(eval[p]) PROVE Turn(eval[p])'
      BY <1>3, <2>1, <2>2 DEF Turn, Onward
    <2> QED BY <1>1, <1>3, <2>1, <2>2, StepsAlert DEF Onward
  <1>4. CASE A!Notify(p) /\ A!Fails /\ A!Finish(p) /\ UNCHANGED last
    <2>1. Ended(p) /\ alertRow' = alertRow /\ eval[p].pc \in {"outage", "recovery"}
      BY <1>1, <1>4, ComesToEnd DEF A!Notify, A!At
    <2>2. ASSUME Turn(eval[p]) PROVE Turn(eval[p])'
      BY <1>1, <1>4, <2>1, <2>2 DEF Turn, Ended
    <2> QED BY <1>1, <1>4, <2>1, <2>2, StepsAlert DEF Ended
  <1>5. CASE A!Write(p)
    <2>1. Ended(p) /\ UNCHANGED <<last, alertSpent>> /\ eval[p].pc \in {"alerted", "clear"}
      BY <1>1, <1>5, ComesToEnd DEF A!Write, A!At
    <2>2. /\ alertRow' \in A!Rows /\ alertRow'.ops = alertRow.ops
          /\ alertRow'.alerted <=> eval[p].pc = "alerted"
      <3>1. CASE eval[p].pc = "alerted"
        <4>1. alertRow' = [alertRow EXCEPT !.alerted = TRUE]
          BY <1>5, <3>1 DEF A!Write, A!At
        <4> QED BY <1>1, <3>1, <4>1 DEF A!Rows
      <3>2. CASE eval[p].pc = "clear"
        <4>1. A!Clear
          BY <1>5, <3>2 DEF A!Write, A!At
        <4>2. alertRow' \in A!Rows /\ ~alertRow'.alerted /\ alertRow'.ops = alertRow.ops
          BY <1>1, <4>1, ClearsRow
        <4> QED BY <3>2, <4>2
      <3> QED BY <2>1, <3>1, <3>2
    <2>3. ASSUME Turn(eval[p]) PROVE Turn(eval[p])'
      BY <2>1, <2>2, <2>3 DEF Turn, Ended
    <2> QED BY <1>1, <2>1, <2>2, <2>3, StepsAlert DEF Ended
  <1> QED BY <1>2, <1>3, <1>4, <1>5 DEF A!Notify, A!At

\* The claim of a loop, and its end.
LEMMA Claims == ASSUME AlertInv, NEW p \in Procs, A!Operator(p) PROVE AlertInv'
PROOF
  <1> USE DEF AlertInv
  <1> DEFINE claim == A!Looping(p) /\ ~eval[p].row.ops /\ ~alertRow.ops
             release == ~A!Looping(p) /\ eval[p].row.ops /\ alertRow.ops
             next == CASE claim -> "loop_mail" [] release -> "ended_mail" [] OTHER -> "decide"
  <1>1. /\ eval[p] \in Evals /\ eval[p].pc = "operator" /\ alertRow \in A!Rows /\ loop \in Nat
        /\ UNCHANGED <<world, health, loaded, last, told, alertSpent>>
        /\ alertRow' = [alertRow EXCEPT !.ops = (@ \/ claim) /\ ~release]
        /\ loop' = IF release THEN loop + 1 ELSE loop
        /\ eval' = [eval EXCEPT ![p].loop = loop', ![p].pc = next]
    BY DEF AlertTypes, A!Operator, A!OperatorBy, A!At
  <1>2. claim \in BOOLEAN /\ release \in BOOLEAN /\ ~(claim /\ release)
    OBVIOUS
  <1>3. /\ claim => next = "loop_mail"
        /\ release => next = "ended_mail"
        /\ ~claim /\ ~release => next = "decide"
    BY <1>2
  <1>4. /\ claim => ~alertRow.ops
        /\ release => alertRow.ops
    OBVIOUS
  <1> HIDE DEF claim, release, next
  <1>5. loop' \in Nat /\ loop' >= loop /\ next \in EvalPcs
    BY <1>1, <1>3 DEF EvalPcs
  <1>6. /\ alertRow' \in A!Rows /\ alertRow'.alerted = alertRow.alerted
        /\ claim => alertRow'.ops
        /\ release => ~alertRow'.ops
        /\ ~claim /\ ~release => alertRow'.ops = alertRow.ops
    <2>1. PICK b : b = ((alertRow.ops \/ claim) /\ ~release)
      OBVIOUS
    <2>2. b \in BOOLEAN /\ alertRow' = [alertRow EXCEPT !.ops = b] /\ alertRow.ops \in BOOLEAN
      BY <1>1, <2>1 DEF A!Rows
    <2>3. alertRow' \in A!Rows /\ alertRow'.alerted = alertRow.alerted /\ alertRow'.ops = b
      BY <1>1, <2>2 DEF A!Rows
    <2> QED BY <1>2, <2>1, <2>2, <2>3
  <1>7. PICK e : e = [eval[p] EXCEPT !.loop = loop', !.pc = next]
    OBVIOUS
  <1>8. e \in Evals /\ e.pc = next /\ e.row = eval[p].row /\ e.loop = loop'
    BY <1>1, <1>5, <1>7 DEF Evals
  <1>9. eval' = [eval EXCEPT ![p] = e]
    BY <1>1, <1>7
  <1>10. eval' \in [Procs -> Evals] /\ eval'[p] = e /\ \A q \in Procs \ {p} : eval'[q] = eval[q]
    BY <1>8, <1>9 DEF AlertTypes
  <1>11. next \in {"loop_mail", "ended_mail", "decide"}
    BY <1>3
  <1>12. ~world.stale /\ world.procs = {p} => Turn(eval[p])'
    <2> SUFFICES ASSUME ~world.stale, world.procs = {p} PROVE Turn(eval[p])'
      OBVIOUS
    <2>1. Turn(eval[p])
      BY DEF TurnInv
    <2> QED BY <1>1, <1>6, <1>8, <1>10, <1>11, <2>1 DEF Turn
  <1>13. LoopInv'
    <2> SUFFICES ASSUME alertSpent.faults = 0 PROVE LoopInv'
      BY <1>1 DEF LoopInv
    <2>1. CASE claim
      <3>1. alertRow'.ops /\ ~alertRow.ops /\ loop' = loop /\ e.pc = "loop_mail" /\ e.loop = loop
        BY <1>1, <1>2, <1>3, <1>4, <1>6, <1>8, <2>1
      <3>2. loop \notin told /\ \A q \in Procs : A!At(q, "loop_mail") => eval[q].loop # loop
        BY <3>1 DEF LoopInv
      <3>3. \A q \in Procs \ {p} : A!At(q, "loop_mail")' => A!At(q, "loop_mail") /\ eval'[q] = eval[q]
        BY <1>10 DEF A!At
      <3>4. loop \in 0 .. loop
        BY <1>1
      <3> QED BY <1>1, <1>10, <3>1, <3>2, <3>3, <3>4 DEF LoopInv, A!At
    <2>2. CASE release
      <3>1. ~alertRow'.ops /\ loop' = loop + 1 /\ e.pc = "ended_mail"
        BY <1>1, <1>2, <1>3, <1>6, <1>8, <2>2
      <3>2. loop' \notin told
        BY <1>1, <3>1 DEF AlertTypes
      <3>3. \A q \in Procs : A!At(q, "loop_mail")' => q # p /\ A!At(q, "loop_mail") /\ eval'[q] = eval[q]
        BY <1>10, <3>1 DEF A!At
      <3>4. \A q \in Procs : A!At(q, "loop_mail") => eval[q].loop \in 0 .. loop /\ eval[q].loop \in 0 .. loop' /\ eval[q].loop # loop'
        BY <1>1, <3>1 DEF LoopInv
      <3>5. \A q \in Procs : A!At(q, "loop_mail") =>
               eval[q].loop \notin told /\ \A o \in Procs \ {q} : ~(A!At(o, "loop_mail") /\ eval[o].loop = eval[q].loop)
        BY DEF LoopInv
      <3>6. ASSUME NEW q \in Procs, A!At(q, "loop_mail")'
            PROVE  /\ eval'[q].loop \in 0 .. loop' /\ eval'[q].loop \notin told'
                   /\ eval'[q].loop = loop' => alertRow'.ops
                   /\ \A o \in Procs \ {q} : ~(A!At(o, "loop_mail")' /\ eval'[o].loop = eval'[q].loop)
        <4>1. A!At(q, "loop_mail") /\ eval'[q] = eval[q] /\ told' = told
          BY <1>1, <3>3, <3>6
        <4>2. eval'[q].loop \in 0 .. loop' /\ eval'[q].loop \notin told' /\ eval'[q].loop # loop'
          BY <3>4, <3>5, <4>1
        <4>3. ASSUME NEW o \in Procs \ {q}, A!At(o, "loop_mail")' PROVE eval'[o].loop # eval'[q].loop
          <5>1. A!At(o, "loop_mail") /\ eval'[o] = eval[o]
            BY <3>3, <4>3
          <5> QED BY <3>5, <4>1, <5>1
        <4> QED BY <4>2, <4>3
      <3>7. LoopInv' <=> (alertSpent'.faults = 0 =>
        /\ \A q \in Procs : A!At(q, "loop_mail")' =>
            /\ eval'[q].loop \in 0 .. loop' /\ eval'[q].loop \notin told'
            /\ eval'[q].loop = loop' => alertRow'.ops
            /\ \A o \in Procs \ {q} : ~(A!At(o, "loop_mail")' /\ eval'[o].loop = eval'[q].loop)
        /\ ~alertRow'.ops => loop' \notin told')
        BY DEF LoopInv
      <3> QED BY <1>1, <3>2, <3>6, <3>7
    <2>3. CASE ~claim /\ ~release
      <3>1. alertRow'.ops = alertRow.ops /\ loop' = loop /\ e.pc = "decide"
        BY <1>1, <1>3, <1>6, <1>8, <2>3
      <3> QED BY <1>1, <1>10, <3>1, LoopStays DEF AlertTypes
    <2> QED BY <2>1, <2>2, <2>3
  <1>14. p \in world.procs
    BY <1>1, AlertRuns
  <1>15. told' \subseteq 0 .. loop' /\ loop' \in 0 .. loop'
    BY <1>1, <1>5 DEF AlertTypes
  <1> QED BY <1>1, <1>5, <1>6, <1>8, <1>10, <1>12, <1>13, <1>14, <1>15, AlertStays DEF AlertTypes

\* The operator's mails: of a loop, and of its end.
LEMMA TellsOperator == ASSUME AlertInv, NEW p \in Procs, A!LoopMail(p) \/ A!EndedMail(p) PROVE AlertInv'
PROOF
  <1> USE DEF AlertInv
  <1>1. /\ eval[p].pc \in {"loop_mail", "ended_mail"} /\ alertRow \in A!Rows /\ loop \in Nat /\ A!Goto(p, "decide")
        /\ UNCHANGED <<world, health, loaded, last, loop>>
        /\ \/ eval[p].pc = "loop_mail" /\ told' = told \cup {eval[p].loop} /\ UNCHANGED <<alertRow, alertSpent>>
           \/ eval[p].pc = "loop_mail" /\ A!Fails /\ alertRow' = [alertRow EXCEPT !.ops = FALSE] /\ told' = told
           \/ eval[p].pc = "ended_mail" /\ UNCHANGED <<alertRow, told, alertSpent>>
           \/ eval[p].pc = "ended_mail" /\ A!Fails /\ alertRow' = [alertRow EXCEPT !.ops = TRUE] /\ told' = told \cup {loop}
    BY DEF AlertTypes, A!LoopMail, A!EndedMail, A!At
  <1>2. Onward(p, "decide")
    BY <1>1, GoesOn DEF EvalPcs
  <1>3. alertRow' \in A!Rows /\ alertRow'.alerted = alertRow.alerted
    BY <1>1 DEF A!Rows
  <1>4. ~world.stale /\ world.procs = {p} => Turn(eval[p])'
    <2> SUFFICES ASSUME ~world.stale, world.procs = {p} PROVE Turn(eval[p])'
      OBVIOUS
    <2>1. Turn(eval[p])
      BY DEF TurnInv
    <2> QED BY <1>1, <1>2, <1>3, <2>1 DEF Turn, Onward
  <1>5. \A q \in Procs : A!At(q, "loop_mail")' => q # p /\ A!At(q, "loop_mail") /\ eval'[q] = eval[q]
    BY <1>2 DEF A!At, Onward
  <1>6. p \in world.procs
    BY <1>1, AlertRuns
  <1>7. loop' >= loop /\ eval'[p].loop \in 0 .. loop'
    BY <1>1, <1>2 DEF Onward, RunningInv
  <1>8. CASE A!Fails
    <2>1. /\ alertSpent' \in [changes : Nat, faults : Nat, crashes : Nat] /\ alertSpent'.faults # 0
      BY <1>8, FailureCounts
    <2>2. LoopInv'
      BY <2>1 DEF LoopInv
    <2>3. eval[p].loop \in Nat
      BY DEF AlertTypes, Evals
    <2>4. alertSpent' # alertSpent
      <3>1. alertSpent'.faults = alertSpent.faults + 1 /\ alertSpent.faults \in Nat
        BY <1>8 DEF A!Fails, AlertTypes
      <3> QED BY <3>1
    <2>5. told' \subseteq 0 .. loop' /\ loop' \in Nat
      BY <1>1, <2>4 DEF AlertTypes
    <2> QED BY <1>1, <1>2, <1>3, <1>4, <1>6, <1>7, <2>1, <2>2, <2>5, AlertStays DEF AlertTypes, Onward
  <1>9. CASE eval[p].pc = "ended_mail" /\ UNCHANGED <<alertRow, told, alertSpent>>
    <2>1. LoopInv'
      BY <1>1, <1>2, <1>9, LoopStays DEF Onward, AlertTypes
    <2> QED BY <1>1, <1>2, <1>3, <1>4, <1>6, <1>9, <1>7, <2>1, AlertStays DEF AlertTypes, Onward
  <1>10. CASE eval[p].pc = "loop_mail" /\ told' = told \cup {eval[p].loop} /\ UNCHANGED <<alertRow, alertSpent>>
    <2>1. LoopInv'
      <3> SUFFICES ASSUME alertSpent.faults = 0 PROVE LoopInv'
        BY <1>10 DEF LoopInv
      <3>1. \A q \in Procs : A!At(q, "loop_mail")' => eval'[q].loop # eval[p].loop
        BY <1>5, <1>10 DEF LoopInv, A!At
      <3>2. ~alertRow.ops => loop # eval[p].loop
        BY <1>10 DEF LoopInv, A!At
      <3> QED BY <1>1, <1>5, <1>10, <3>1, <3>2 DEF LoopInv
    <2>2. told' \subseteq 0 .. loop' /\ loop' \in Nat
      <3>1. eval[p].loop \in 0 .. loop
        BY DEF RunningInv
      <3> QED BY <1>1, <1>10, <3>1 DEF AlertTypes
    <2> QED BY <1>1, <1>2, <1>3, <1>4, <1>6, <1>10, <1>7, <2>1, <2>2, AlertStays DEF AlertTypes, Onward
  <1> QED BY <1>1, <1>8, <1>9, <1>10

LEMMA Crashes == ASSUME AlertInv, NEW p \in Procs, A!Crash(p) PROVE AlertInv'
PROOF
  <1> USE DEF AlertInv
  <1>1. /\ eval[p].pc # "idle" /\ A!Finish(p) /\ loaded' = [loaded EXCEPT ![p] = {}]
        /\ UNCHANGED <<world, health, alertRow, told, loop>>
        /\ alertSpent' = [alertSpent EXCEPT !.crashes = @ + 1]
        /\ last' = CASE A!At(p, "alerted") /\ ~alertRow.alerted -> "none"
                     [] A!At(p, "clear") /\ alertRow.alerted -> "outage"
                     [] OTHER -> last
    BY DEF A!Crash, A!Finish, A!At
  <1>2. Ended(p)
    BY <1>1, ComesToEnd
  <1>3. p \in world.procs
    BY <1>1, AlertRuns
  <1>4. alertSpent' \in [changes : Nat, faults : Nat, crashes : Nat] /\ alertSpent'.faults = alertSpent.faults
    <2>1. PICK n \in Nat : n = alertSpent.crashes + 1
      BY DEF AlertTypes
    <2>2. alertSpent' = [alertSpent EXCEPT !.crashes = n]
      BY <1>1, <2>1 DEF AlertTypes
    <2> QED BY <2>1, <2>2 DEF AlertTypes
  <1>5. loaded' \in [Procs -> SUBSET A!Rows] /\ (~world.stale => loaded' = loaded)
    BY <1>1 DEF AlertTypes, RunningInv
  <1>6. LoopInv'
    BY <1>1, <1>2, <1>4, LoopStays DEF Ended
  <1>7. last \in {"none", "outage", "recovery"} /\ last' \in {"none", "outage", "recovery"}
    BY <1>1 DEF AlertTypes
  <1>8. ~world.stale /\ world.procs = {p} => Turn(eval[p])'
    <2> SUFFICES ASSUME ~world.stale, world.procs = {p} PROVE Turn(eval[p])'
      OBVIOUS
    <2>1. Turn(eval[p])
      BY DEF TurnInv
    <2>2. CASE eval[p].pc = "alerted"
      BY <1>1, <1>2, <2>1, <2>2 DEF Turn, Ended, A!At
    <2>3. CASE eval[p].pc = "clear"
      BY <1>1, <1>2, <2>1, <2>3 DEF Turn, Ended, A!At
    <2>4. CASE eval[p].pc \notin {"alerted", "clear"}
      BY <1>1, <1>2, <2>1, <2>4 DEF Turn, Ended, A!At
    <2> QED BY <2>2, <2>3, <2>4
  <1>9. loop \in Nat /\ loop >= loop /\ 0 \in 0 .. loop
    BY DEF AlertTypes
  <1> QED BY <1>1, <1>2, <1>3, <1>4, <1>5, <1>6, <1>7, <1>8, <1>9, AlertStays DEF Ended, AlertTypes

\* The sweep reads, the connection changes, and the grace runs out.
LEMMA AroundAlerts ==
    ASSUME AlertInv, (\E p \in Procs : A!Load(p)) \/ A!GraceEnds \/ (\E h \in A!Healths : A!Change(h)) \/ UNCHANGED A!vars
    PROVE  AlertInv'
PROOF
  <1> USE DEF AlertInv
  <1>1. /\ UNCHANGED <<world, eval, last, told, loop>>
        /\ alertRow' \in A!Rows /\ alertRow'.alerted = alertRow.alerted /\ alertRow'.ops = alertRow.ops
    BY DEF A!Load, A!GraceEnds, A!Change, A!vars, AlertTypes, A!Rows
  <1>2. health' \in world.healths
    BY DEF A!Load, A!GraceEnds, A!Change, A!vars, AlertTypes
  <1>3. loaded' \in [Procs -> SUBSET A!Rows] /\ (~world.stale => loaded' = loaded)
    BY DEF A!Load, A!GraceEnds, A!Change, A!vars, AlertTypes
  <1>4. alertSpent' \in [changes : Nat, faults : Nat, crashes : Nat] /\ alertSpent'.faults = alertSpent.faults
    <2>1. PICK n \in Nat : n = alertSpent.changes + 1
      BY DEF AlertTypes
    <2>2. alertSpent' = alertSpent \/ alertSpent' = [alertSpent EXCEPT !.changes = n]
      BY <2>1 DEF A!Load, A!GraceEnds, A!Change, A!vars, AlertTypes
    <2> QED BY <2>1, <2>2 DEF AlertTypes
  <1>5. AlertTypes' /\ RunningInv'
    BY <1>1, <1>2, <1>3, <1>4 DEF AlertTypes, RunningInv
  <1>6. TurnInv'
    BY <1>1 DEF TurnInv, Turn
  <1>7. LoopInv'
    BY <1>1, <1>4 DEF LoopInv, A!At
  <1> QED BY <1>5, <1>6, <1>7

LEMMA AlertStep == AlertInv /\ [A!Next]_(A!vars) => AlertInv'
PROOF
  <1> SUFFICES ASSUME AlertInv, [A!Next]_(A!vars) PROVE AlertInv'
    OBVIOUS
  <1>1. CASE UNCHANGED A!vars
    BY <1>1, AroundAlerts
  <1>2. CASE A!GraceEnds \/ \E h \in A!Healths : A!Change(h)
    BY <1>2, AroundAlerts
  <1>3. ASSUME NEW p \in Procs, A!Step(p) \/ A!Crash(p) \/ A!Load(p) \/ \E q \in A!Rows : A!Evaluate(p, q)
        PROVE  AlertInv'
    <2>1. CASE A!Step(p)
      BY <2>1, ReadsHealth, Claims, TellsOperator, Decides, Mails DEF A!Step
    <2>2. CASE A!Crash(p) \/ A!Load(p)
      BY <2>2, Crashes, AroundAlerts
    <2>3. CASE \E q \in A!Rows : A!Evaluate(p, q)
      BY <2>3, BeginsAlert
    <2> QED BY <1>3, <2>1, <2>2, <2>3
  <1> QED BY <1>1, <1>2, <1>3 DEF A!Next

\* Rows, evaluations and mails have their types.
THEOREM AlertTypesHold == A!Spec => []A!TypeOK
PROOF
  <1>1. AlertInv => A!TypeOK
    <2> SUFFICES ASSUME AlertInv PROVE A!TypeOK
      OBVIOUS
    <2>1. AlertTypes
      BY DEF AlertInv
    <2>2. \A p \in Procs : eval[p].row \in A!Rows /\ eval[p].health \in A!Healths /\ loaded[p] \subseteq A!Rows
      BY <2>1 DEF AlertTypes, Evals
    <2> QED BY <2>1, <2>2 DEF AlertTypes, A!TypeOK
  <1> QED BY <1>1, AlertStart, AlertStep, PTL DEF A!Spec

\* "Two evaluations that both read alerted_at empty would both mail" (alerts.ts:199-202), "two
\* replicas or the sweep and a webhook landing together cannot both mail" (:425-427): of an
\* outage people are told once by one process whose sweep holds no rows, and of a loop the
\* operator is told once, however many replicas look and whatever they read before.
THEOREM AlertsMailOnce == A!Spec => []MailedOnce
PROOF
  <1>1. AlertInv => MailedOnce
    <2> SUFFICES ASSUME AlertInv PROVE MailedOnce
      OBVIOUS
    <2>1. A!FreshMailedInTurn
      <3> SUFFICES ASSUME ~world.stale, NEW o \in Procs, world.procs = {o}, NEW p \in Procs
                   PROVE  /\ A!At(p, "outage") => last # "outage"
                          /\ A!At(p, "recovery") => last = "outage"
        BY DEF A!FreshMailedInTurn, A!MailedInTurn, A!OneProcess
      <3>1. CASE p = o
        <4>1. Turn(eval[p])
          BY <3>1 DEF AlertInv, TurnInv
        <4> QED BY <4>1 DEF Turn, A!At
      <3>2. CASE p # o
        BY <3>2 DEF AlertInv, RunningInv, A!At
      <3> QED BY <3>1, <3>2
    <2>2. A!OperatorOnce
      BY DEF A!OperatorOnce, AlertInv, LoopInv
    <2> QED BY <2>1, <2>2 DEF MailedOnce, A!MailedOnce
  <1> QED BY <1>1, AlertStart, AlertStep, PTL DEF A!Spec

-----------------------------------------------------------------------------
(* Reading: what was stored by the time of a reading, and what its links are.  Rows are    *)
(* a parameter here: what is so of the first n of them stays so when more are stored.       *)

RowSeqs == {rows \in Seq(R!Messages) : Len(rows) <= MaxRows}
Extends(rows, more) == Len(rows) <= Len(more) /\ \A i \in 1 .. Len(rows) : more[i] = rows[i]

FirstOf(rows, n) == {rows[i] : i \in 1 .. n}
LidRowsOf(rows, n) == {<<m.chat, m.alt>> : m \in {m \in FirstOf(rows, n) : m.chat \in Lids}}
PairsOf(rows, n) == R!Linked({e \in LidRowsOf(rows, n) : e[2] \in Phones})
UnlinkedOf(rows, n) == {e[1] : e \in LidRowsOf(rows, n)} \ {e[1] : e \in PairsOf(rows, n)}
NamedOf(rows, n) == UNION {m.names : m \in FirstOf(rows, n)}
ChatsOf(rows, n) == {m.chat : m \in FirstOf(rows, n)}

LEMMA IdsDiffer ==
    /\ Lids \cap Phones = {} /\ R!Group \notin Lids \cup Phones
    /\ R!None \notin R!Chats /\ R!Stranger \notin R!Chats /\ R!None # R!Stranger
    /\ R!Chats = Lids \cup Phones \cup {R!Group} /\ MaxRows \in Nat /\ Callers \subseteq Nat
PROOF
  BY ReadingAssumed DEF R!Assumption, R!Chats, R!Group, R!None, R!Stranger

LEMMA RowIs ==
    ASSUME NEW rows \in RowSeqs, NEW i \in 1 .. Len(rows)
    PROVE  /\ rows[i] \in R!Messages /\ rows[i].chat \in R!Chats /\ rows[i].alt \in Phones \cup {R!None}
           /\ rows[i].names \subseteq Lids /\ rows[i].live \in BOOLEAN
PROOF
  <1>1. rows[i] \in R!Messages
    BY DEF RowSeqs
  <1> QED BY <1>1 DEF R!Messages

LEMMA FirstStays ==
    ASSUME NEW rows, NEW more, Len(rows) \in Nat, Extends(rows, more), NEW n \in 0 .. Len(rows)
    PROVE  FirstOf(more, n) = FirstOf(rows, n)
PROOF
  <1>1. \A i \in 1 .. n : i \in 1 .. Len(rows) /\ more[i] = rows[i]
    BY DEF Extends
  <1> QED BY <1>1 DEF FirstOf

LEMMA FirstGrows ==
    ASSUME NEW rows, NEW n \in Nat, NEW k \in Nat, n <= k
    PROVE  FirstOf(rows, n) \subseteq FirstOf(rows, k) /\ NamedOf(rows, n) \subseteq NamedOf(rows, k)
PROOF
  <1>1. FirstOf(rows, n) \subseteq FirstOf(rows, k)
    BY DEF FirstOf
  <1> QED BY <1>1 DEF NamedOf

\* What a function makes of a finite set is finite.
LEMMA ImageFinite == ASSUME NEW S, IsFiniteSet(S), NEW f, DOMAIN f = S, NEW T, T = {f[x] : x \in S}, f \in [S -> T] PROVE IsFiniteSet(T)
PROOF
  <1>1. f \in Surjection(S, T)
    BY DEF Surjection
  <1> QED BY <1>1, FS_Surjection

LEMMA FirstFinite ==
    ASSUME NEW rows, NEW n \in Nat
    PROVE  IsFiniteSet(FirstOf(rows, n)) /\ IsFiniteSet(ChatsOf(rows, n)) /\ IsFiniteSet(UnlinkedOf(rows, n))
PROOF
  <1>1. IsFiniteSet(1 .. n)
    BY FS_Interval
  <1>2. IsFiniteSet(FirstOf(rows, n))
    <2>1. PICK f : f = [i \in 1 .. n |-> rows[i]]
      OBVIOUS
    <2>2. DOMAIN f = 1 .. n /\ FirstOf(rows, n) = {f[i] : i \in 1 .. n} /\ f \in [1 .. n -> FirstOf(rows, n)]
      BY <2>1 DEF FirstOf
    <2> QED BY <1>1, <2>2, ImageFinite
  <1>3. IsFiniteSet(ChatsOf(rows, n))
    <2>1. PICK f : f = [m \in FirstOf(rows, n) |-> m.chat]
      OBVIOUS
    <2>2. /\ DOMAIN f = FirstOf(rows, n) /\ ChatsOf(rows, n) = {f[m] : m \in FirstOf(rows, n)}
          /\ f \in [FirstOf(rows, n) -> ChatsOf(rows, n)]
      BY <2>1 DEF ChatsOf
    <2> QED BY <1>2, <2>2, ImageFinite
  <1>4. UnlinkedOf(rows, n) \subseteq ChatsOf(rows, n)
    BY DEF UnlinkedOf, ChatsOf, LidRowsOf
  <1> QED BY <1>2, <1>3, <1>4, FS_Subset

\* Links are one-to-one both ways, and a message says so.
OneToOne(pairs) ==
    /\ pairs \subseteq Lids \X Phones
    /\ \A e \in pairs : \A f \in pairs : (f[1] = e[1]) <=> (f[2] = e[2])

LEMMA PairsAre ==
    ASSUME NEW rows, NEW n \in Nat
    PROVE  /\ OneToOne(PairsOf(rows, n)) /\ PairsOf(rows, n) \subseteq LidRowsOf(rows, n)
           /\ \A e \in PairsOf(rows, n) : \E m \in FirstOf(rows, n) : m.chat = e[1] /\ m.alt = e[2]
PROOF
  <1>1. \A e \in LidRowsOf(rows, n) :
           /\ \E m \in FirstOf(rows, n) : m.chat = e[1] /\ m.alt = e[2] /\ e = <<m.chat, m.alt>>
           /\ e[1] \in Lids /\ e = <<e[1], e[2]>>
    BY DEF LidRowsOf
  <1>2. PairsOf(rows, n) \subseteq {e \in LidRowsOf(rows, n) : e[2] \in Phones}
    BY DEF PairsOf, R!Linked
  <1>3. \A e \in PairsOf(rows, n) : \A f \in PairsOf(rows, n) : (f[1] = e[1]) <=> (f[2] = e[2])
    BY <1>2 DEF PairsOf, R!Linked
  <1>4. PairsOf(rows, n) \subseteq Lids \X Phones
    BY <1>1, <1>2
  <1> QED BY <1>1, <1>2, <1>3, <1>4 DEF OneToOne

-----------------------------------------------------------------------------
(* Reading: the partner of an id. *)

LEMMA PartnerIs ==
    ASSUME NEW l, OneToOne(l.pairs), NEW jid \in R!Chats
    PROVE  /\ \A o : o \in R!Partner(l, jid) <=> <<jid, o>> \in l.pairs \/ <<o, jid>> \in l.pairs
           /\ \A o \in R!Partner(l, jid) :
                /\ R!Partner(l, jid) = {o} /\ R!Partner(l, o) = {jid} /\ o \in R!Chats /\ o # jid
                /\ (jid \in Lids /\ o \in Phones) \/ (jid \in Phones /\ o \in Lids)
           /\ IsFiniteSet(R!Partner(l, jid))
PROOF
  <1>1. \A a : a \in l.pairs => a = <<a[1], a[2]>> /\ a[1] \in Lids /\ a[2] \in Phones
    BY DEF OneToOne
  <1>2. \A j, o : o \in R!Partner(l, j) <=> <<j, o>> \in l.pairs \/ <<o, j>> \in l.pairs
    <2> TAKE j, o
    <2>1. o \in R!Partner(l, j) => <<j, o>> \in l.pairs \/ <<o, j>> \in l.pairs
      BY <1>1 DEF R!Partner
    <2>2. <<j, o>> \in l.pairs => o \in R!Partner(l, j)
      <3>1. <<j, o>>[1] = j /\ <<j, o>>[2] = o
        OBVIOUS
      <3> QED BY <3>1 DEF R!Partner
    <2>3. <<o, j>> \in l.pairs => o \in R!Partner(l, j)
      <3>1. <<o, j>>[1] = o /\ <<o, j>>[2] = j
        OBVIOUS
      <3> QED BY <3>1 DEF R!Partner
    <2> QED BY <2>1, <2>2, <2>3
  <1>3. \A j, o, q : <<j, o>> \in l.pairs /\ <<j, q>> \in l.pairs => o = q
    <2> TAKE j, o, q
    <2>1. <<j, o>>[1] = j /\ <<j, o>>[2] = o /\ <<j, q>>[1] = j /\ <<j, q>>[2] = q
      OBVIOUS
    <2> QED BY <2>1 DEF OneToOne
  <1>4. \A j, o, q : <<o, j>> \in l.pairs /\ <<q, j>> \in l.pairs => o = q
    <2> TAKE j, o, q
    <2>1. <<o, j>>[1] = o /\ <<o, j>>[2] = j /\ <<q, j>>[1] = q /\ <<q, j>>[2] = j
      OBVIOUS
    <2> QED BY <2>1 DEF OneToOne
  <1>5. \A j, o : <<j, o>> \in l.pairs => j \in Lids /\ o \in Phones
    BY DEF OneToOne
  <1>6. ASSUME NEW o, o \in R!Partner(l, jid)
        PROVE  /\ R!Partner(l, jid) = {o} /\ R!Partner(l, o) = {jid} /\ o \in R!Chats /\ o # jid
               /\ (jid \in Lids /\ o \in Phones) \/ (jid \in Phones /\ o \in Lids)
    <2>1. CASE <<jid, o>> \in l.pairs
      <3>1. jid \in Lids /\ o \in Phones /\ jid \notin Phones /\ o \notin Lids
        BY <1>5, <2>1, IdsDiffer
      <3>2. \A q : q \in R!Partner(l, jid) <=> q = o
        BY <1>2, <1>3, <1>5, <2>1, <3>1
      <3>3. \A q : q \in R!Partner(l, o) <=> q = jid
        <4>1. \A q : q \in R!Partner(l, o) <=> <<o, q>> \in l.pairs \/ <<q, o>> \in l.pairs
          BY <1>2
        <4>2. \A q : <<o, q>> \notin l.pairs
          BY <1>5, <3>1
        <4>3. \A q : <<q, o>> \in l.pairs <=> q = jid
          BY <1>4, <2>1
        <4> QED BY <4>1, <4>2, <4>3
      <3> QED BY <3>1, <3>2, <3>3, IdsDiffer
    <2>2. CASE <<o, jid>> \in l.pairs
      <3>1. jid \in Phones /\ o \in Lids /\ o \notin Phones /\ jid \notin Lids
        BY <1>5, <2>2, IdsDiffer
      <3>2. \A q : q \in R!Partner(l, jid) <=> q = o
        BY <1>2, <1>4, <1>5, <2>2, <3>1
      <3>3. \A q : q \in R!Partner(l, o) <=> q = jid
        BY <1>2, <1>3, <1>5, <2>2, <3>1
      <3> QED BY <3>1, <3>2, <3>3, IdsDiffer
    <2> QED BY <1>2, <1>6, <2>1, <2>2
  <1>7. IsFiniteSet(R!Partner(l, jid))
    <2>1. CASE R!Partner(l, jid) = {}
      BY <2>1, FS_EmptySet
    <2>2. CASE \E o : o \in R!Partner(l, jid)
      <3>1. PICK o : R!Partner(l, jid) = {o}
        BY <1>6, <2>2
      <3> QED BY <3>1, FS_Singleton
    <2> QED BY <2>1, <2>2
  <1> QED BY <1>2, <1>6, <1>7

\* An id is listed under itself, or, a phone number's, under its partner.
LEMMA CanonicalIs ==
    ASSUME NEW l, OneToOne(l.pairs), NEW jid \in R!Chats
    PROVE  /\ R!Canonical(l, jid) \in R!Chats
           /\ R!Canonical(l, jid) # jid => jid \in Phones /\ R!Canonical(l, jid) \in Lids /\ R!Canonical(l, jid) \in R!Partner(l, jid)
           /\ R!Canonical(l, jid) \in Phones => R!Partner(l, R!Canonical(l, jid)) = {}
           /\ R!Canonical(l, R!Canonical(l, jid)) = R!Canonical(l, jid)
           /\ \A o \in R!Partner(l, jid) : R!Canonical(l, o) = R!Canonical(l, jid)
PROOF
  <1>1. CASE jid \in Phones /\ R!Partner(l, jid) # {}
    <2>1. PICK o : o \in R!Partner(l, jid)
      BY <1>1
    <2>2. R!Canonical(l, jid) \in R!Partner(l, jid)
      BY <1>1 DEF R!Canonical
    <2>3. R!Partner(l, jid) = {o} /\ o \in Lids /\ o \in R!Chats
      BY <1>1, <2>1, PartnerIs, IdsDiffer
    <2>4. R!Canonical(l, jid) = o
      BY <2>2, <2>3
    <2>5. R!Canonical(l, o) = o
      BY <2>3, IdsDiffer DEF R!Canonical
    <2> QED BY <1>1, <2>3, <2>4, <2>5, IdsDiffer
  <1>2. CASE ~(jid \in Phones /\ R!Partner(l, jid) # {})
    <2>1. R!Canonical(l, jid) = jid
      BY <1>2 DEF R!Canonical
    <2>2. ASSUME NEW o \in R!Partner(l, jid) PROVE R!Canonical(l, o) = jid
      <3>1. jid \in Lids /\ o \in Phones /\ R!Partner(l, o) = {jid}
        BY <1>2, PartnerIs
      <3> QED BY <3>1 DEF R!Canonical
    <2>3. jid \in Phones => R!Partner(l, jid) = {}
      BY <1>2
    <2> QED BY <2>1, <2>2, <2>3
  <1> QED BY <1>1, <1>2

-----------------------------------------------------------------------------
(* Reading: the invariant, of rows, of an entry and of a call, each a value of its own. *)

ReadPcs == {"idle", "links", "chats", "names", "known", "recent", "allowed", "end"}
LinkEntries == [pairs : SUBSET (Lids \X Phones), unlinked : Nat, known : BOOLEAN, seen : Nat, fresh : BOOLEAN]
GuardEntries ==
    [lids : SUBSET Lids, known : BOOLEAN, base : Nat, fresh : BOOLEAN, recent : BOOLEAN, there : BOOLEAN, build : Nat]
ListRows ==
    [jid : R!Chats, jids : SUBSET R!Chats, newest : R!Chats \cup {R!None}, phone : SUBSET Phones, hidden : Nat]
Answers ==
    [shown : SUBSET ListRows, jids : SUBSET R!Chats, hidden : Nat, note : BOOLEAN,
     to : R!Chats \cup {R!None, R!Stranger}]
CallRecords ==
    [pc : ReadPcs, ask : R!Asks, links : LinkEntries, began : Nat, found : SUBSET ListRows, guard : GuardEntries,
     blind : BOOLEAN, answer : Answers]

\* An entry of the links is what the first rows it saw say.
LinkFact(l, rows) ==
    /\ l \in LinkEntries /\ l.seen \in 0 .. Len(rows)
    /\ l.pairs = PairsOf(rows, l.seen) /\ l.unlinked = Cardinality(UnlinkedOf(rows, l.seen))

\* A set of known LIDs has every LID that was named when its build began.
GuardFact(g, rows) ==
    /\ g \in GuardEntries /\ g.base \in 0 .. Len(rows)
    /\ g.known => NamedOf(rows, g.base) \subseteq g.lids

\* A listed row is of one person: the id it goes by, and no other LID.
Listed(item) ==
    /\ item.jid \in item.jids /\ item.newest \in item.jids /\ item.phone = {} /\ item.hidden = 0
    /\ IsFiniteSet(item.jids) /\ \A j \in item.jids \cap Lids : j = item.jid

\* ShownIsInScope, of one row,
Shown(item, rows, scope) ==
    /\ item.jid \in item.jids /\ item.jids \subseteq scope /\ item.newest \in scope \cup {R!None}
    /\ \A p \in item.phone : \E m \in FirstOf(rows, Len(rows)) : m.chat = item.jid /\ m.alt = p /\ m.chat \in scope

\* SilenceIsWhole, of one call,
Whole(r, rows, same) ==
    r.ask.do = "read" /\ r.answer.jids # {} /\ ~r.answer.note /\ r.ask.jid # R!Group =>
        \A i, k \in 1 .. r.links.seen :
            rows[i].chat = r.ask.jid /\ rows[k].chat \in same[r.ask.jid] => rows[k].chat \in r.answer.jids

\* AliasIsRefused: what is so of digits that are sent to,
Clean(r, rows) ==
    \A i \in 1 .. r.began : r.ask.jid \in rows[i].names =>
        IF i > r.guard.base THEN ~rows[i].live \/ r.guard.recent ELSE ~r.guard.known

\* SentIsInScope.
Sent(r, scope) == r.answer.to # R!None => R!Chats \subseteq scope \/ r.answer.to \in scope

CallFact(r, rows, acc) ==
    /\ r \in CallRecords /\ r.began \in 0 .. Len(rows)
    /\ r.pc # "idle" => r.ask \in acc.asks
    /\ LinkFact(r.links, rows) /\ GuardFact(r.guard, rows)
    /\ r.pc = "names" => \A item \in r.found : Listed(item)
    /\ r.pc \in {"known", "recent", "allowed"} => r.ask.do \in {"send", "digits"}
    /\ r.pc = "recent" => r.ask.jid \notin r.guard.lids
    /\ r.pc # "end" => r.answer.to = R!None
    /\ r.pc = "allowed" /\ r.ask.do = "digits" /\ ~r.blind => Clean(r, rows)
    /\ r.answer.to = R!Stranger /\ ~r.blind => Clean(r, rows)
    /\ \A item \in r.answer.shown : Shown(item, rows, acc.scope)
    /\ Whole(r, rows, acc.same)
    /\ Sent(r, acc.scope)

ReadInv ==
    /\ account \in Accounts /\ messages \in RowSeqs /\ \A i \in 1 .. Len(messages) : messages[i] \in account.messages
    /\ LinkFact(links, messages) /\ linking \in 0 .. Len(messages) \cup {R!Idle}
    /\ GuardFact(guard, messages) /\ building \in 0 .. Len(messages) \cup {R!Idle}
    /\ DOMAIN asked = Callers /\ \A c \in Callers : CallFact(asked[c], messages, account)

\* What is so stays so when messages are stored.
LEMMA EntriesStay ==
    ASSUME NEW rows \in RowSeqs, NEW more \in RowSeqs, Extends(rows, more)
    PROVE  /\ \A l : LinkFact(l, rows) => LinkFact(l, more)
           /\ \A g : GuardFact(g, rows) => GuardFact(g, more)
PROOF
  <1>1. Len(rows) \in Nat /\ Len(more) \in Nat /\ Len(rows) <= Len(more)
    BY DEF RowSeqs, Extends
  <1>2. \A n \in 0 .. Len(rows) : FirstOf(more, n) = FirstOf(rows, n)
    BY <1>1, FirstStays
  <1>3. \A n \in 0 .. Len(rows) :
           /\ PairsOf(more, n) = PairsOf(rows, n) /\ UnlinkedOf(more, n) = UnlinkedOf(rows, n)
           /\ NamedOf(more, n) = NamedOf(rows, n)
    <2> TAKE n \in 0 .. Len(rows)
    <2>1. LidRowsOf(more, n) = LidRowsOf(rows, n) /\ NamedOf(more, n) = NamedOf(rows, n)
      BY <1>2 DEF LidRowsOf, NamedOf
    <2>2. PairsOf(more, n) = PairsOf(rows, n)
      BY <2>1 DEF PairsOf
    <2> QED BY <2>1, <2>2 DEF UnlinkedOf
  <1>4. ASSUME NEW l, LinkFact(l, rows) PROVE LinkFact(l, more)
    BY <1>1, <1>3, <1>4 DEF LinkFact
  <1>5. ASSUME NEW g, GuardFact(g, rows) PROVE GuardFact(g, more)
    BY <1>1, <1>3, <1>5 DEF GuardFact
  <1> QED BY <1>4, <1>5

LEMMA CallStays ==
    ASSUME NEW rows \in RowSeqs, NEW more \in RowSeqs, Extends(rows, more), NEW acc, NEW r, CallFact(r, rows, acc)
    PROVE  CallFact(r, more, acc)
PROOF
  <1>1. Len(rows) \in Nat /\ Len(more) \in Nat /\ Len(rows) <= Len(more) /\ \A i \in 1 .. Len(rows) : more[i] = rows[i]
    BY DEF RowSeqs, Extends
  <1>2. r.began \in 0 .. Len(rows) /\ r.links.seen \in 0 .. Len(rows) /\ r \in CallRecords
    BY DEF CallFact, LinkFact
  <1>3. /\ \A i \in 1 .. r.began : i \in 1 .. Len(rows) /\ more[i] = rows[i]
        /\ \A i \in 1 .. r.links.seen : i \in 1 .. Len(rows) /\ more[i] = rows[i]
    BY <1>1, <1>2
  <1>4. LinkFact(r.links, more) /\ GuardFact(r.guard, more)
    BY EntriesStay DEF CallFact
  <1>5. Clean(r, rows) => Clean(r, more)
    BY <1>3 DEF Clean
  <1>6. Whole(r, more, acc.same)
    <2>1. Whole(r, rows, acc.same)
      BY DEF CallFact
    <2> QED BY <1>3, <2>1 DEF Whole
  <1>7. ASSUME NEW item, Shown(item, rows, acc.scope) PROVE Shown(item, more, acc.scope)
    <2>1. FirstOf(rows, Len(rows)) \subseteq FirstOf(more, Len(more))
      BY <1>1 DEF FirstOf
    <2> QED BY <1>7, <2>1 DEF Shown
  <1>8. r.began \in 0 .. Len(more)
    BY <1>1, <1>2
  <1> QED BY <1>2, <1>4, <1>5, <1>6, <1>7, <1>8 DEF CallFact

LEMMA NothingIs ==
    ASSUME NEW rows \in RowSeqs, NEW acc
    PROVE  /\ LinkFact(R!NoLinks, rows) /\ GuardFact(R!NoGuard, rows) /\ CallFact(R!NoCall, rows, acc)
           /\ R!Nothing \in Answers /\ R!Nothing.to = R!None /\ R!Nothing.shown = {} /\ R!Nothing.jids = {}
           /\ R!NoCall.links = R!NoLinks /\ R!NoCall.guard = R!NoGuard /\ R!NoCall.answer = R!Nothing
PROOF
  <1>1. FirstOf(rows, 0) = {}
    BY DEF FirstOf
  <1>2. LidRowsOf(rows, 0) = {} /\ NamedOf(rows, 0) = {}
    BY <1>1 DEF LidRowsOf, NamedOf
  <1>3. PairsOf(rows, 0) = {}
    BY <1>2 DEF PairsOf, R!Linked
  <1>4. UnlinkedOf(rows, 0) = {}
    BY <1>2 DEF UnlinkedOf
  <1>5. Len(rows) \in Nat
    BY DEF RowSeqs
  <1>6. LinkFact(R!NoLinks, rows)
    BY <1>3, <1>4, <1>5, FS_EmptySet DEF LinkFact, R!NoLinks, LinkEntries
  <1>7. GuardFact(R!NoGuard, rows)
    BY <1>5 DEF GuardFact, R!NoGuard, GuardEntries
  <1>8. R!Nothing \in Answers /\ R!Nothing.to = R!None /\ R!Nothing.shown = {} /\ R!Nothing.jids = {}
    BY DEF R!Nothing, Answers, R!Chats
  <1>9. R!NoCall \in CallRecords
    <2>1. [do |-> "list", jid |-> R!None] \in R!Asks
      BY DEF R!Asks
    <2>2. R!NoLinks \in LinkEntries /\ R!NoGuard \in GuardEntries
      BY <1>6, <1>7 DEF LinkFact, GuardFact
    <2> QED BY <1>8, <2>1, <2>2 DEF R!NoCall, CallRecords, ReadPcs
  <1>10. /\ R!NoCall.pc = "idle" /\ R!NoCall.began = 0 /\ R!NoCall.links = R!NoLinks /\ R!NoCall.guard = R!NoGuard
         /\ R!NoCall.answer = R!Nothing
    BY DEF R!NoCall
  <1>11. R!NoCall.answer.to # R!Stranger
    BY <1>8, <1>10, IdsDiffer
  <1>12. CallFact(R!NoCall, rows, acc)
    BY <1>5, <1>6, <1>7, <1>8, <1>9, <1>10, <1>11 DEF CallFact, Whole, Sent
  <1> QED BY <1>6, <1>7, <1>8, <1>10, <1>12

LEMMA ReadStart == R!Init => ReadInv
PROOF
  <1> SUFFICES ASSUME R!Init PROVE ReadInv
    OBVIOUS
  <1>1. /\ account \in Accounts /\ messages = <<>> /\ links = R!NoLinks /\ linking = R!Idle
        /\ guard = R!NoGuard /\ building = R!Idle /\ asked = [c \in Callers |-> R!NoCall]
    BY DEF R!Init
  <1>2. messages \in RowSeqs /\ Len(messages) = 0
    BY <1>1, IdsDiffer DEF RowSeqs
  <1> QED BY <1>1, <1>2, NothingIs DEF ReadInv

-----------------------------------------------------------------------------
(* Reading: what is listed, and what a scope leaves of it. *)

\* Of the indices of some rows one is the last.
LEMMA LastIndex ==
    ASSUME NEW n \in Nat, NEW S \in SUBSET (1 .. n), S # {}
    PROVE  \E i \in S : \A k \in i + 1 .. n : k \notin S
PROOF
  <1> DEFINE T == {x .. n : x \in S}
             O == StrictSubsetOrdering(Nat)
  <1>1. T \subseteq FiniteSubsetsOf(Nat) /\ T # {}
    <2>1. \A x \in S : x .. n \in SUBSET Nat /\ IsFiniteSet(x .. n)
      BY FS_Interval
    <2> QED BY <2>1 DEF FiniteSubsetsOf
  <1>2. IsWellFoundedOn(O, FiniteSubsetsOf(Nat))
    BY FS_StrictSubsetOrderingWellFounded
  <1>3. \E t \in T : \A u \in T : ~(<<u, t>> \in O)
    <2> HIDE DEF T, O
    <2> QED BY <1>1, <1>2, WFMin
  <1>4. PICK i \in S : \A k \in S : ~(<<k .. n, i .. n>> \in O)
    BY <1>3
  <1>5. ASSUME NEW k \in i + 1 .. n, k \in S PROVE FALSE
    <2>1. k .. n \subseteq i .. n /\ i \in i .. n /\ i \notin k .. n
      BY <1>5
    <2>2. k .. n \in SUBSET Nat /\ i .. n \in SUBSET Nat
      BY <1>5
    <2> QED BY <1>4, <1>5, <2>1, <2>2 DEF StrictSubsetOrdering
  <1> QED BY <1>5

\* Reading counts as this module does.
LEMMA CountsAlike == \A S : R!Cardinality(S) = Cardinality(S)
PROOF
  BY DEF R!Cardinality, Cardinality

\* Where the messages are a value of the model's.
LEMMA StoredIs ==
    ASSUME messages \in RowSeqs, NEW n \in 0 .. Len(messages)
    PROVE  /\ R!First(n) = FirstOf(messages, n) /\ R!LidRows(n) = LidRowsOf(messages, n)
           /\ R!LidLocalParts(n) = NamedOf(messages, n)
           /\ ChatsOf(messages, n) \subseteq R!Chats /\ NamedOf(messages, n) \subseteq Lids
           /\ LinkFact(R!ShapeLinks(n), messages)
PROOF
  <1>1. n \in Nat /\ Len(messages) \in Nat
    BY DEF RowSeqs
  <1>2. R!First(n) = FirstOf(messages, n)
    BY DEF R!First, FirstOf
  <1>3. R!LidRows(n) = LidRowsOf(messages, n) /\ R!LidLocalParts(n) = NamedOf(messages, n)
    BY <1>2 DEF R!LidRows, LidRowsOf, R!LidLocalParts, NamedOf
  <1>4. \A m \in FirstOf(messages, n) : m.chat \in R!Chats /\ m.names \subseteq Lids
    BY <1>1, RowIs DEF FirstOf
  <1>5. LinkFact(R!ShapeLinks(n), messages)
    <2>1. PICK pairs : pairs = PairsOf(messages, n)
      OBVIOUS
    <2>2. PICK count : count = Cardinality(UnlinkedOf(messages, n))
      OBVIOUS
    <2>3. R!ShapeLinks(n) = [pairs |-> pairs, known |-> TRUE, seen |-> n, fresh |-> TRUE, unlinked |-> count]
      <3> DEFINE Q == R!Linked({e \in R!LidRows(n) : e[2] \in Phones})
                 D == {e[1] : e \in R!LidRows(n)} \ {e[1] : e \in Q}
      <3>1. R!ShapeLinks(n) = [pairs |-> Q, known |-> TRUE, seen |-> n, fresh |-> TRUE, unlinked |-> R!Cardinality(D)]
        BY DEF R!ShapeLinks
      <3>2. Q = pairs
        BY <1>3, <2>1 DEF PairsOf
      <3>3. D = UnlinkedOf(messages, n)
        BY <1>3, <2>1, <3>2 DEF UnlinkedOf
      <3> HIDE DEF Q, D
      <3> QED BY <2>2, <3>1, <3>2, <3>3, CountsAlike
    <2>4. pairs \subseteq Lids \X Phones /\ count \in Nat
      BY <1>1, <2>1, <2>2, PairsAre, FirstFinite, FS_CardinalityType DEF OneToOne
    <2> QED BY <1>1, <2>1, <2>2, <2>3, <2>4 DEF LinkFact, LinkEntries
  <1> QED BY <1>2, <1>3, <1>4, <1>5 DEF ChatsOf, NamedOf

LEMMA LinksAreOneToOne == ASSUME NEW l, NEW rows, Len(rows) \in Nat, LinkFact(l, rows) PROVE OneToOne(l.pairs)
PROOF
  BY PairsAre DEF LinkFact

\* A row of the listing is of an id that others are listed under, and has the partner's chat
\* when that was stored.
LEMMA ActivityIs ==
    ASSUME messages \in RowSeqs, NEW l, OneToOne(l.pairs), NEW item \in R!Activity(l, Len(messages))
    PROVE  /\ item \in ListRows /\ Listed(item) /\ R!Canonical(l, item.jid) = item.jid
           /\ item.jids = {item.jid} \cup (R!Partner(l, item.jid) \cap ChatsOf(messages, Len(messages)))
           /\ item.jid \in Phones => R!Partner(l, item.jid) = {}
PROOF
  <1>1. PICK n \in Nat : n = Len(messages)
    BY DEF RowSeqs
  <1>2. PICK stored : stored = ChatsOf(messages, n)
    OBVIOUS
  <1> DEFINE Stored == {m.chat : m \in R!First(n)}
             Of(jid) == {j \in Stored : R!Canonical(l, j) = jid}
             Newest(jid) == CHOOSE i \in 1 .. n : messages[i].chat \in Of(jid)
                                /\ \A k \in i + 1 .. n : messages[k].chat \notin Of(jid)
  <1>3. /\ stored \subseteq R!Chats /\ IsFiniteSet(stored) /\ stored = Stored
        /\ \A jid : Of(jid) = {j \in stored : R!Canonical(l, j) = jid}
    BY <1>1, <1>2, StoredIs, FirstFinite DEF ChatsOf
  <1>4. PICK j \in stored :
           item = [jid |-> R!Canonical(l, j), jids |-> {R!Canonical(l, j)} \cup Of(R!Canonical(l, j)),
                   newest |-> messages[Newest(R!Canonical(l, j))].chat, phone |-> {}, hidden |-> 0]
    <2>1. item \in R!Activity(l, n)
      BY <1>1
    <2>2. PICK jid \in {R!Canonical(l, j) : j \in Stored} :
             item = [jid |-> jid, jids |-> {jid} \cup Of(jid), newest |-> messages[Newest(jid)].chat,
                     phone |-> {}, hidden |-> 0]
      BY <2>1 DEF R!Activity
    <2> HIDE DEF Of, Newest
    <2> QED BY <1>3, <2>2
  <1>5. PICK jid : jid = R!Canonical(l, j)
    OBVIOUS
  <1>6. j \in R!Chats /\ jid \in R!Chats /\ (jid \in Phones => R!Partner(l, jid) = {}) /\ R!Canonical(l, jid) = jid
    BY <1>3, <1>5, CanonicalIs
  <1>7. \A o \in stored : R!Canonical(l, o) = jid <=> o = jid \/ o \in R!Partner(l, jid)
    <2> TAKE o \in stored
    <2>1. o \in R!Chats
      BY <1>3
    <2>2. R!Canonical(l, o) = jid /\ o # jid => o \in R!Partner(l, jid)
      <3>1. R!Canonical(l, o) # o => R!Canonical(l, o) \in R!Partner(l, o)
        BY <2>1, CanonicalIs
      <3>2. jid \in R!Partner(l, o) => R!Partner(l, jid) = {o}
        BY <2>1, PartnerIs
      <3> QED BY <3>1, <3>2
    <2>3. o \in R!Partner(l, jid) => R!Canonical(l, o) = jid
      BY <1>6, CanonicalIs
    <2> QED BY <1>6, <2>2, <2>3
  <1>8. {jid} \cup Of(jid) = {jid} \cup (R!Partner(l, jid) \cap stored)
    BY <1>3, <1>7
  <1>9. messages[Newest(jid)].chat \in Of(jid)
    <2>1. PICK S : S = {i \in 1 .. n : messages[i].chat \in Of(jid)}
      OBVIOUS
    <2>2. \E i \in 1 .. n : messages[i].chat = j
      BY <1>1, <1>3, StoredIs DEF FirstOf
    <2>3. j \in Of(jid)
      BY <1>3, <1>5
    <2>4. S \in SUBSET (1 .. n) /\ S # {}
      BY <2>1, <2>2, <2>3
    <2>5. PICK i \in S : \A k \in i + 1 .. n : k \notin S
      BY <2>4, LastIndex
    <2>6. i \in 1 .. n /\ messages[i].chat \in Of(jid) /\ \A k \in i + 1 .. n : messages[k].chat \notin Of(jid)
      <3>1. i \in 1 .. n /\ messages[i].chat \in Of(jid)
        BY <2>1
      <3>2. \A k \in i + 1 .. n : k \in 1 .. n
        BY <3>1
      <3> QED BY <2>1, <2>5, <3>1, <3>2
    <2> HIDE DEF Of
    <2> QED BY <2>6
  <1>10. Of(jid) \subseteq stored /\ R!Partner(l, jid) \subseteq R!Chats /\ IsFiniteSet(R!Partner(l, jid))
    BY <1>3, <1>6, PartnerIs
  <1>11. \A o \in {jid} \cup (R!Partner(l, jid) \cap stored) : o \in Lids => o = jid
    <2>1. jid \in Lids => \A o \in R!Partner(l, jid) : o \in Phones
      BY <1>6, PartnerIs, IdsDiffer
    <2>2. jid \notin Lids => R!Partner(l, jid) = {}
      <3>1. jid = R!Group => R!Partner(l, jid) = {}
        BY <1>6, PartnerIs, IdsDiffer
      <3> QED BY <1>6, <3>1, IdsDiffer
    <2> QED BY <2>1, <2>2, IdsDiffer
  <1>12. IsFiniteSet({jid} \cup (R!Partner(l, jid) \cap stored))
    <2>1. IsFiniteSet(R!Partner(l, jid) \cap stored)
      BY <1>10, FS_Subset
    <2>2. IsFiniteSet((R!Partner(l, jid) \cap stored) \cup {jid})
      BY <2>1, FS_AddElement
    <2>3. (R!Partner(l, jid) \cap stored) \cup {jid} = {jid} \cup (R!Partner(l, jid) \cap stored)
      OBVIOUS
    <2> QED BY <2>2, <2>3
  <1>13. PICK newest : newest = messages[Newest(jid)].chat
    OBVIOUS
  <1>14. newest \in {jid} \cup Of(jid) /\ newest \in stored
    BY <1>9, <1>10, <1>13
  <1>15. PICK jids : jids = {jid} \cup Of(jid)
    OBVIOUS
  <1>16. item = [jid |-> jid, jids |-> jids, newest |-> newest, phone |-> {}, hidden |-> 0]
    BY <1>4, <1>5, <1>13, <1>15
  <1>17. jids = {jid} \cup (R!Partner(l, jid) \cap stored) /\ jids \subseteq R!Chats /\ newest \in jids /\ newest \in R!Chats
    BY <1>3, <1>6, <1>8, <1>14, <1>15
  <1> HIDE DEF Of, Newest
  <1>18. item \in ListRows
    BY <1>6, <1>16, <1>17 DEF ListRows
  <1>19. Listed(item)
    BY <1>11, <1>12, <1>16, <1>17 DEF Listed
  <1> QED BY <1>1, <1>2, <1>6, <1>16, <1>17, <1>18, <1>19

\* A row that is cut: what it shows, and what it leaves out.
LEMMA CutIs ==
    ASSUME NEW item \in ListRows, IsFiniteSet(item.jids), item.jids \cap account.scope # {}
    PROVE  /\ R!Cut(item) \in ListRows
           /\ R!Cut(item).jids = item.jids \cap account.scope /\ R!Cut(item).jid \in R!Cut(item).jids
           /\ item.jid \in account.scope /\ item.jid \in item.jids => R!Cut(item).jid = item.jid
           /\ R!Cut(item).newest = R!None
           /\ R!Cut(item).phone = IF R!Cut(item).jid \in Lids THEN item.phone ELSE {}
           /\ R!Cut(item).hidden = Cardinality(item.jids \ account.scope)
PROOF
  <1> DEFINE Keep == item.jids \cap account.scope
             Jid == IF item.jid \in Keep THEN item.jid ELSE CHOOSE j \in Keep : TRUE
  <1>1. R!Cut(item) = [jid |-> Jid, jids |-> Keep, newest |-> R!None, hidden |-> R!Cardinality(item.jids \ Keep),
                       phone |-> IF Jid \in Lids THEN item.phone ELSE {}]
    BY DEF R!Cut, R!CutRow
  <1>2. Jid \in Keep /\ (item.jid \in Keep => Jid = item.jid)
    OBVIOUS
  <1>3. item.jids \ Keep = item.jids \ account.scope
    OBVIOUS
  <1>4. PICK count : count = Cardinality(item.jids \ account.scope)
    OBVIOUS
  <1>5. count \in Nat
    BY <1>4, FS_Subset, FS_CardinalityType
  <1>6. R!Cardinality(item.jids \ Keep) = count
    BY <1>3, <1>4, CountsAlike
  <1>7. PICK jid : jid = Jid
    OBVIOUS
  <1>8. Keep \subseteq R!Chats /\ item.phone \subseteq Phones
    BY DEF ListRows
  <1>9. R!Cut(item) = [jid |-> jid, jids |-> Keep, newest |-> R!None, hidden |-> count,
                       phone |-> IF jid \in Lids THEN item.phone ELSE {}]
    BY <1>1, <1>6, <1>7
  <1>10. jid \in Keep /\ (item.jid \in Keep => jid = item.jid)
    BY <1>2, <1>7
  <1>11. PICK keep : keep = Keep
    OBVIOUS
  <1> HIDE DEF Jid, Keep
  <1>12. R!Cut(item) \in ListRows
    BY <1>5, <1>8, <1>9, <1>10 DEF ListRows
  <1>13. item.jid \in account.scope /\ item.jid \in item.jids => jid = item.jid
    BY <1>10 DEF Keep
  <1>14. Keep = item.jids \cap account.scope
    BY DEF Keep
  <1> QED BY <1>4, <1>9, <1>10, <1>12, <1>13, <1>14

\* What a scope leaves of a listing shows nothing else, by whatever links the rows are named.
LEMMA FilterShows ==
    ASSUME messages \in RowSeqs, NEW l, LinkFact(l, messages), NEW found \in SUBSET ListRows,
           \A item \in found : Listed(item), NEW out \in R!FilterChats(R!Named(l, found))
    PROVE  out \in ListRows /\ Shown(out, messages, account.scope)
PROOF
  <1>1. PICK item \in R!Named(l, found) :
           /\ item.jids \cap account.scope # {}
           /\ out = IF item.jids \subseteq account.scope THEN item ELSE R!Cut(item)
    BY DEF R!FilterChats
  <1>2. PICK x \in found : item = [x EXCEPT !.phone = R!PhoneBehind(l, x.jid)]
    BY DEF R!Named
  <1>3. PICK phone : phone = R!PhoneBehind(l, x.jid)
    OBVIOUS
  <1>4. x \in ListRows /\ Listed(x) /\ item = [x EXCEPT !.phone = phone]
    BY <1>2, <1>3
  <1>5. Len(messages) \in Nat /\ l.seen \in 0 .. Len(messages) /\ OneToOne(l.pairs)
    BY LinksAreOneToOne DEF RowSeqs, LinkFact
  <1>6. \A p \in phone : x.jid \in Lids /\ p \in Phones /\ \E m \in FirstOf(messages, Len(messages)) : m.chat = x.jid /\ m.alt = p
    <2> TAKE p \in phone
    <2>1. x.jid \in Lids /\ p \in R!Partner(l, x.jid)
      BY <1>3 DEF R!PhoneBehind
    <2>2. p \in Phones /\ <<x.jid, p>> \in l.pairs
      <3>1. x.jid \in R!Chats
        BY <1>4 DEF ListRows
      <3>2. p \in Phones
        BY <1>5, <2>1, <3>1, PartnerIs, IdsDiffer
      <3>3. <<p, x.jid>> \notin l.pairs
        BY <1>5, <2>1, IdsDiffer DEF OneToOne
      <3> QED BY <1>5, <2>1, <3>1, <3>2, <3>3, PartnerIs
    <2>3. \E m \in FirstOf(messages, l.seen) : m.chat = x.jid /\ m.alt = p
      <3>1. l.seen \in Nat /\ l.pairs = PairsOf(messages, l.seen) /\ <<x.jid, p>>[1] = x.jid /\ <<x.jid, p>>[2] = p
        BY <1>5 DEF LinkFact
      <3> QED BY <2>2, <3>1, PairsAre
    <2>4. FirstOf(messages, l.seen) \subseteq FirstOf(messages, Len(messages))
      BY <1>5 DEF FirstOf
    <2> QED BY <2>1, <2>2, <2>3, <2>4
  <1>7. /\ item \in ListRows /\ item.jid = x.jid /\ item.jids = x.jids /\ item.newest = x.newest /\ item.phone = phone
        /\ IsFiniteSet(item.jids) /\ item.jid \in item.jids /\ item.newest \in item.jids
        /\ \A j \in item.jids \cap Lids : j = item.jid
    BY <1>4, <1>6 DEF ListRows, Listed
  <1>8. CASE item.jids \subseteq account.scope
    <2>1. out = item
      BY <1>1, <1>8
    <2> QED BY <1>6, <1>7, <1>8, <2>1 DEF Shown
  <1>9. CASE ~(item.jids \subseteq account.scope)
    <2>1. out = R!Cut(item)
      BY <1>1, <1>9
    <2>2. /\ out \in ListRows /\ out.jids = item.jids \cap account.scope /\ out.jid \in out.jids /\ out.newest = R!None
          /\ out.phone = IF out.jid \in Lids THEN item.phone ELSE {}
      BY <1>1, <1>7, <2>1, CutIs
    <2>3. \A p \in out.phone : p \in phone /\ out.jid = x.jid
      BY <1>7, <2>2
    <2> QED BY <1>6, <2>2, <2>3 DEF Shown
  <1> QED BY <1>8, <1>9

\* A read that does not say that there may be more covers what the links were read from.
LEMMA ReadIsWhole ==
    ASSUME messages \in RowSeqs, \A i \in 1 .. Len(messages) : messages[i] \in account.messages,
           R!OnePerson(account), NEW l, LinkFact(l, messages), NEW jid \in Lids \cup Phones, ~R!Note(l, jid),
           NEW i \in 1 .. l.seen, NEW k \in 1 .. l.seen, messages[k].chat \in account.same[jid]
    PROVE  messages[k].chat \in R!Expand(l, jid).jids
PROOF
  <1> DEFINE Same == account.same
             Partner == R!Partner(l, jid)
             chat == messages[k].chat
  <1>1. Len(messages) \in Nat /\ l.seen \in 0 .. Len(messages) /\ l.seen \in Nat /\ OneToOne(l.pairs) /\ jid \in R!Chats
    BY LinksAreOneToOne, IdsDiffer DEF RowSeqs, LinkFact
  <1>2. /\ R!Expand(l, jid).jids = {jid} \cup (Partner \cap account.scope)
        /\ R!Expand(l, jid).hidden = Cardinality(Partner \ account.scope)
    BY CountsAlike DEF R!Expand
  <1>3. SUFFICES ASSUME chat # jid PROVE chat \in R!Expand(l, jid).jids
    BY <1>2
  <1>4. /\ \A o \in Same[jid] \ {jid} : o \in Lids \cup Phones /\ Same[o] = Same[jid] /\ (jid \in Lids) # (o \in Lids)
        /\ jid \in Same[jid]
    BY DEF R!OnePerson
  <1>5. chat \in Lids \cup Phones /\ Same[chat] = Same[jid] /\ (jid \in Lids) # (chat \in Lids)
    BY <1>3, <1>4
  <1>6. \A e \in l.pairs : e[2] \in Same[e[1]] /\ e[1] \in Lids /\ e[2] \in Phones
    <2> TAKE e \in l.pairs
    <2>1. PICK m \in FirstOf(messages, l.seen) : m.chat = e[1] /\ m.alt = e[2]
      BY <1>1, PairsAre DEF LinkFact
    <2>2. PICK n \in 1 .. l.seen : m = messages[n]
      BY DEF FirstOf
    <2>3. m \in account.messages
      BY <1>1, <2>2
    <2>4. e[1] \in Lids /\ e[2] \in Phones
      BY <1>1 DEF OneToOne
    <2> QED BY <2>1, <2>3, <2>4 DEF R!OnePerson
  <1>7. \A o \in Partner : o \in Same[jid] \ {jid}
    <2> TAKE o \in Partner
    <2>1. <<jid, o>> \in l.pairs \/ <<o, jid>> \in l.pairs
      BY <1>1, PartnerIs
    <2>2. o # jid
      BY <1>1, PartnerIs
    <2>3. CASE <<jid, o>> \in l.pairs
      <3>1. <<jid, o>>[1] = jid /\ <<jid, o>>[2] = o
        OBVIOUS
      <3> QED BY <1>6, <2>2, <2>3, <3>1
    <2>4. CASE <<o, jid>> \in l.pairs
      <3>1. <<o, jid>>[1] = o /\ <<o, jid>>[2] = jid
        OBVIOUS
      <3>2. jid \in Same[o] /\ o \in Lids
        BY <1>6, <2>4, <3>1
      <3>3. o \in Same[o] /\ Same[jid] = Same[o]
        BY <2>2, <3>2 DEF R!OnePerson
      <3> QED BY <2>2, <3>3
    <2> QED BY <2>1, <2>3, <2>4
  <1>8. \A o \in Partner : o = chat
    <2> SUFFICES ASSUME NEW o \in Partner, o # chat PROVE FALSE
      OBVIOUS
    <2>1. o \in Same[chat] \ {chat} /\ (jid \in Lids) # (o \in Lids)
      BY <1>4, <1>5, <1>7
    <2>2. (chat \in Lids) # (o \in Lids)
      BY <1>5, <2>1 DEF R!OnePerson
    <2> QED BY <1>5, <2>1, <2>2
  <1>9. CASE Cardinality(R!Expand(l, jid).jids) # 1
    <2>1. R!Expand(l, jid).jids # {jid}
      BY <1>9, FS_Singleton
    <2> QED BY <1>2, <1>8, <2>1
  <1>10. CASE Cardinality(R!Expand(l, jid).jids) = 1
    <2>1. ~(R!Expand(l, jid).hidden > 0) /\ jid \notin Lids /\ ~(l.unlinked > 0)
      <3>1. jid # R!Group
        BY IdsDiffer
      <3> QED BY <1>10, <3>1, CountsAlike DEF R!Note, R!LinkNote
    <2>2. Partner \ account.scope = {}
      <3>1. IsFiniteSet(Partner \ account.scope)
        BY <1>1, PartnerIs, FS_Subset
      <3>2. Cardinality(Partner \ account.scope) = 0
        BY <1>2, <2>1, <3>1, FS_CardinalityType
      <3> QED BY <3>1, <3>2, FS_EmptySet
    <2>3. UnlinkedOf(messages, l.seen) = {}
      <3>1. IsFiniteSet(UnlinkedOf(messages, l.seen))
        BY <1>1, FirstFinite
      <3>2. Cardinality(UnlinkedOf(messages, l.seen)) = 0
        BY <2>1, <3>1, FS_CardinalityType DEF LinkFact
      <3> QED BY <3>1, <3>2, FS_EmptySet
    <2>4. chat \in Lids /\ jid \in Phones
      BY <1>5, <2>1
    <2>5. \E e \in LidRowsOf(messages, l.seen) : e[1] = chat
      <3>1. messages[k] \in FirstOf(messages, l.seen)
        BY DEF FirstOf
      <3>2. <<chat, messages[k].alt>> \in LidRowsOf(messages, l.seen) /\ <<chat, messages[k].alt>>[1] = chat
        BY <2>4, <3>1 DEF LidRowsOf
      <3> QED BY <3>2
    <2>6. PICK e \in l.pairs : e[1] = chat
      BY <2>3, <2>5 DEF UnlinkedOf, LinkFact
    <2>7. e = <<chat, e[2]>> /\ e[2] \in Same[chat] /\ e[2] \in Phones
      BY <1>1, <1>6, <2>6 DEF OneToOne
    <2>8. e[2] = jid
      BY <1>4, <1>5, <2>4, <2>7, IdsDiffer
    <2>9. chat \in Partner
      <3>1. <<chat, jid>> \in l.pairs
        BY <2>6, <2>7, <2>8
      <3> HIDE DEF chat
      <3> QED BY <1>1, <3>1, PartnerIs
    <2> QED BY <1>2, <2>2, <2>9
  <1> QED BY <1>9, <1>10

\* What a scope leaves of a listing is what reading and labelling make of the same links.
LEMMA ListedAgrees ==
    ASSUME messages \in RowSeqs, NEW l, OneToOne(l.pairs),
           NEW out \in R!FilterChats(R!Named(l, R!Activity(l, Len(messages)))),
           NEW stored, stored = ChatsOf(messages, Len(messages))
    PROVE  /\ R!Expand(l, out.jid).jids \cap stored = out.jids \cap stored
           /\ out.hidden > 0 => R!Expand(l, out.jid).hidden = out.hidden
           /\ \A j \in out.jids : R!Display(l, j) = out.jid
PROOF
  <1> DEFINE scope == account.scope
  <1>1. PICK item \in R!Named(l, R!Activity(l, Len(messages))) :
           /\ item.jids \cap scope # {}
           /\ out = IF item.jids \subseteq scope THEN item ELSE R!Cut(item)
    BY DEF R!FilterChats
  <1>2. PICK x \in R!Activity(l, Len(messages)) : item = [x EXCEPT !.phone = R!PhoneBehind(l, x.jid)]
    BY DEF R!Named
  <1>3. PICK phone : phone = R!PhoneBehind(l, x.jid)
    OBVIOUS
  <1>4. PICK c : c = x.jid
    OBVIOUS
  <1>5. /\ x \in ListRows /\ Listed(x) /\ R!Canonical(l, c) = c
        /\ x.jids = {c} \cup (R!Partner(l, c) \cap stored) /\ (c \in Phones => R!Partner(l, c) = {})
    BY <1>4, ActivityIs
  <1>6. c \in R!Chats /\ x.hidden = 0 /\ IsFiniteSet(x.jids)
    BY <1>4, <1>5 DEF ListRows, Listed
  <1>7. phone \subseteq Phones
    <2>1. c \in Lids => R!Partner(l, c) \subseteq Phones
      BY <1>6, PartnerIs, IdsDiffer
    <2> QED BY <1>3, <1>4, <2>1 DEF R!PhoneBehind
  <1>8. item \in ListRows /\ item.jid = c /\ item.jids = {c} \cup (R!Partner(l, c) \cap stored) /\ item.hidden = 0
    BY <1>2, <1>3, <1>4, <1>5, <1>6, <1>7 DEF ListRows
  <1>9. \A o \in R!Partner(l, c) : /\ R!Partner(l, c) = {o} /\ R!Partner(l, o) = {c} /\ o # c /\ R!Canonical(l, o) = c
    BY <1>5, <1>6, PartnerIs, CanonicalIs
  <1>10. \A j : /\ R!Expand(l, j).jids = {j} \cup (R!Partner(l, j) \cap scope)
                /\ R!Expand(l, j).hidden = Cardinality(R!Partner(l, j) \ scope)
    BY CountsAlike DEF R!Expand
  <1>11. \A j : R!Canonical(l, j) = c => R!Display(l, j) = IF c \in scope THEN c ELSE j
    BY DEF R!Display, R!InScope
  <1>12. CASE item.jids \subseteq scope
    <2>1. out = item /\ c \in scope
      BY <1>1, <1>8, <1>12
    <2>2. R!Partner(l, c) \cap stored \subseteq scope
      BY <1>8, <1>12
    <2>3. \A j \in out.jids : R!Canonical(l, j) = c
      BY <1>5, <1>8, <1>9, <2>1
    <2> QED BY <1>8, <1>10, <1>11, <2>1, <2>2, <2>3
  <1>13. CASE ~(item.jids \subseteq scope)
    <2>1. out = R!Cut(item)
      BY <1>1, <1>13
    <2>2. /\ out.jids = item.jids \cap scope /\ out.jid \in out.jids
          /\ c \in scope => out.jid = c
          /\ out.hidden = Cardinality(item.jids \ scope)
      <3>1. IsFiniteSet(item.jids) /\ c \in item.jids
        BY <1>4, <1>5, <1>6, <1>8
      <3> QED BY <1>1, <1>8, <2>1, <3>1, CutIs
    <2>3. PICK o \in R!Partner(l, c) : o \in stored
      <3>1. R!Partner(l, c) \cap stored # {}
        <4> SUFFICES ASSUME R!Partner(l, c) \cap stored = {} PROVE FALSE
          OBVIOUS
        <4>1. item.jids = {c}
          BY <1>8
        <4> QED BY <1>1, <1>13, <4>1
      <3> QED BY <3>1
    <2>4. item.jids = {c, o} /\ R!Partner(l, c) = {o} /\ R!Partner(l, o) = {c} /\ o # c /\ R!Canonical(l, o) = c
      BY <1>8, <1>9, <2>3
    <2>5. CASE c \in scope
      <3>1. o \notin scope /\ out.jids = {c} /\ out.jid = c
        BY <1>13, <2>2, <2>4, <2>5
      <3>2. item.jids \ scope = {o} /\ R!Partner(l, c) \ scope = {o} /\ R!Partner(l, c) \cap scope = {}
        BY <2>4, <2>5, <3>1
      <3>3. R!Expand(l, c).jids = {c} /\ R!Expand(l, c).hidden = out.hidden
        BY <1>10, <2>2, <3>2
      <3> QED BY <1>5, <1>11, <2>5, <3>1, <3>3
    <2>6. CASE c \notin scope
      <3>1. o \in scope /\ out.jids = {o} /\ out.jid = o
        BY <1>1, <2>2, <2>4, <2>6
      <3>2. item.jids \ scope = {c} /\ R!Partner(l, o) \ scope = {c} /\ R!Partner(l, o) \cap scope = {}
        BY <2>4, <2>6, <3>1
      <3>3. R!Expand(l, o).jids = {o} /\ R!Expand(l, o).hidden = out.hidden
        BY <1>10, <2>2, <3>2
      <3> QED BY <1>11, <2>4, <2>6, <3>1, <3>3
    <2> QED BY <2>5, <2>6
  <1> QED BY <1>12, <1>13

-----------------------------------------------------------------------------
(* Reading: the steps. *)

\* The links come to a call that waits for them.
LEMMA LinksCome ==
    ASSUME ReadInv, NEW l, LinkFact(l, messages), NEW r, CallFact(r, messages, account), NEW s, s = R!WithLinks(r, l)
    PROVE  CallFact(s, messages, account)
PROOF
  <1>1. messages \in RowSeqs /\ account \in Accounts /\ r \in CallRecords /\ l \in LinkEntries
    BY DEF ReadInv, CallFact, LinkFact
  <1>2. R!Nothing \in Answers /\ R!Nothing.to = R!None /\ R!Nothing.shown = {} /\ R!Nothing.jids = {}
    BY DEF R!Nothing, Answers, R!Chats
  <1>3. R!None # R!Stranger
    BY IdsDiffer
  <1>4. CASE r.pc = "links" /\ r.ask.do = "list"
    <2>1. s = [r EXCEPT !.pc = "chats", !.links = l]
      BY <1>4 DEF R!WithLinks
    <2>2. /\ s \in CallRecords /\ s.pc = "chats" /\ s.links = l /\ s.ask = r.ask /\ s.began = r.began
          /\ s.found = r.found /\ s.guard = r.guard /\ s.blind = r.blind /\ s.answer = r.answer
      BY <1>1, <2>1 DEF CallRecords, ReadPcs
    <2>3. Whole(s, messages, account.same)
      BY <1>4, <2>2 DEF Whole
    <2> QED BY <1>3, <1>4, <2>2, <2>3 DEF CallFact, Sent
  <1>5. CASE r.pc = "links" /\ r.ask.do = "read"
    <2>1. PICK a : a = IF R!InScope(r.ask.jid)
                       THEN [R!Nothing EXCEPT !.jids = R!Expand(l, r.ask.jid).jids,
                                !.hidden = R!Expand(l, r.ask.jid).hidden, !.note = R!Note(l, r.ask.jid)]
                       ELSE R!Nothing
      OBVIOUS
    <2>2. s = [r EXCEPT !.pc = "end", !.links = l, !.answer = a]
      BY <1>5, <2>1 DEF R!WithLinks
    <2>3. r.ask \in account.asks /\ r.ask.jid \in R!Chats
      <3>1. r.ask \in account.asks /\ r.ask \in R!Asks
        BY <1>1, <1>5 DEF CallFact, CallRecords
      <3> QED BY <1>5, <3>1 DEF R!Asks
    <2>4. /\ a \in Answers /\ a.shown = {} /\ a.to = R!None
          /\ a.jids # {} => a.jids = R!Expand(l, r.ask.jid).jids /\ a.note = R!Note(l, r.ask.jid)
      <3>1. PICK jids : jids = R!Expand(l, r.ask.jid).jids
        OBVIOUS
      <3>2. PICK hidden : hidden = R!Expand(l, r.ask.jid).hidden
        OBVIOUS
      <3>3. PICK note \in BOOLEAN : note = R!Note(l, r.ask.jid)
        BY DEF R!Note, R!LinkNote
      <3>4. OneToOne(l.pairs)
        BY <1>1, LinksAreOneToOne DEF RowSeqs
      <3>5. R!Partner(l, r.ask.jid) \subseteq R!Chats /\ IsFiniteSet(R!Partner(l, r.ask.jid))
        BY <2>3, <3>4, PartnerIs
      <3>6. jids \subseteq R!Chats
        BY <2>3, <3>1, <3>5 DEF R!Expand
      <3>7. hidden \in Nat
        BY <3>2, <3>5, FS_Subset, FS_CardinalityType, CountsAlike DEF R!Expand
      <3>8. a = IF R!InScope(r.ask.jid) THEN [R!Nothing EXCEPT !.jids = jids, !.hidden = hidden, !.note = note]
                ELSE R!Nothing
        BY <2>1, <3>1, <3>2, <3>3
      <3> QED BY <1>2, <3>1, <3>3, <3>6, <3>7, <3>8 DEF Answers
    <2>5. /\ s \in CallRecords /\ s.pc = "end" /\ s.links = l /\ s.ask = r.ask /\ s.began = r.began
          /\ s.found = r.found /\ s.guard = r.guard /\ s.blind = r.blind /\ s.answer = a
      BY <1>1, <2>2, <2>4 DEF CallRecords, ReadPcs
    <2>6. Whole(s, messages, account.same)
      <3> SUFFICES ASSUME a.jids # {}, ~a.note, r.ask.jid # R!Group, NEW i \in 1 .. l.seen, NEW k \in 1 .. l.seen,
                          messages[k].chat \in account.same[r.ask.jid]
                   PROVE  messages[k].chat \in a.jids
        BY <2>5 DEF Whole
      <3>1. R!OnePerson(account)
        BY <1>1, <1>5, <2>3, ReadingAssumed DEF R!Assumption
      <3>2. r.ask.jid \in Lids \cup Phones
        BY <2>3, IdsDiffer
      <3>3. \A n \in 1 .. Len(messages) : messages[n] \in account.messages
        BY DEF ReadInv
      <3> QED BY <1>1, <2>4, <3>1, <3>2, <3>3, ReadIsWhole
    <2> QED BY <1>3, <1>5, <2>3, <2>4, <2>5, <2>6 DEF CallFact, Sent
  <1>6. CASE r.pc = "links" /\ r.ask.do \notin {"list", "read"}
    <2>1. s = [r EXCEPT !.pc = "end"]
      BY <1>6 DEF R!WithLinks
    <2>2. /\ s \in CallRecords /\ s.pc = "end" /\ s.links = r.links /\ s.ask = r.ask /\ s.began = r.began
          /\ s.found = r.found /\ s.guard = r.guard /\ s.blind = r.blind /\ s.answer = r.answer
      BY <1>1, <2>1 DEF CallRecords, ReadPcs
    <2>3. Whole(s, messages, account.same)
      BY <1>6, <2>2 DEF Whole
    <2> QED BY <1>3, <1>6, <2>2, <2>3 DEF CallFact, Sent
  <1>7. CASE r.pc = "names"
    <2>1. PICK shown : shown = R!FilterChats(R!Named(l, r.found))
      OBVIOUS
    <2>2. PICK a : a = [R!Nothing EXCEPT !.shown = shown]
      OBVIOUS
    <2>3. s = [r EXCEPT !.pc = "end", !.answer = a]
      BY <1>7, <2>1, <2>2 DEF R!WithLinks
    <2>4. shown \subseteq ListRows /\ \A item \in shown : Shown(item, messages, account.scope)
      <3>1. r.found \in SUBSET ListRows /\ \A item \in r.found : Listed(item)
        BY <1>1, <1>7 DEF CallFact, CallRecords
      <3> QED BY <1>1, <2>1, <3>1, FilterShows
    <2>5. a \in Answers /\ a.shown = shown /\ a.jids = {} /\ a.to = R!None
      BY <1>2, <2>2, <2>4 DEF Answers
    <2>6. /\ s \in CallRecords /\ s.pc = "end" /\ s.links = r.links /\ s.ask = r.ask /\ s.began = r.began
          /\ s.found = r.found /\ s.guard = r.guard /\ s.blind = r.blind /\ s.answer = a
      BY <1>1, <2>3, <2>5 DEF CallRecords, ReadPcs
    <2>7. Whole(s, messages, account.same)
      BY <2>5, <2>6 DEF Whole
    <2> QED BY <1>3, <1>7, <2>4, <2>5, <2>6, <2>7 DEF CallFact, Sent
  <1>8. CASE r.pc \notin {"links", "names"}
    <2>1. s = r
      BY <1>8 DEF R!WithLinks
    <2> QED BY <2>1
  <1> QED BY <1>4, <1>5, <1>6, <1>7, <1>8

\* The known LIDs come to a send that waits for them.
LEMMA GuardComes ==
    ASSUME ReadInv, NEW g, GuardFact(g, messages), NEW r, CallFact(r, messages, account), NEW s, s = R!WithGuard(r, g)
    PROVE  CallFact(s, messages, account)
PROOF
  <1>1. CASE r.pc # "known"
    <2>1. s = r
      BY <1>1 DEF R!WithGuard
    <2> QED BY <2>1
  <1>2. CASE r.pc = "known"
    <2>1. PICK pc : pc = IF r.ask.jid \in g.lids THEN "end" ELSE IF g.known /\ g.recent THEN "allowed" ELSE "recent"
      OBVIOUS
    <2>2. s = [r EXCEPT !.guard = g, !.pc = pc] /\ pc \in ReadPcs
      BY <1>2, <2>1 DEF R!WithGuard, ReadPcs
    <2>3. r \in CallRecords /\ g \in GuardEntries /\ messages \in RowSeqs
      BY DEF CallFact, GuardFact, ReadInv
    <2>4. /\ s \in CallRecords /\ s.pc = pc /\ s.links = r.links /\ s.ask = r.ask /\ s.began = r.began
          /\ s.found = r.found /\ s.guard = g /\ s.blind = r.blind /\ s.answer = r.answer
      BY <2>2, <2>3 DEF CallRecords
    <2>5. Whole(s, messages, account.same)
      <3>1. Whole(r, messages, account.same)
        BY DEF CallFact
      <3> QED BY <2>4, <3>1 DEF Whole
    <2>6. pc = "allowed" => Clean(s, messages)
      <3> SUFFICES ASSUME pc = "allowed", NEW i \in 1 .. r.began, r.ask.jid \in messages[i].names
                   PROVE  IF i > g.base THEN ~messages[i].live \/ g.recent ELSE ~g.known
        BY <2>4 DEF Clean
      <3>1. r.ask.jid \notin g.lids /\ g.known /\ g.recent
        BY <2>1
      <3>2. ASSUME ~(i > g.base) PROVE FALSE
        <4>1. i \in 1 .. g.base
          BY <2>3, <3>2 DEF GuardEntries, CallFact, CallRecords
        <4>2. r.ask.jid \in NamedOf(messages, g.base)
          BY <4>1 DEF NamedOf, FirstOf
        <4> QED BY <3>1, <4>2 DEF GuardFact
      <3> QED BY <3>1, <3>2
    <2>7. pc = "recent" => r.ask.jid \notin g.lids
      BY <2>1
    <2>8. pc \in {"end", "allowed", "recent"} /\ r.answer.to = R!None /\ R!None # R!Stranger
      BY <1>2, <2>1, IdsDiffer DEF CallFact
    <2> QED BY <1>2, <2>4, <2>5, <2>6, <2>7, <2>8 DEF CallFact, Sent
  <1> QED BY <1>1, <1>2

\* A step that stores nothing, given what it makes of the entries and the calls.
LEMMA ReadMoves ==
    ASSUME ReadInv, UNCHANGED <<account, messages>>,
           LinkFact(links', messages), linking' \in 0 .. Len(messages) \cup {R!Idle},
           GuardFact(guard', messages), building' \in 0 .. Len(messages) \cup {R!Idle},
           DOMAIN asked' = Callers, \A c \in Callers : CallFact(asked'[c], messages, account)
    PROVE  ReadInv'
PROOF
  BY DEF ReadInv

\* The same of a step of one call.
LEMMA OneMoves ==
    ASSUME ReadInv, NEW c \in Callers, NEW s, asked' = [asked EXCEPT ![c] = s], CallFact(s, messages, account),
           UNCHANGED <<account, messages>>,
           LinkFact(links', messages), linking' \in 0 .. Len(messages) \cup {R!Idle},
           GuardFact(guard', messages), building' \in 0 .. Len(messages) \cup {R!Idle}
    PROVE  ReadInv'
PROOF
  <1>1. DOMAIN asked' = Callers /\ \A d \in Callers : CallFact(asked'[d], messages, account)
    BY DEF ReadInv
  <1> QED BY <1>1, ReadMoves

LEMMA Starts == ASSUME ReadInv, NEW c \in Callers, NEW ask \in account.asks, R!Start(c, ask) PROVE ReadInv'
PROOF
  <1>1. messages \in RowSeqs /\ Len(messages) \in Nat /\ account \in Accounts
    BY DEF ReadInv, RowSeqs
  <1>2. ask \in R!Asks
    BY <1>1, ReadingAssumed DEF R!Assumption
  <1>3. PICK pc : pc = CASE ask.do \in {"list", "read"} -> "links" [] ask.do = "digits" -> "known" [] OTHER -> "allowed"
    OBVIOUS
  <1>4. PICK n : n = Len(messages)
    OBVIOUS
  <1>5. PICK s : s = [R!NoCall EXCEPT !.ask = ask, !.began = n, !.pc = pc]
    OBVIOUS
  <1>6. asked' = [asked EXCEPT ![c] = s] /\ UNCHANGED <<account, messages, links, linking, guard, building>>
    BY <1>3, <1>4, <1>5 DEF R!Start
  <1>7. ask.do \in {"list", "read", "send", "digits"} /\ (pc = "links" <=> ask.do \in {"list", "read"})
        /\ (pc = "known" <=> ask.do = "digits") /\ pc \in {"links", "known", "allowed"}
    <2>1. ask.do \in {"list", "read", "send", "digits"}
      BY <1>2 DEF R!Asks
    <2> QED BY <1>3, <2>1
  <1>8. CallFact(R!NoCall, messages, account) /\ R!NoCall.answer = R!Nothing
        /\ R!Nothing.to = R!None /\ R!Nothing.shown = {} /\ R!Nothing.jids = {} /\ R!None # R!Stranger
    BY <1>1, NothingIs, IdsDiffer
  <1>9. /\ s \in CallRecords /\ s.pc = pc /\ s.ask = ask /\ s.began = n /\ s.links = R!NoCall.links
        /\ s.guard = R!NoCall.guard /\ s.answer = R!Nothing
    <2>1. R!NoCall \in CallRecords /\ n \in Nat /\ pc \in ReadPcs
      BY <1>1, <1>4, <1>7, <1>8 DEF CallFact, ReadPcs
    <2> QED BY <1>2, <1>5, <1>8, <2>1 DEF CallRecords
  <1>10. LinkFact(s.links, messages) /\ GuardFact(s.guard, messages) /\ s.began \in 0 .. Len(messages)
    BY <1>1, <1>4, <1>8, <1>9 DEF CallFact
  <1>11. CallFact(s, messages, account)
    BY <1>7, <1>8, <1>9, <1>10 DEF CallFact, Whole, Sent
  <1> QED BY <1>6, <1>11, OneMoves DEF ReadInv

LEMMA LinksStep == ASSUME ReadInv, NEW c \in Callers, R!Links(c) PROVE ReadInv'
PROOF
  <1>1. UNCHANGED <<account, messages, links, guard, building>> /\ Len(messages) \in Nat
    BY DEF R!Links, ReadInv, RowSeqs
  <1>2. CASE links.fresh
    <2>1. PICK l : l = links
      OBVIOUS
    <2>2. PICK r : r = asked[c]
      OBVIOUS
    <2>3. PICK s : s = R!WithLinks(r, l)
      OBVIOUS
    <2>4. asked' = [asked EXCEPT ![c] = s] /\ UNCHANGED linking
      BY <1>2, <2>1, <2>2, <2>3 DEF R!Links, ReadInv
    <2>5. LinkFact(l, messages) /\ CallFact(r, messages, account)
      BY <2>1, <2>2 DEF ReadInv
    <2>6. CallFact(s, messages, account)
      BY <2>3, <2>5, LinksCome
    <2> QED BY <1>1, <2>4, <2>6, OneMoves DEF ReadInv
  <1>3. CASE ~links.fresh
    <2>1. linking' = Len(messages) /\ asked' = asked
      BY <1>3 DEF R!Links
    <2> QED BY <1>1, <2>1, ReadMoves DEF ReadInv
  <1> QED BY <1>2, <1>3

\* The load in flight settles for everybody who waits for it.
LEMMA LinksSettles ==
    ASSUME ReadInv, NEW l, LinkFact(l, messages), R!LinksSettle(l), UNCHANGED <<account, messages, guard, building>>
    PROVE  ReadInv'
PROOF
  <1>1. links' = l /\ linking' = R!Idle /\ asked' = [c \in Callers |-> R!WithLinks(asked[c], l)]
    BY DEF R!LinksSettle
  <1>2. ASSUME NEW c \in Callers PROVE CallFact(asked'[c], messages, account)
    <2>1. PICK r : r = asked[c]
      OBVIOUS
    <2>2. PICK s : s = R!WithLinks(r, l)
      OBVIOUS
    <2>3. CallFact(r, messages, account)
      BY <2>1 DEF ReadInv
    <2>4. CallFact(s, messages, account)
      BY <2>2, <2>3, LinksCome
    <2>5. asked'[c] = s
      BY <1>1, <2>1, <2>2
    <2> QED BY <2>4, <2>5
  <1> QED BY <1>1, <1>2, ReadMoves DEF ReadInv

LEMMA LinksReads ==
    ASSUME ReadInv, (\E n \in 0 .. Len(messages) : R!LinksRead(n)) \/ R!LinksFail
    PROVE  ReadInv'
PROOF
  <1>1. messages \in RowSeqs
    BY DEF ReadInv
  <1>2. CASE \E n \in 0 .. Len(messages) : R!LinksRead(n)
    <2>1. PICK n \in 0 .. Len(messages) : R!LinksRead(n)
      BY <1>2
    <2>2. PICK l : l = R!ShapeLinks(n)
      OBVIOUS
    <2>3. R!LinksSettle(l) /\ UNCHANGED <<account, messages, guard, building>>
      BY <2>1, <2>2 DEF R!LinksRead
    <2>4. LinkFact(l, messages)
      BY <1>1, <2>2, StoredIs
    <2> QED BY <2>3, <2>4, LinksSettles
  <1>3. CASE R!LinksFail
    <2>1. PICK l : l = [links EXCEPT !.fresh = TRUE]
      OBVIOUS
    <2>2. R!LinksSettle(l) /\ UNCHANGED <<account, messages, guard, building>>
      BY <1>3, <2>1 DEF R!LinksFail
    <2>3. LinkFact(l, messages)
      BY <2>1 DEF ReadInv, LinkFact, LinkEntries
    <2> QED BY <2>2, <2>3, LinksSettles
  <1> QED BY <1>2, <1>3

LEMMA Lists == ASSUME ReadInv, NEW c \in Callers, R!ListRows(c) PROVE ReadInv'
PROOF
  <1>1. PICK r : r = asked[c]
    OBVIOUS
  <1>2. r.pc = "chats" /\ CallFact(r, messages, account) /\ messages \in RowSeqs /\ Len(messages) \in Nat
    BY <1>1 DEF R!ListRows, R!At, ReadInv, RowSeqs
  <1>3. PICK found : found = R!Activity(r.links, Len(messages))
    OBVIOUS
  <1>4. PICK s : s = [r EXCEPT !.pc = "names", !.found = found]
    OBVIOUS
  <1>5. asked' = [asked EXCEPT ![c] = s] /\ UNCHANGED <<account, messages, links, linking, guard, building>>
    BY <1>1, <1>3, <1>4 DEF R!ListRows, ReadInv
  <1>6. found \subseteq ListRows /\ \A item \in found : Listed(item)
    <2>1. OneToOne(r.links.pairs)
      BY <1>2, LinksAreOneToOne DEF CallFact
    <2> QED BY <1>2, <1>3, <2>1, ActivityIs
  <1>7. /\ s \in CallRecords /\ s.pc = "names" /\ s.links = r.links /\ s.ask = r.ask /\ s.began = r.began
        /\ s.found = found /\ s.guard = r.guard /\ s.blind = r.blind /\ s.answer = r.answer
    BY <1>2, <1>4, <1>6 DEF CallFact, CallRecords, ReadPcs
  <1>8. Whole(s, messages, account.same)
    <2>1. Whole(r, messages, account.same)
      BY <1>2 DEF CallFact
    <2> QED BY <1>7, <2>1 DEF Whole
  <1>9. CallFact(s, messages, account)
    BY <1>2, <1>6, <1>7, <1>8, IdsDiffer DEF CallFact, Sent
  <1> QED BY <1>5, <1>9, OneMoves DEF ReadInv

LEMMA KnownStep == ASSUME ReadInv, NEW c \in Callers, R!KnownLids(c) PROVE ReadInv'
PROOF
  <1>1. UNCHANGED <<account, messages, links, linking, guard>> /\ Len(messages) \in Nat
    BY DEF R!KnownLids, ReadInv, RowSeqs
  <1>2. CASE guard.fresh
    <2>1. PICK g : g = guard
      OBVIOUS
    <2>2. PICK r : r = asked[c]
      OBVIOUS
    <2>3. PICK s : s = R!WithGuard(r, g)
      OBVIOUS
    <2>4. asked' = [asked EXCEPT ![c] = s] /\ UNCHANGED building
      BY <1>2, <2>1, <2>2, <2>3 DEF R!KnownLids, ReadInv
    <2>5. GuardFact(g, messages) /\ CallFact(r, messages, account)
      BY <2>1, <2>2 DEF ReadInv
    <2>6. CallFact(s, messages, account)
      BY <2>3, <2>5, GuardComes
    <2> QED BY <1>1, <2>4, <2>6, OneMoves DEF ReadInv
  <1>3. CASE ~guard.fresh
    <2>1. building' = Len(messages) /\ asked' = asked
      BY <1>3 DEF R!KnownLids
    <2> QED BY <1>1, <2>1, ReadMoves DEF ReadInv
  <1> QED BY <1>2, <1>3

LEMMA BuildSettles ==
    ASSUME ReadInv, NEW g, GuardFact(g, messages), R!Build(g), UNCHANGED <<account, messages, links, linking>>
    PROVE  ReadInv'
PROOF
  <1>1. guard' = g /\ building' = R!Idle /\ asked' = [c \in Callers |-> R!WithGuard(asked[c], g)]
    BY DEF R!Build
  <1>2. ASSUME NEW c \in Callers PROVE CallFact(asked'[c], messages, account)
    <2>1. PICK r : r = asked[c]
      OBVIOUS
    <2>2. PICK s : s = R!WithGuard(r, g)
      OBVIOUS
    <2>3. CallFact(r, messages, account)
      BY <2>1 DEF ReadInv
    <2>4. CallFact(s, messages, account)
      BY <2>2, <2>3, GuardComes
    <2>5. asked'[c] = s
      BY <1>1, <2>1, <2>2
    <2> QED BY <2>4, <2>5
  <1> QED BY <1>1, <1>2, ReadMoves DEF ReadInv

\* A build counts its age from its start: what was named before it is in it.
LEMMA Builds ==
    ASSUME ReadInv, (\E n \in 0 .. Len(messages) : R!BuildReads(n)) \/ R!BuildFails
    PROVE  ReadInv'
PROOF
  <1>1. messages \in RowSeqs /\ Len(messages) \in Nat /\ GuardFact(guard, messages) /\ guard \in GuardEntries
    BY DEF ReadInv, RowSeqs, GuardFact
  <1>2. building # R!Idle => building \in 0 .. Len(messages)
    BY DEF ReadInv
  <1>3. CASE \E n \in 0 .. Len(messages) : R!BuildReads(n)
    <2>1. PICK n \in 0 .. Len(messages) : R!BuildReads(n)
      BY <1>3
    <2>2. PICK g : g = R!Built(n)
      OBVIOUS
    <2>3. R!Build(g) /\ UNCHANGED <<account, messages, links, linking>> /\ building \in 0 .. Len(messages) /\ building <= n
      BY <1>2, <2>1, <2>2 DEF R!BuildReads
    <2>4. PICK base \in Nat : base = building
      BY <1>1, <2>3
    <2>5. PICK build \in Nat : build = guard.build + 1
      BY <1>1 DEF GuardEntries
    <2>6. g = [lids |-> NamedOf(messages, n), known |-> TRUE, base |-> base, fresh |-> TRUE, recent |-> TRUE,
               there |-> TRUE, build |-> build]
      BY <1>1, <2>2, <2>4, <2>5, StoredIs DEF R!Built
    <2>7. NamedOf(messages, n) \subseteq Lids /\ NamedOf(messages, base) \subseteq NamedOf(messages, n)
      BY <1>1, <2>3, <2>4, StoredIs, FirstGrows
    <2>8. GuardFact(g, messages)
      BY <2>3, <2>4, <2>6, <2>7 DEF GuardFact, GuardEntries
    <2> QED BY <2>3, <2>8, BuildSettles
  <1>4. CASE R!BuildFails
    <2>1. PICK g : g = R!BuildFailed
      OBVIOUS
    <2>2. R!Build(g) /\ UNCHANGED <<account, messages, links, linking>> /\ building \in 0 .. Len(messages)
      BY <1>2, <1>4, <2>1 DEF R!BuildFails
    <2>3. PICK base \in Nat : base = building
      BY <1>1, <2>2
    <2>4. g = IF guard.there THEN [guard EXCEPT !.fresh = TRUE]
              ELSE [R!NoGuard EXCEPT !.there = TRUE, !.fresh = TRUE, !.base = base]
      BY <2>1, <2>3 DEF R!BuildFailed
    <2>5. GuardFact(g, messages)
      <3>1. CASE guard.there
        BY <1>1, <2>4, <3>1 DEF GuardFact, GuardEntries
      <3>2. CASE ~guard.there
        <4>1. g = [lids |-> {}, known |-> FALSE, base |-> base, fresh |-> TRUE, recent |-> FALSE, there |-> TRUE,
                   build |-> 0]
          BY <2>4, <3>2 DEF R!NoGuard
        <4> QED BY <2>2, <2>3, <4>1 DEF GuardFact, GuardEntries
      <3> QED BY <3>1, <3>2
    <2> QED BY <2>2, <2>5, BuildSettles
  <1> QED BY <1>3, <1>4

\* A call that ends or goes on with the answer it had.
LEMMA GoesOnAs ==
    ASSUME ReadInv, NEW r, CallFact(r, messages, account), r.pc # "end", NEW pc \in {"end", "links", "allowed"},
           pc # "end" => r.pc # "idle" /\ r.ask.do \in {"send", "digits"},
           NEW blind \in BOOLEAN, r.blind => blind,
           NEW s, s = [r EXCEPT !.pc = pc, !.blind = blind],
           r.pc # "idle", pc = "allowed" /\ r.ask.do = "digits" /\ ~blind => Clean(r, messages)
    PROVE  CallFact(s, messages, account)
PROOF
  <1>1. r \in CallRecords /\ messages \in RowSeqs /\ Len(messages) \in Nat
    BY DEF CallFact, ReadInv, RowSeqs
  <1>2. /\ s \in CallRecords /\ s.pc = pc /\ s.links = r.links /\ s.ask = r.ask /\ s.began = r.began
        /\ s.found = r.found /\ s.guard = r.guard /\ s.blind = blind /\ s.answer = r.answer
    BY <1>1 DEF CallRecords, ReadPcs
  <1>3. Whole(s, messages, account.same)
    <2>1. Whole(r, messages, account.same)
      BY DEF CallFact
    <2> QED BY <1>2, <2>1 DEF Whole
  <1>4. Clean(r, messages) => Clean(s, messages)
    BY <1>2 DEF Clean
  <1>5. s.answer.to = R!None /\ R!None # R!Stranger
    BY <1>2, IdsDiffer DEF CallFact
  <1> QED BY <1>2, <1>3, <1>4, <1>5 DEF CallFact, Sent

LEMMA RecentStep == ASSUME ReadInv, NEW c \in Callers, R!Recent(c) \/ R!RecentFails(c) PROVE ReadInv'
PROOF
  <1>1. PICK r : r = asked[c]
    OBVIOUS
  <1>2. /\ r.pc = "recent" /\ CallFact(r, messages, account) /\ messages \in RowSeqs /\ Len(messages) \in Nat
        /\ r \in CallRecords /\ r.ask.do \in {"send", "digits"} /\ r.ask.jid \notin r.guard.lids
    BY <1>1 DEF R!Recent, R!RecentFails, R!At, ReadInv, RowSeqs, CallFact
  <1>3. UNCHANGED <<account, messages, links, linking, building>>
    BY DEF R!Recent, R!RecentFails
  <1>4. CASE R!RecentFails(c)
    <2>1. PICK s : s = [r EXCEPT !.pc = "allowed", !.blind = TRUE]
      OBVIOUS
    <2>2. asked' = [asked EXCEPT ![c] = s] /\ guard' = guard
      BY <1>1, <1>4, <2>1 DEF R!RecentFails, ReadInv
    <2>3. CallFact(s, messages, account)
      BY <1>2, <2>1, GoesOnAs
    <2> QED BY <1>3, <2>2, <2>3, OneMoves DEF ReadInv
  <1>5. CASE R!Recent(c)
    <2> DEFINE Names(i) == r.ask.jid \in messages[i].names
    <2>1. \/ /\ \E i \in 1 .. Len(messages) : Names(i) /\ messages[i].live
             /\ asked' = [asked EXCEPT ![c].pc = "end"]
             /\ guard' = guard \/ guard' = [guard EXCEPT !.lids = @ \cup {r.ask.jid}]
          \/ /\ ~ \E i \in r.guard.base + 1 .. Len(messages) : Names(i) /\ messages[i].live
             /\ asked' = [asked EXCEPT ![c].pc = "allowed"] /\ guard' = guard
      BY <1>1, <1>5 DEF R!Recent
    <2>2. PICK pc \in {"end", "allowed"} :
             /\ asked' = [asked EXCEPT ![c].pc = pc]
             /\ pc = "allowed" => /\ guard' = guard
                                  /\ ~ \E i \in r.guard.base + 1 .. Len(messages) : Names(i) /\ messages[i].live
             /\ pc = "end" => /\ \E i \in 1 .. Len(messages) : Names(i) /\ messages[i].live
                              /\ guard' = guard \/ guard' = [guard EXCEPT !.lids = @ \cup {r.ask.jid}]
      BY <2>1
    <2>3. PICK s : s = [r EXCEPT !.pc = pc]
      OBVIOUS
    <2>4. s = [r EXCEPT !.pc = pc, !.blind = r.blind] /\ asked' = [asked EXCEPT ![c] = s]
      BY <1>1, <1>2, <2>2, <2>3 DEF CallRecords, ReadInv
    <2>5. pc = "allowed" => Clean(r, messages)
      <3> SUFFICES ASSUME pc = "allowed", NEW i \in 1 .. r.began, Names(i)
                   PROVE  IF i > r.guard.base THEN ~messages[i].live \/ r.guard.recent ELSE ~r.guard.known
        BY DEF Clean
      <3>1. r.began \in 0 .. Len(messages) /\ r.guard.base \in 0 .. Len(messages) /\ i \in 1 .. Len(messages)
        BY <1>2 DEF CallFact, GuardFact
      <3>2. CASE i > r.guard.base
        <4>1. i \in r.guard.base + 1 .. Len(messages)
          BY <1>2, <3>1, <3>2
        <4> QED BY <2>2, <3>2, <4>1
      <3>3. CASE ~(i > r.guard.base)
        <4>1. i \in 1 .. r.guard.base
          BY <3>1, <3>3
        <4>2. r.ask.jid \in NamedOf(messages, r.guard.base)
          BY <4>1 DEF NamedOf, FirstOf
        <4>3. ~r.guard.known
          BY <1>2, <4>2 DEF CallFact, GuardFact
        <4> QED BY <3>3, <4>3
      <3> QED BY <3>2, <3>3
    <2>6. CallFact(s, messages, account)
      <3>1. r.blind \in BOOLEAN
        BY <1>2 DEF CallRecords
      <3> QED BY <1>2, <2>4, <2>5, <3>1, GoesOnAs
    <2>7. GuardFact(guard', messages)
      <3>1. GuardFact(guard, messages)
        BY DEF ReadInv
      <3>2. ASSUME pc = "end", NEW g, g = [guard EXCEPT !.lids = @ \cup {r.ask.jid}] PROVE GuardFact(g, messages)
        <4>1. r.ask.jid \in Lids
          BY <1>2, <2>2, <3>2, RowIs
        <4> QED BY <3>1, <3>2, <4>1 DEF GuardFact, GuardEntries
      <3> QED BY <2>2, <3>1, <3>2
    <2> QED BY <1>3, <2>4, <2>6, <2>7, OneMoves DEF ReadInv
  <1> QED BY <1>4, <1>5

\* What Evolution makes of an id that is sent to.
LEMMA ResolvedIs ==
    ASSUME messages \in RowSeqs, NEW ask \in R!Asks, ask.do \in {"send", "digits"}, NEW jid \in R!Resolved(ask)
    PROVE  jid \in R!Chats \cup {R!Stranger} /\ (jid = R!Stranger => ask.do = "digits")
PROOF
  <1>1. ask.jid \in R!Chats
    BY DEF R!Asks
  <1>2. CASE ask.do = "digits"
    BY <1>1, <1>2 DEF R!Resolved
  <1>3. CASE ask.do # "digits"
    <2>1. PICK l : l = R!ShapeLinks(Len(messages))
      OBVIOUS
    <2>2. Len(messages) \in Nat
      BY DEF RowSeqs
    <2>3. OneToOne(l.pairs)
      BY <2>1, <2>2, StoredIs, LinksAreOneToOne
    <2>4. R!Partner(l, ask.jid) \subseteq R!Chats
      BY <1>1, <2>3, PartnerIs
    <2>5. jid \in {ask.jid} \cup R!Partner(l, ask.jid)
      BY <1>3, <2>1 DEF R!Resolved
    <2> QED BY <1>1, <2>4, <2>5, IdsDiffer
  <1> QED BY <1>2, <1>3

LEMMA AllowedStep == ASSUME ReadInv, NEW c \in Callers, R!Allowed(c) PROVE ReadInv'
PROOF
  <1>1. PICK r : r = asked[c]
    OBVIOUS
  <1>2. /\ r.pc = "allowed" /\ CallFact(r, messages, account) /\ messages \in RowSeqs /\ Len(messages) \in Nat
        /\ r \in CallRecords /\ r.ask.do \in {"send", "digits"} /\ r.ask \in R!Asks
    BY <1>1 DEF R!Allowed, R!At, ReadInv, RowSeqs, CallFact, CallRecords
  <1>3. UNCHANGED <<account, messages, links, linking, guard, building>>
    BY DEF R!Allowed
  <1>4. /\ R!Nothing \in Answers /\ R!Nothing.to = R!None /\ R!Nothing.shown = {} /\ R!Nothing.jids = {}
        /\ R!None # R!Stranger
    BY <1>2, NothingIs, IdsDiffer
  <1>5. ASSUME NEW to \in R!Chats \cup {R!None, R!Stranger}, to = R!Stranger => r.ask.do = "digits",
               to # R!None => R!Chats \subseteq account.scope \/ to \in account.scope,
               NEW a, a = [R!Nothing EXCEPT !.to = to], R!Ends(c, a)
        PROVE  ReadInv'
    <2>1. PICK s : s = [r EXCEPT !.pc = "end", !.answer = a]
      OBVIOUS
    <2>2. asked' = [asked EXCEPT ![c] = s]
      BY <1>1, <1>5, <2>1 DEF R!Ends, ReadInv
    <2>3. a \in Answers /\ a.to = to /\ a.shown = {} /\ a.jids = {}
      BY <1>4, <1>5 DEF Answers
    <2>4. /\ s \in CallRecords /\ s.pc = "end" /\ s.links = r.links /\ s.ask = r.ask /\ s.began = r.began
          /\ s.found = r.found /\ s.guard = r.guard /\ s.blind = r.blind /\ s.answer = a
      BY <1>2, <2>1, <2>3 DEF CallRecords, ReadPcs
    <2>5. a.to = R!Stranger /\ ~s.blind => Clean(s, messages)
      <3>1. a.to = R!Stranger /\ ~s.blind => Clean(r, messages)
        BY <1>2, <1>5, <2>3, <2>4 DEF CallFact
      <3> QED BY <2>4, <3>1 DEF Clean
    <2>6. CallFact(s, messages, account)
      BY <1>2, <1>5, <2>3, <2>4, <2>5 DEF CallFact, Whole, Sent
    <2> QED BY <1>3, <2>2, <2>6, OneMoves DEF ReadInv
  <1>6. CASE R!Ends(c, R!Nothing)
    <2>1. R!Nothing = [R!Nothing EXCEPT !.to = R!None]
      BY <1>4 DEF Answers
    <2> QED BY <1>5, <1>6, <2>1, IdsDiffer
  <1>7. ASSUME NEW jid \in R!Resolved(r.ask), R!Sends(c, jid), R!Chats \subseteq account.scope \/ jid \in account.scope
        PROVE  ReadInv'
    <2>1. jid \in R!Chats \cup {R!Stranger} /\ (jid = R!Stranger => r.ask.do = "digits")
      BY <1>2, ResolvedIs
    <2> QED BY <1>5, <1>7, <2>1 DEF R!Sends
  <1>8. ASSUME NEW jid, R!Refuses(c, jid) PROVE ReadInv'
    <2>1. CASE R!Ends(c, R!Nothing)
      BY <1>6, <2>1
    <2>2. CASE asked' = [asked EXCEPT ![c].pc = "links"]
      <3>1. PICK s : s = [r EXCEPT !.pc = "links", !.blind = r.blind]
        OBVIOUS
      <3>2. r.blind \in BOOLEAN /\ s = [r EXCEPT !.pc = "links"]
        BY <1>2, <3>1 DEF CallRecords
      <3>3. asked' = [asked EXCEPT ![c] = s]
        BY <1>1, <2>2, <3>2 DEF ReadInv
      <3>4. CallFact(s, messages, account)
        BY <1>2, <3>1, <3>2, GoesOnAs
      <3> QED BY <1>3, <3>3, <3>4, OneMoves DEF ReadInv
    <2> QED BY <1>8, <2>1, <2>2 DEF R!Refuses
  <1> QED BY <1>1, <1>6, <1>7, <1>8 DEF R!Allowed, R!InScope

LEMMA Stores == ASSUME ReadInv, NEW m \in account.messages, R!Store(m) PROVE ReadInv'
PROOF
  <1>1. /\ messages' = Append(messages, m) /\ Len(messages) < MaxRows
        /\ UNCHANGED <<account, links, linking, guard, building, asked>>
    BY DEF R!Store
  <1>2. PICK rows : rows = messages
    OBVIOUS
  <1>3. PICK more : more = Append(rows, m)
    OBVIOUS
  <1>4. rows \in RowSeqs /\ m \in R!Messages /\ account \in Accounts
    BY <1>2, ReadingAssumed DEF ReadInv, R!Assumption
  <1>5. more \in RowSeqs /\ Len(more) = Len(rows) + 1 /\ Len(rows) \in Nat /\ Extends(rows, more)
        /\ \A i \in 1 .. Len(more) : more[i] = IF i <= Len(rows) THEN rows[i] ELSE m
    BY <1>1, <1>2, <1>3, <1>4, IdsDiffer DEF RowSeqs, Extends
  <1>6. messages' = more
    BY <1>1, <1>2, <1>3
  <1>7. \A i \in 1 .. Len(more) : more[i] \in account.messages
    <2>1. \A i \in 1 .. Len(rows) : rows[i] \in account.messages
      BY <1>2 DEF ReadInv
    <2> QED BY <1>5, <2>1
  <1>8. LinkFact(links, more) /\ GuardFact(guard, more)
    BY <1>2, <1>4, <1>5, EntriesStay DEF ReadInv
  <1>9. linking \in 0 .. Len(more) \cup {R!Idle} /\ building \in 0 .. Len(more) \cup {R!Idle}
    BY <1>2, <1>5 DEF ReadInv
  <1>10. ASSUME NEW c \in Callers PROVE CallFact(asked[c], more, account)
    <2>1. CallFact(asked[c], rows, account)
      BY <1>2 DEF ReadInv
    <2> QED BY <1>4, <1>5, <2>1, CallStays
  <1> QED BY <1>1, <1>4, <1>5, <1>6, <1>7, <1>8, <1>9, <1>10 DEF ReadInv

LEMMA EntriesExpire == ASSUME ReadInv, R!Expire PROVE ReadInv'
PROOF
  <1>1. UNCHANGED <<account, messages, linking, building, asked>>
    BY DEF R!Expire
  <1>2. LinkFact(links, messages) /\ GuardFact(guard, messages)
    BY DEF ReadInv
  <1>3. LinkFact(links', messages)
    BY <1>2 DEF R!Expire, LinkFact, LinkEntries
  <1>4. GuardFact(guard', messages)
    BY <1>2 DEF R!Expire, GuardFact, GuardEntries
  <1> QED BY <1>1, <1>3, <1>4, ReadMoves DEF ReadInv

LEMMA ReadStep == ReadInv /\ [R!Next]_(R!vars) => ReadInv'
PROOF
  <1> SUFFICES ASSUME ReadInv, [R!Next]_(R!vars) PROVE ReadInv'
    OBVIOUS
  <1>1. CASE UNCHANGED R!vars
    BY <1>1 DEF R!vars, ReadInv
  <1>2. ASSUME NEW c \in Callers,
               \/ (\E ask \in account.asks : R!Start(c, ask)) \/ R!Links(c) \/ R!ListRows(c)
               \/ R!KnownLids(c) \/ R!Recent(c) \/ R!RecentFails(c) \/ R!Allowed(c)
        PROVE  ReadInv'
    BY <1>2, Starts, LinksStep, Lists, KnownStep, RecentStep, AllowedStep
  <1>3. CASE (\E n \in 0 .. Len(messages) : R!LinksRead(n) \/ R!BuildReads(n)) \/ R!LinksFail \/ R!BuildFails
    BY <1>3, LinksReads, Builds
  <1>4. CASE R!Expire
    BY <1>4, EntriesExpire
  <1>5. CASE \E m \in account.messages : R!Store(m)
    BY <1>5, Stores
  <1> QED BY <1>1, <1>2, <1>3, <1>4, <1>5 DEF R!Next

\* Messages, entries and calls have their types.
THEOREM ReadTypesHold == R!Spec => []R!TypeOK
PROOF
  <1>1. ReadInv => R!TypeOK
    <2> SUFFICES ASSUME ReadInv PROVE R!TypeOK
      OBVIOUS
    <2>1. /\ account.scope \subseteq R!Chats /\ account.messages \subseteq R!Messages /\ account.asks \subseteq R!Asks
          /\ account \in Accounts /\ messages \in RowSeqs /\ Len(messages) \in 0 .. MaxRows /\ MaxRows \in Nat
      BY ReadingAssumed DEF ReadInv, R!Assumption, RowSeqs
    <2>2. \A i \in DOMAIN messages : messages[i] \in account.messages
      BY <2>1 DEF ReadInv, RowSeqs
    <2>3. links.pairs \subseteq Lids \X Phones /\ linking \in 0 .. R!Idle /\ building \in 0 .. R!Idle
      BY <2>1 DEF ReadInv, LinkFact, LinkEntries, R!Idle
    <2>4. guard.lids \subseteq Lids /\ guard.base \in 0 .. MaxRows
      BY <2>1 DEF ReadInv, GuardFact, GuardEntries
    <2>5. \A c \in Callers : asked[c].ask \in R!Asks /\ asked[c].answer.jids \subseteq R!Chats
      BY DEF ReadInv, CallFact, CallRecords, Answers
    <2> QED BY <2>1, <2>2, <2>3, <2>4, <2>5 DEF R!TypeOK
  <1> QED BY <1>1, ReadStart, ReadStep, PTL DEF R!Spec

\* What a scoped token's calls show, read, label and send to (mcp-scope.ts, whatsapp-identity.ts,
\* lid-guard.ts) is what its scope and the account's links say, for any scope, any messages,
\* any number of calls and whatever is stored, expires or fails between their readings.
THEOREM ScopeStaysKept == R!Spec => []ScopeIsKept
PROOF
  <1>1. ReadInv => ScopeIsKept
    <2> SUFFICES ASSUME ReadInv PROVE ScopeIsKept
      OBVIOUS
    <2>1. messages \in RowSeqs /\ Len(messages) \in Nat /\ Len(messages) \in 0 .. Len(messages)
      BY DEF ReadInv, RowSeqs
    <2>2. \A c \in Callers : CallFact(asked[c], messages, account)
      BY DEF ReadInv
    <2>3. R!ShownIsInScope
      <3> SUFFICES ASSUME NEW c \in Callers, NEW item \in asked[c].answer.shown
                   PROVE  /\ item.jid \in item.jids /\ item.jids \subseteq account.scope
                          /\ item.newest \in account.scope \cup {R!None}
                          /\ \A p \in item.phone : \E m \in R!First(Len(messages)) :
                                m.chat = item.jid /\ m.alt = p /\ R!InScope(m.chat)
        BY DEF R!ShownIsInScope
      <3>1. Shown(item, messages, account.scope)
        BY <2>2 DEF CallFact
      <3> QED BY <2>1, <3>1, StoredIs DEF Shown, R!InScope
    <2>4. R!SurfacesAgree
      <3>1. PICK l : l = links
        OBVIOUS
      <3>2. OneToOne(l.pairs)
        BY <2>1, <3>1, LinksAreOneToOne DEF ReadInv
      <3>3. {m.chat : m \in R!First(Len(messages))} = ChatsOf(messages, Len(messages))
        BY <2>1, StoredIs DEF ChatsOf
      <3>4. PICK stored : stored = ChatsOf(messages, Len(messages))
        OBVIOUS
      <3>5. \A out \in R!FilterChats(R!Named(l, R!Activity(l, Len(messages)))) :
              /\ R!Expand(l, out.jid).jids \cap stored = out.jids \cap stored
              /\ out.hidden > 0 => R!Expand(l, out.jid).hidden = out.hidden
              /\ \A j \in out.jids : R!Display(l, j) = out.jid
        BY <2>1, <3>2, <3>4, ListedAgrees
      <3> QED BY <3>1, <3>3, <3>4, <3>5 DEF R!SurfacesAgree
    <2>5. R!SilenceIsWhole
      BY <2>2 DEF R!SilenceIsWhole, CallFact, Whole
    <2>6. R!AliasIsRefused
      BY <2>2 DEF R!AliasIsRefused, CallFact, Clean
    <2>7. R!SentIsInScope
      BY <2>2 DEF R!SentIsInScope, R!InScope, CallFact, Sent
    <2> QED BY <2>3, <2>4, <2>5, <2>6, <2>7 DEF ScopeIsKept, R!ScopeIsKept
  <1> QED BY <1>1, ReadStart, ReadStep, PTL DEF R!Spec

-----------------------------------------------------------------------------
\* The three side by side, as they are model-checked: the shape of all their states holds.
THEOREM AllTypesHold == MCSpec => []AllTypeOK
PROOF
  <1>1. MCInit => Init /\ A!Init /\ R!Init
    BY DEF MCInit
  <1>2. [MCNext]_<<vars, alertVars, readingVars>> => [Next]_vars /\ [A!Next]_(A!vars) /\ [R!Next]_(R!vars)
    <2> SUFFICES ASSUME [MCNext]_<<vars, alertVars, readingVars>>
                 PROVE  [Next]_vars /\ [A!Next]_(A!vars) /\ [R!Next]_(R!vars)
      OBVIOUS
    <2>1. (UNCHANGED alertVars <=> UNCHANGED A!vars) /\ (UNCHANGED readingVars <=> UNCHANGED R!vars)
      BY DEF alertVars, readingVars, A!vars, R!vars
    <2> QED BY <2>1 DEF MCNext
  <1>3. MCSpec => Spec /\ A!Spec /\ R!Spec
    BY <1>1, <1>2, PTL DEF MCSpec, Spec, A!Spec, R!Spec
  <1>4. TypeOK /\ A!TypeOK /\ R!TypeOK => AllTypeOK
    BY DEF AllTypeOK
  <1> QED BY <1>3, <1>4, TypeCorrect, AlertTypesHold, ReadTypesHold, PTL
=============================================================================

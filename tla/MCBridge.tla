----------------------------- MODULE MCBridge -----------------------------
(***************************************************************************)
(* SessionLocks with two processes, or BridgeSync with a channel that is   *)
(* not pushed, with more events, or one that is, in which Telegram may do  *)
(* anything and the owner may log out.  The part that is not run rests in  *)
(* its initial state.                                                      *)
(***************************************************************************)
EXTENDS SessionLocks, BridgeSync, TLC

CONSTANTS Parts, p1, p2, t1, t2

VARIABLE part

ASSUME SyncAssumed == SyncAssumption

Quiet == [pushed |-> FALSE, unsteady |-> FALSE]
Pushed == [pushed |-> TRUE, unsteady |-> FALSE]
Rough == [pushed |-> TRUE, unsteady |-> TRUE]

QuietOrRough == {Quiet, Rough}
OnlyPushed == {Pushed}

Bound ==
    CASE channel = Quiet  -> seen.wipes = 0
      [] channel = Rough  -> Pts <= 2
      [] channel = Pushed -> seen.wipes = 0

MCInit ==
    /\ part \in Parts /\ Init /\ SyncInit
    /\ part = "locks" => channel = Quiet

MCNext ==
    /\ UNCHANGED part
    /\ \/ part = "locks" /\ Next /\ UNCHANGED syncVars
       \/ part = "sync" /\ SyncNext /\ Bound' /\ UNCHANGED lockVars

MCSpec == MCInit /\ [][MCNext]_<<part, lockVars, syncVars>>

MCProcs == {p1, p2}
MCTasks == {t1, t2}

\* Processes and tasks are interchangeable in every property.
Symmetry == Permutations(MCProcs) \union Permutations(MCTasks)

\* The inductive invariant of SessionLocks and the shape of BridgeSync's state.
BothInv == IInv /\ SyncTypeOK
=============================================================================

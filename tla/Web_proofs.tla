------------------------------ MODULE Web_proofs ------------------------------
(***************************************************************************)
(* Proofs about the parts of the web application that MCWeb runs beside    *)
(* each other, for every value of their constants: the group names of an   *)
(* account (Groups), the handles a process keeps (Pools) and the headers   *)
(* of a mailbox (ImapSync).                                                *)
(***************************************************************************)
EXTENDS MCWeb, Sequences, SequenceTheorems, FiniteSetTheorems, WellFoundedInduction, TLAPS

-----------------------------------------------------------------------------
(* Groups *)

Entries == [value : Nat, fresh : BOOLEAN, there : BOOLEAN]
SeedStates == [pc : {"none", "asked", "read"}, value : Nat]
LoadStates == [pc : {"idle", "claim", "scan", "failed", "replace", "stored"}, value : Nat]

GroupTypes ==
    /\ groups \in Nat /\ stored \in Nat /\ groupFaults \in Nat
    /\ scans \in [scanned : BOOLEAN, failed : BOOLEAN, lease : BOOLEAN]
    /\ cache \in [Replicas -> Entries] /\ seed \in [Replicas -> SeedStates]
    /\ waits \in [Replicas -> BOOLEAN] /\ load \in [Replicas -> LoadStates]
    /\ shown \in [Replicas -> Nat]

\* Whoever scans has the lease, and no two have it.
ScanInv ==
    /\ \A r \in Replicas : Groups!Scanning(r) => scans.lease
    /\ \A r, q \in Replicas : Groups!Scanning(r) /\ Groups!Scanning(q) => r = q

\* What is known is of a version there was, and a scan that answered has one.
KnownInv ==
    /\ groups >= 1 /\ groups <= MaxVersion /\ stored <= groups
    /\ \A r \in Replicas :
        /\ cache[r].value <= groups /\ seed[r].value <= groups
        /\ load[r].value <= groups /\ shown[r] <= groups
        /\ Groups!At(r, "replace") => load[r].value >= 1

\* What was shown is in the cache still.
ShownInv ==
    \A r \in Replicas :
        /\ ~cache[r].there => cache[r] = Groups!NoEntry
        /\ shown[r] # 0 => cache[r].value # 0

\* Until something fails, versions only grow: from the cache over what is stored to what a
\* scan brings, and from what was shown to the cache.
GrowthInv ==
    groupFaults = 0 =>
        \A r \in Replicas :
            /\ shown[r] <= cache[r].value /\ cache[r].value <= stored /\ seed[r].value <= stored
            /\ Groups!At(r, "replace") => stored <= load[r].value

GroupInv == GroupTypes /\ ScanInv /\ KnownInv /\ ShownInv /\ GrowthInv

LEMMA RefreshStarts ==
    ASSUME load \in [Replicas -> LoadStates], NEW r \in Replicas, NEW entry, Groups!Refresh(r, entry)
    PROVE  \/ load' = load
           \/ /\ load[r].pc = "idle" /\ load' \in [Replicas -> LoadStates]
              /\ load' = [load EXCEPT ![r] = [pc |-> "claim", value |-> 0]]
<1>1. CASE Groups!Wants(r, entry)
  BY <1>1 DEF Groups!Refresh, Groups!Wants, Groups!Loading, LoadStates
<1>2. CASE ~Groups!Wants(r, entry)
  BY <1>2 DEF Groups!Refresh
<1>3. QED
  BY <1>1, <1>2

LEMMA GroupStart == Groups!Init => GroupInv
BY GroupsAssumed DEF Groups!Assumption, Groups!Init, GroupInv, GroupTypes, ScanInv, KnownInv, ShownInv, GrowthInv, Entries, SeedStates,
       LoadStates, Groups!NoEntry, Groups!NoSeed, Groups!NoLoad, Groups!Scanning, Groups!At


LEMMA PeekColdKeeps == ASSUME GroupInv, NEW r \in Replicas, Groups!PeekCold(r) PROVE GroupInv'
<1> USE DEF Groups!PeekCold, Groups!At, Groups!NoEntry
<1>1. GroupTypes'
  BY DEF GroupInv, GroupTypes, Entries, SeedStates, LoadStates
<1>2. ScanInv'
  BY DEF GroupInv, GroupTypes, ScanInv, Groups!Scanning, LoadStates, SeedStates, Entries
<1>3. KnownInv'
  BY DEF GroupInv, GroupTypes, KnownInv, LoadStates, SeedStates, Entries
<1>4. ShownInv'
  BY DEF GroupInv, GroupTypes, KnownInv, ShownInv, LoadStates, SeedStates, Entries
<1>5. GrowthInv'
  BY DEF GroupInv, GroupTypes, ScanInv, KnownInv, ShownInv, GrowthInv, Groups!Scanning, LoadStates, SeedStates, Entries
<1>6. QED
  BY <1>1, <1>2, <1>3, <1>4, <1>5 DEF GroupInv

LEMMA PeekKeeps == ASSUME GroupInv, NEW r \in Replicas, Groups!Peek(r) PROVE GroupInv'
<1> USE DEF Groups!Peek, Groups!At, Groups!NoEntry
<1>0. \/ load' = load
      \/ /\ load[r].pc = "idle" /\ load' \in [Replicas -> LoadStates]
         /\ load' = [load EXCEPT ![r] = [pc |-> "claim", value |-> 0]]
  BY RefreshStarts DEF GroupInv, GroupTypes
<1>1. GroupTypes'
  BY <1>0 DEF GroupInv, GroupTypes, Entries, SeedStates, LoadStates
<1>2. ScanInv'
  <2>1. \A q \in Replicas : Groups!Scanning(q)' => Groups!Scanning(q)
    BY <1>0 DEF GroupInv, GroupTypes, Groups!Scanning, LoadStates
  <2>2. UNCHANGED scans
    BY <1>0
  <2>3. QED
    BY <2>1, <2>2 DEF GroupInv, ScanInv
<1>3. KnownInv'
  BY <1>0 DEF GroupInv, GroupTypes, KnownInv, LoadStates, SeedStates, Entries
<1>4. ShownInv'
  BY <1>0 DEF GroupInv, GroupTypes, KnownInv, ShownInv, LoadStates, SeedStates, Entries
<1>5. GrowthInv'
  BY <1>0 DEF GroupInv, GroupTypes, ScanInv, KnownInv, ShownInv, GrowthInv, Groups!Scanning, LoadStates, SeedStates, Entries
<1>6. QED
  BY <1>1, <1>2, <1>3, <1>4, <1>5 DEF GroupInv

LEMMA SeedSettlesKeeps == ASSUME GroupInv, NEW r \in Replicas, Groups!SeedSettles(r) PROVE GroupInv'
<1> USE DEF Groups!SeedSettles, Groups!At, Groups!NoEntry, Groups!Seeded, Groups!NoSeed
<1> DEFINE entry == Groups!Seeded(r, seed[r].value)
<1>0. /\ cache \in [Replicas -> Entries] /\ seed[r] \in SeedStates /\ load \in [Replicas -> LoadStates]
  BY DEF GroupInv, GroupTypes
<1>a. PICK e : e = entry
  OBVIOUS
<1>b. /\ e \in Entries /\ e.value \in Nat /\ cache[r].value \in Nat /\ seed[r].value \in Nat
      /\ \/ e = cache[r]
         \/ e.value = seed[r].value /\ e.value # 0 /\ e.there /\ cache[r] = Groups!NoEntry
  <2>1. ~cache[r].there => cache[r] = Groups!NoEntry
    BY DEF GroupInv, ShownInv
  <2>2. QED
    BY <1>0, <1>a, <2>1 DEF Entries, SeedStates
<1>c. /\ cache' = [cache EXCEPT ![r] = e] /\ seed' = [seed EXCEPT ![r] = [pc |-> "none", value |-> 0]]
      /\ waits' = [waits EXCEPT ![r] = FALSE]
      /\ UNCHANGED <<groups, stored, scans, groupFaults>>
      /\ shown' = shown \/ shown' = [shown EXCEPT ![r] = e.value]
      /\ \/ load' = load
         \/ /\ load[r].pc = "idle" /\ load' \in [Replicas -> LoadStates]
            /\ load' = [load EXCEPT ![r] = [pc |-> "claim", value |-> 0]]
  <2>1. CASE waits[r]
    <3>1. Groups!Refresh(r, e)
      BY <1>a, <2>1
    <3>2. QED
      BY <1>0, <1>a, <2>1, <3>1, RefreshStarts
  <2>2. CASE ~waits[r]
    BY <1>a, <2>2
  <2>3. QED
    BY <2>1, <2>2
<1> HIDE DEF Groups!SeedSettles, Groups!Seeded, entry
<1>1. GroupTypes'
  BY <1>b, <1>c DEF GroupInv, GroupTypes, Entries, SeedStates, LoadStates
<1>2. ScanInv'
  <2>1. \A q \in Replicas : Groups!Scanning(q)' => Groups!Scanning(q)
    BY <1>c DEF GroupInv, GroupTypes, Groups!Scanning, LoadStates
  <2>2. UNCHANGED scans
    BY <1>c
  <2>3. QED
    BY <2>1, <2>2 DEF GroupInv, ScanInv
<1>3. KnownInv'
  <2>1. /\ e.value <= groups /\ UNCHANGED <<groups, stored>>
        /\ \A q \in Replicas : load[q].value <= groups /\ shown[q] <= groups /\ cache[q].value <= groups
    BY <1>b, <1>c DEF GroupInv, KnownInv, GroupTypes
  <2>2. QED
    BY <1>b, <1>c, <2>1 DEF GroupInv, GroupTypes, KnownInv, LoadStates, SeedStates, Entries
<1>4. ShownInv'
  BY <1>b, <1>c DEF GroupInv, GroupTypes, KnownInv, ShownInv, LoadStates, SeedStates, Entries
<1>5. GrowthInv'
  BY <1>b, <1>c DEF GroupInv, GroupTypes, ScanInv, KnownInv, ShownInv, GrowthInv, Groups!Scanning, LoadStates, SeedStates, Entries
<1>6. QED
  BY <1>1, <1>2, <1>3, <1>4, <1>5 DEF GroupInv

LEMMA ClaimKeeps == ASSUME GroupInv, NEW r \in Replicas, Groups!Claim(r) PROVE GroupInv'
<1> USE DEF Groups!Claim, Groups!At, Groups!NoEntry, Groups!Goes, Groups!Free
<1>0. scans \in [scanned : BOOLEAN, failed : BOOLEAN, lease : BOOLEAN] /\ load \in [Replicas -> LoadStates]
  BY DEF GroupInv, GroupTypes
<1>a. /\ scans' \in [scanned : BOOLEAN, failed : BOOLEAN, lease : BOOLEAN] /\ (scans.lease => scans'.lease)
      /\ load' \in [Replicas -> LoadStates]
      /\ \/ scans'.lease /\ ~scans.lease /\ load' = [load EXCEPT ![r] = [pc |-> "scan", value |-> 0]]
         \/ load' = [load EXCEPT ![r] = [pc |-> "stored", value |-> 0]]
  <2>1. CASE Groups!Free
    <3>1. scans' = [scans EXCEPT !.lease = TRUE] /\ ~scans.lease /\ load' = [load EXCEPT ![r] = [pc |-> "scan", value |-> 0]]
      BY <2>1
    <3>2. load' \in [Replicas -> LoadStates]
      BY <1>0, <3>1 DEF LoadStates
    <3>3. scans' \in [scanned : BOOLEAN, failed : BOOLEAN, lease : BOOLEAN] /\ scans'.lease
      BY <1>0, <3>1
    <3>4. QED
      BY <3>1, <3>2, <3>3
  <2>2. CASE ~Groups!Free
    <3>1. scans' = scans /\ load' = [load EXCEPT ![r] = [pc |-> "stored", value |-> 0]]
      BY <2>2
    <3>2. QED
      BY <1>0, <3>1 DEF LoadStates
  <2>3. QED
    BY <2>1, <2>2
<1>b. load[r].pc = "claim" /\ UNCHANGED <<groups, stored, cache, seed, waits, shown, groupFaults>>
  OBVIOUS
<1> HIDE DEF Groups!Claim, Groups!Free
<1>1. GroupTypes'
  BY <1>a, <1>b DEF GroupInv, GroupTypes, Entries, SeedStates, LoadStates
<1>2. ScanInv'
  <2>1. \A q \in Replicas : Groups!Scanning(q)' => Groups!Scanning(q) \/ (q = r /\ scans'.lease /\ ~scans.lease)
    BY <1>0, <1>a, <1>b DEF Groups!Scanning, LoadStates
  <2>2. QED
    BY <1>a, <2>1 DEF GroupInv, ScanInv
<1>3. KnownInv'
  BY <1>a, <1>b DEF GroupInv, GroupTypes, KnownInv, LoadStates, SeedStates, Entries
<1>4. ShownInv'
  BY <1>a, <1>b DEF GroupInv, GroupTypes, KnownInv, ShownInv, LoadStates, SeedStates, Entries
<1>5. GrowthInv'
  BY <1>a, <1>b DEF GroupInv, GroupTypes, ScanInv, KnownInv, ShownInv, GrowthInv, Groups!Scanning, LoadStates, SeedStates, Entries
<1>6. QED
  BY <1>1, <1>2, <1>3, <1>4, <1>5 DEF GroupInv

LEMMA ScanAnswersKeeps == ASSUME GroupInv, NEW r \in Replicas, Groups!ScanAnswers(r) PROVE GroupInv'
<1> USE DEF Groups!ScanAnswers, Groups!At, Groups!NoEntry, Groups!Goes
<1>1. GroupTypes'
  BY DEF GroupInv, GroupTypes, Entries, SeedStates, LoadStates
<1>2. ScanInv'
  BY DEF GroupInv, GroupTypes, ScanInv, Groups!Scanning, LoadStates, SeedStates, Entries
<1>3. KnownInv'
  BY DEF GroupInv, GroupTypes, KnownInv, LoadStates, SeedStates, Entries
<1>4. ShownInv'
  BY DEF GroupInv, GroupTypes, KnownInv, ShownInv, LoadStates, SeedStates, Entries
<1>5. GrowthInv'
  BY DEF GroupInv, GroupTypes, ScanInv, KnownInv, ShownInv, GrowthInv, Groups!Scanning, LoadStates, SeedStates, Entries
<1>6. QED
  BY <1>1, <1>2, <1>3, <1>4, <1>5 DEF GroupInv

LEMMA RecordFailureKeeps == ASSUME GroupInv, NEW r \in Replicas, Groups!RecordFailure(r) PROVE GroupInv'
<1> USE DEF Groups!RecordFailure, Groups!At, Groups!NoEntry, Groups!Goes
<1>1. GroupTypes'
  BY DEF GroupInv, GroupTypes, Entries, SeedStates, LoadStates
<1>2. ScanInv'
  BY DEF GroupInv, GroupTypes, ScanInv, Groups!Scanning, LoadStates, SeedStates, Entries
<1>3. KnownInv'
  BY DEF GroupInv, GroupTypes, KnownInv, LoadStates, SeedStates, Entries
<1>4. ShownInv'
  BY DEF GroupInv, GroupTypes, KnownInv, ShownInv, LoadStates, SeedStates, Entries
<1>5. GrowthInv'
  BY DEF GroupInv, GroupTypes, ScanInv, KnownInv, ShownInv, GrowthInv, Groups!Scanning, LoadStates, SeedStates, Entries
<1>6. QED
  BY <1>1, <1>2, <1>3, <1>4, <1>5 DEF GroupInv

LEMMA ReplaceKeeps == ASSUME GroupInv, NEW r \in Replicas, Groups!Replace(r) PROVE GroupInv'
<1> USE DEF Groups!Replace, Groups!At, Groups!NoEntry, Groups!Settle, Groups!Settled, Groups!NoLoad
<1>1. GroupTypes'
  BY DEF GroupInv, GroupTypes, Entries, SeedStates, LoadStates
<1>2. ScanInv'
  BY DEF GroupInv, GroupTypes, ScanInv, Groups!Scanning, LoadStates, SeedStates, Entries
<1>3. KnownInv'
  BY DEF GroupInv, GroupTypes, KnownInv, LoadStates, SeedStates, Entries
<1>4. ShownInv'
  BY DEF GroupInv, GroupTypes, KnownInv, ShownInv, LoadStates, SeedStates, Entries
<1>5. GrowthInv'
  BY DEF GroupInv, GroupTypes, ScanInv, KnownInv, ShownInv, GrowthInv, Groups!Scanning, LoadStates, SeedStates, Entries
<1>6. QED
  BY <1>1, <1>2, <1>3, <1>4, <1>5 DEF GroupInv

LEMMA ReadStoredKeeps == ASSUME GroupInv, NEW r \in Replicas, Groups!ReadStored(r) PROVE GroupInv'
<1> USE DEF Groups!ReadStored, Groups!At, Groups!NoEntry, Groups!Settle, Groups!Settled, Groups!NoLoad
<1>1. GroupTypes'
  BY DEF GroupInv, GroupTypes, Entries, SeedStates, LoadStates
<1>2. ScanInv'
  BY DEF GroupInv, GroupTypes, ScanInv, Groups!Scanning, LoadStates, SeedStates, Entries
<1>3. KnownInv'
  BY DEF GroupInv, GroupTypes, KnownInv, LoadStates, SeedStates, Entries
<1>4. ShownInv'
  BY DEF GroupInv, GroupTypes, KnownInv, ShownInv, LoadStates, SeedStates, Entries
<1>5. GrowthInv'
  BY DEF GroupInv, GroupTypes, ScanInv, KnownInv, ShownInv, GrowthInv, Groups!Scanning, LoadStates, SeedStates, Entries
<1>6. QED
  BY <1>1, <1>2, <1>3, <1>4, <1>5 DEF GroupInv

LEMMA ClaimLostKeeps == ASSUME GroupInv, NEW r \in Replicas, Groups!ClaimLost(r) PROVE GroupInv'
<1> USE DEF Groups!ClaimLost, Groups!At, Groups!NoEntry, Groups!Goes, Groups!Free, Groups!Fails
<1>0. scans' = scans \/ scans' = [scans EXCEPT !.lease = TRUE]
  OBVIOUS
<1>a. scans' \in [scanned : BOOLEAN, failed : BOOLEAN, lease : BOOLEAN]
  BY <1>0 DEF GroupInv, GroupTypes
<1> HIDE DEF Groups!Free
<1>1. GroupTypes'
  BY <1>a DEF GroupInv, GroupTypes, Entries, SeedStates, LoadStates
<1>2. ScanInv'
  BY DEF GroupInv, GroupTypes, ScanInv, Groups!Scanning, LoadStates, SeedStates, Entries
<1>3. KnownInv'
  BY DEF GroupInv, GroupTypes, KnownInv, LoadStates, SeedStates, Entries
<1>4. ShownInv'
  BY DEF GroupInv, GroupTypes, KnownInv, ShownInv, LoadStates, SeedStates, Entries
<1>5. GrowthInv'
  BY DEF GroupInv, GroupTypes, ScanInv, KnownInv, ShownInv, GrowthInv, Groups!Scanning, LoadStates, SeedStates, Entries
<1>6. QED
  BY <1>1, <1>2, <1>3, <1>4, <1>5 DEF GroupInv

LEMMA ScanFailsKeeps == ASSUME GroupInv, NEW r \in Replicas, Groups!ScanFails(r) PROVE GroupInv'
<1> USE DEF Groups!ScanFails, Groups!At, Groups!NoEntry, Groups!Goes, Groups!Fails
<1>1. GroupTypes'
  BY DEF GroupInv, GroupTypes, Entries, SeedStates, LoadStates
<1>2. ScanInv'
  BY DEF GroupInv, GroupTypes, ScanInv, Groups!Scanning, LoadStates, SeedStates, Entries
<1>3. KnownInv'
  BY DEF GroupInv, GroupTypes, KnownInv, LoadStates, SeedStates, Entries
<1>4. ShownInv'
  BY DEF GroupInv, GroupTypes, KnownInv, ShownInv, LoadStates, SeedStates, Entries
<1>5. GrowthInv'
  BY DEF GroupInv, GroupTypes, ScanInv, KnownInv, ShownInv, GrowthInv, Groups!Scanning, LoadStates, SeedStates, Entries
<1>6. QED
  BY <1>1, <1>2, <1>3, <1>4, <1>5 DEF GroupInv

LEMMA FailureLostKeeps == ASSUME GroupInv, NEW r \in Replicas, Groups!FailureLost(r) PROVE GroupInv'
<1> USE DEF Groups!FailureLost, Groups!At, Groups!NoEntry, Groups!Goes, Groups!Fails
<1>1. GroupTypes'
  BY DEF GroupInv, GroupTypes, Entries, SeedStates, LoadStates
<1>2. ScanInv'
  BY DEF GroupInv, GroupTypes, ScanInv, Groups!Scanning, LoadStates, SeedStates, Entries
<1>3. KnownInv'
  BY DEF GroupInv, GroupTypes, KnownInv, LoadStates, SeedStates, Entries
<1>4. ShownInv'
  BY DEF GroupInv, GroupTypes, KnownInv, ShownInv, LoadStates, SeedStates, Entries
<1>5. GrowthInv'
  BY DEF GroupInv, GroupTypes, ScanInv, KnownInv, ShownInv, GrowthInv, Groups!Scanning, LoadStates, SeedStates, Entries
<1>6. QED
  BY <1>1, <1>2, <1>3, <1>4, <1>5 DEF GroupInv

LEMMA ReplaceFailsKeeps == ASSUME GroupInv, NEW r \in Replicas, Groups!ReplaceFails(r) PROVE GroupInv'
<1> USE DEF Groups!ReplaceFails, Groups!At, Groups!NoEntry, Groups!Settle, Groups!Settled, Groups!NoLoad, Groups!Fails
<1>1. GroupTypes'
  BY DEF GroupInv, GroupTypes, Entries, SeedStates, LoadStates
<1>2. ScanInv'
  BY DEF GroupInv, GroupTypes, ScanInv, Groups!Scanning, LoadStates, SeedStates, Entries
<1>3. KnownInv'
  BY DEF GroupInv, GroupTypes, KnownInv, LoadStates, SeedStates, Entries
<1>4. ShownInv'
  BY DEF GroupInv, GroupTypes, KnownInv, ShownInv, LoadStates, SeedStates, Entries
<1>5. GrowthInv'
  BY DEF GroupInv, GroupTypes, ScanInv, KnownInv, ShownInv, GrowthInv, Groups!Scanning, LoadStates, SeedStates, Entries
<1>6. QED
  BY <1>1, <1>2, <1>3, <1>4, <1>5 DEF GroupInv

LEMMA ExpireKeeps == ASSUME GroupInv, NEW r \in Replicas, Groups!Expire(r) PROVE GroupInv'
<1> USE DEF Groups!Expire, Groups!At, Groups!NoEntry
<1>1. GroupTypes'
  BY DEF GroupInv, GroupTypes, Entries, SeedStates, LoadStates
<1>2. ScanInv'
  BY DEF GroupInv, GroupTypes, ScanInv, Groups!Scanning, LoadStates, SeedStates, Entries
<1>3. KnownInv'
  BY DEF GroupInv, GroupTypes, KnownInv, LoadStates, SeedStates, Entries
<1>4. ShownInv'
  <2> SUFFICES ASSUME NEW q \in Replicas
               PROVE  /\ ~cache'[q].there => cache'[q] = Groups!NoEntry
                      /\ shown'[q] # 0 => cache'[q].value # 0
    BY DEF ShownInv
  <2>1. cache \in [Replicas -> Entries] /\ shown' = shown
    BY DEF GroupInv, GroupTypes
  <2>2. (~cache[q].there => cache[q] = Groups!NoEntry) /\ (shown[q] # 0 => cache[q].value # 0)
    BY DEF GroupInv, ShownInv
  <2>3. CASE q # r
    BY <2>1, <2>2, <2>3
  <2>4. CASE q = r
    <3>1. cache'[r] = [cache[r] EXCEPT !.fresh = FALSE] /\ cache[r].fresh /\ cache[r] \in Entries
      BY <2>1
    <3>2. cache[r].there
      BY <2>2, <2>4, <3>1
    <3>3. cache'[r].there = cache[r].there /\ cache'[r].value = cache[r].value
      BY <3>1 DEF Entries
    <3>4. QED
      BY <2>1, <2>2, <2>4, <3>2, <3>3
  <2>5. QED
    BY <2>3, <2>4
<1>5. GrowthInv'
  BY DEF GroupInv, GroupTypes, ScanInv, KnownInv, ShownInv, GrowthInv, Groups!Scanning, LoadStates, SeedStates, Entries
<1>6. QED
  BY <1>1, <1>2, <1>3, <1>4, <1>5 DEF GroupInv

LEMMA RestartKeeps == ASSUME GroupInv, NEW r \in Replicas, Groups!Restart(r) PROVE GroupInv'
<1> USE DEF Groups!Restart, Groups!At, Groups!NoEntry, Groups!Fails, Groups!NoSeed, Groups!NoLoad
<1>1. GroupTypes'
  BY DEF GroupInv, GroupTypes, Entries, SeedStates, LoadStates
<1>2. ScanInv'
  BY DEF GroupInv, GroupTypes, ScanInv, Groups!Scanning, LoadStates, SeedStates, Entries
<1>3. KnownInv'
  BY DEF GroupInv, GroupTypes, KnownInv, LoadStates, SeedStates, Entries
<1>4. ShownInv'
  BY DEF GroupInv, GroupTypes, KnownInv, ShownInv, LoadStates, SeedStates, Entries
<1>5. GrowthInv'
  BY DEF GroupInv, GroupTypes, ScanInv, KnownInv, ShownInv, GrowthInv, Groups!Scanning, LoadStates, SeedStates, Entries
<1>6. QED
  BY <1>1, <1>2, <1>3, <1>4, <1>5 DEF GroupInv

LEMMA IntervalEndsKeeps == ASSUME GroupInv, Groups!IntervalEnds PROVE GroupInv'
<1> USE DEF Groups!IntervalEnds, Groups!At, Groups!NoEntry
<1>1. GroupTypes'
  BY DEF GroupInv, GroupTypes, Entries, SeedStates, LoadStates
<1>2. ScanInv'
  BY DEF GroupInv, GroupTypes, ScanInv, Groups!Scanning, LoadStates, SeedStates, Entries
<1>3. KnownInv'
  BY DEF GroupInv, GroupTypes, KnownInv, LoadStates, SeedStates, Entries
<1>4. ShownInv'
  BY DEF GroupInv, GroupTypes, KnownInv, ShownInv, LoadStates, SeedStates, Entries
<1>5. GrowthInv'
  BY DEF GroupInv, GroupTypes, ScanInv, KnownInv, ShownInv, GrowthInv, Groups!Scanning, LoadStates, SeedStates, Entries
<1>6. QED
  BY <1>1, <1>2, <1>3, <1>4, <1>5 DEF GroupInv

LEMMA LeaseEndsKeeps == ASSUME GroupInv, Groups!LeaseEnds PROVE GroupInv'
<1> USE DEF Groups!LeaseEnds, Groups!At, Groups!NoEntry
<1>1. GroupTypes'
  BY DEF GroupInv, GroupTypes, Entries, SeedStates, LoadStates
<1>2. ScanInv'
  BY DEF GroupInv, GroupTypes, ScanInv, Groups!Scanning, LoadStates, SeedStates, Entries
<1>3. KnownInv'
  BY DEF GroupInv, GroupTypes, KnownInv, LoadStates, SeedStates, Entries
<1>4. ShownInv'
  BY DEF GroupInv, GroupTypes, KnownInv, ShownInv, LoadStates, SeedStates, Entries
<1>5. GrowthInv'
  BY DEF GroupInv, GroupTypes, ScanInv, KnownInv, ShownInv, GrowthInv, Groups!Scanning, LoadStates, SeedStates, Entries
<1>6. QED
  BY <1>1, <1>2, <1>3, <1>4, <1>5 DEF GroupInv

LEMMA ChangesKeeps == ASSUME GroupInv, Groups!Changes PROVE GroupInv'
<1> USE DEF Groups!Changes, Groups!At, Groups!NoEntry
<1>1. GroupTypes'
  BY DEF GroupInv, GroupTypes, Entries, SeedStates, LoadStates
<1>2. ScanInv'
  BY DEF GroupInv, GroupTypes, ScanInv, Groups!Scanning, LoadStates, SeedStates, Entries
<1>3. KnownInv'
  BY GroupsAssumed DEF GroupInv, GroupTypes, KnownInv, Groups!Assumption, LoadStates, SeedStates, Entries
<1>4. ShownInv'
  BY DEF GroupInv, GroupTypes, KnownInv, ShownInv, LoadStates, SeedStates, Entries
<1>5. GrowthInv'
  BY DEF GroupInv, GroupTypes, ScanInv, KnownInv, ShownInv, GrowthInv, Groups!Scanning, LoadStates, SeedStates, Entries
<1>6. QED
  BY <1>1, <1>2, <1>3, <1>4, <1>5 DEF GroupInv

LEMMA SeedReadsKeeps ==
    ASSUME GroupInv, NEW r \in Replicas, NEW found \in 0 .. MaxVersion, Groups!SeedReads(r, found)
    PROVE  GroupInv'
<1> USE DEF Groups!At, Groups!NoEntry
<1>0. /\ found \in Nat /\ found <= stored /\ found <= groups /\ groupFaults' \in {groupFaults, groupFaults + 1}
      /\ seed' = [seed EXCEPT ![r] = [pc |-> "read", value |-> found]]
      /\ UNCHANGED <<groups, stored, scans, cache, waits, load, shown>>
  BY GroupsAssumed DEF Groups!Assumption, Groups!SeedReads, Groups!Fails, GroupInv, GroupTypes, KnownInv
<1>1. GroupTypes'
  BY <1>0 DEF GroupInv, GroupTypes, SeedStates
<1>2. ScanInv'
  BY <1>0 DEF GroupInv, ScanInv, Groups!Scanning
<1>3. KnownInv'
  BY <1>0 DEF GroupInv, GroupTypes, KnownInv, SeedStates
<1>4. ShownInv'
  BY <1>0 DEF GroupInv, ShownInv
<1>5. GrowthInv'
  BY <1>0 DEF GroupInv, GroupTypes, GrowthInv, SeedStates
<1>6. QED
  BY <1>1, <1>2, <1>3, <1>4, <1>5 DEF GroupInv

LEMMA GroupsKeep == ASSUME GroupInv, [Groups!Next]_(Groups!vars) PROVE GroupInv'
<1>1. ASSUME NEW r \in Replicas, NEW found \in 0 .. MaxVersion, Groups!SeedReads(r, found) PROVE GroupInv'
  BY <1>1, SeedReadsKeeps
<1>2. CASE UNCHANGED Groups!vars
  BY <1>2 DEF Groups!vars, GroupInv, GroupTypes, ScanInv, KnownInv, ShownInv, GrowthInv, Groups!Scanning, Groups!At
<1>3. QED
  BY <1>1, <1>2, PeekColdKeeps, PeekKeeps, SeedSettlesKeeps, ClaimKeeps, ScanAnswersKeeps, RecordFailureKeeps,
     ReplaceKeeps, ReadStoredKeeps, ClaimLostKeeps, ScanFailsKeeps, FailureLostKeeps, ReplaceFailsKeeps,
     ExpireKeeps, RestartKeeps, IntervalEndsKeeps, LeaseEndsKeeps, ChangesKeeps
     DEF Groups!Next, Groups!Seeds, Groups!Loads

LEMMA GroupsInvariant == Groups!Spec => []GroupInv
BY GroupStart, GroupsKeep, PTL DEF Groups!Spec

\* Of any number of replicas at most one asks WhatsApp for the groups of an account, from its
\* claim until what it learned is written: "a scan still running is never claimed twice"
\* (whatsapp-groups.ts:49), through failures, lost answers, restarts and leases that run out.
THEOREM OneReplicaScans == Groups!Spec => []OneScan
<1>1. GroupInv => OneScan
  BY DEF GroupInv, ScanInv, OneScan, Groups!OneScan
<1>2. QED
  BY <1>1, GroupsInvariant, PTL


\* What a step shows of a replica is what its cache has.
LEMMA ShowsMore ==
    ASSUME GroupInv, [Groups!Next]_(Groups!vars), NEW r \in Replicas
    PROVE  cache'[r] = Groups!NoEntry \/ shown'[r] >= shown[r] \/ (groupFaults > 0 /\ shown'[r] # 0)
<1> USE DEF GroupInv, GroupTypes, Entries
<1>1. CASE shown'[r] = shown[r]
  BY <1>1
<1>2. CASE shown'[r] = cache[r].value
  BY <1>2 DEF ShownInv, GrowthInv
<1>3. CASE Groups!SeedSettles(r)
  <2>1. cache'[r].value \in Nat /\ shown[r] \in Nat
    BY <1>3, SeedSettlesKeeps
  <2>2. cache[r].value = 0 => shown[r] = 0
    BY DEF ShownInv
  <2>3. CASE cache'[r] = cache[r]
    BY <1>1, <1>2, <1>3, <2>3 DEF Groups!SeedSettles
  <2>4. CASE cache[r] = Groups!NoEntry
    BY <1>3, <2>1, <2>2, <2>4 DEF Groups!SeedSettles, Groups!NoEntry
  <2>5. QED
    BY <1>3, <2>3, <2>4 DEF Groups!SeedSettles, Groups!Seeded, ShownInv
<1>4. CASE \E q \in Replicas : Groups!Peek(q) \/ Groups!SeedSettles(q)
  <2>1. PICK q \in Replicas : Groups!Peek(q) \/ Groups!SeedSettles(q)
    BY <1>4
  <2>2. CASE q # r
    BY <1>1, <2>1, <2>2 DEF Groups!Peek, Groups!SeedSettles
  <2>3. CASE q = r
    BY <1>2, <1>3, <2>1, <2>3 DEF Groups!Peek
  <2>4. QED
    BY <2>2, <2>3
<1>5. CASE \E q \in Replicas : Groups!Restart(q)
  <2>1. PICK q \in Replicas : Groups!Restart(q)
    BY <1>5
  <2>2. CASE q # r
    BY <1>1, <2>1, <2>2 DEF Groups!Restart
  <2>3. CASE q = r
    BY <2>1, <2>3 DEF Groups!Restart
  <2>4. QED
    BY <2>2, <2>3
<1>6. CASE UNCHANGED shown
  BY <1>1, <1>6
<1>7. QED
  BY <1>4, <1>5, <1>6 DEF Groups!Next, Groups!Seeds, Groups!Loads, Groups!vars, Groups!PeekCold,
     Groups!SeedReads, Groups!Claim, Groups!ClaimLost, Groups!ScanAnswers, Groups!ScanFails, Groups!Settle,
     Groups!RecordFailure, Groups!FailureLost, Groups!Replace, Groups!ReplaceFails, Groups!ReadStored,
     Groups!Expire, Groups!IntervalEnds, Groups!LeaseEnds, Groups!Changes

\* Until it restarts, a replica that has shown names never shows none, nor, unless something
\* failed, older ones (lookup-cache.ts:25-27, :125): however the seed, the scans of other
\* replicas and the failed refreshes of its own come between two readers.
THEOREM NamesAreKept == Groups!Spec => NamesStay
<1>1. ASSUME GroupInv, [Groups!Next]_(Groups!vars)
      PROVE  [\A r \in Replicas :
                cache'[r] = Groups!NoEntry \/ shown'[r] >= shown[r] \/ (groupFaults > 0 /\ shown'[r] # 0)]_(Groups!vars)
  BY <1>1, ShowsMore
<1>2. QED
  BY <1>1, GroupsInvariant, PTL DEF NamesStay, Groups!NamesStay, Groups!Spec
-----------------------------------------------------------------------------
(* Pools: the order in which handles were used. *)

RangeOf(s) == {s[i] : i \in DOMAIN s}
Distinct(s) == \A i, j \in DOMAIN s : s[i] = s[j] => i = j

LEMMA RangesAre == /\ \A s : Pools!ToSet(s) = RangeOf(s)
                   /\ \A s : Pools!IsInjective(s) <=> Distinct(s)
                   /\ \A S : Pools!Cardinality(S) = Cardinality(S)
                   /\ \A S : Pools!IsFiniteSet(S) <=> IsFiniteSet(S)
BY DEF Pools!ToSet, RangeOf, Pools!IsInjective, Distinct, Pools!Cardinality, Cardinality, Pools!IsFiniteSet, IsFiniteSet

\* A key is taken out of the order, which keeps the others as they are,
LEMMA WithoutIs ==
    ASSUME NEW S, NEW s \in Seq(S), Distinct(s), NEW k
    PROVE  /\ Pools!Without(s, k) \in Seq(S) /\ Distinct(Pools!Without(s, k))
           /\ RangeOf(Pools!Without(s, k)) = RangeOf(s) \ {k}
<1>1. CASE k \notin RangeOf(s)
  BY <1>1, RangesAre DEF Pools!Without, RangeOf
<1>2. CASE k \in RangeOf(s)
  <2> DEFINE n == CHOOSE i \in DOMAIN s : s[i] = k
             t == SubSeq(s, 1, n - 1) \o SubSeq(s, n + 1, Len(s))
  <2>1. n \in 1 .. Len(s) /\ s[n] = k
    BY <1>2 DEF RangeOf
  <2>2. Pools!Without(s, k) = t
    BY <1>2, RangesAre DEF Pools!Without, Pools!RemoveAt
  <2> HIDE DEF n
  <2>3. /\ t \in Seq(S) /\ Len(t) = Len(s) - 1
        /\ \A i \in 1 .. Len(t) : t[i] = IF i < n THEN s[i] ELSE s[i + 1]
    <3> DEFINE a == SubSeq(s, 1, n - 1)
               b == SubSeq(s, n + 1, Len(s))
    <3>1. Len(s) \in Nat /\ n \in Int
      BY <2>1
    <3>2. a \in Seq(S) /\ Len(a) = n - 1 /\ \A i \in 1 .. n - 1 : a[i] = s[i]
      BY <2>1, <3>1, SubSeqProperties
    <3>3. b \in Seq(S) /\ Len(b) = Len(s) - n /\ \A i \in 1 .. Len(s) - n : b[i] = s[n + i]
      <4>1. \A i \in n + 1 .. Len(s) : s[i] \in S
        BY <2>1, <3>1
      <4>2. /\ b \in Seq(S) /\ Len(b) = IF n + 1 <= Len(s) THEN Len(s) - (n + 1) + 1 ELSE 0
            /\ \A i \in 1 .. Len(s) - (n + 1) + 1 : b[i] = s[n + 1 + i - 1]
        BY <3>1, <4>1, SubSeqProperties
      <4>3. Len(s) - (n + 1) + 1 = Len(s) - n /\ \A i \in Int : n + 1 + i - 1 = n + i
        BY <3>1
      <4>4. Len(b) = Len(s) - n
        BY <2>1, <3>1, <4>2
      <4>5. \A i \in 1 .. Len(s) - n : b[i] = s[n + i]
        <5> SUFFICES ASSUME NEW i \in 1 .. Len(s) - n PROVE b[i] = s[n + i]
          OBVIOUS
        <5>1. i \in 1 .. Len(s) - (n + 1) + 1 /\ n + 1 + i - 1 = n + i
          BY <3>1
        <5>2. QED
          BY <4>2, <5>1
      <4>6. QED
        BY <4>2, <4>4, <4>5
    <3> HIDE DEF a, b
    <3>4. a \o b \in Seq(S) /\ Len(a \o b) = Len(s) - 1
      <4>1. a \o b \in Seq(S) /\ Len(a \o b) = Len(a) + Len(b)
        BY <3>2, <3>3, ConcatProperties
      <4>2. QED
        BY <2>1, <3>1, <3>2, <3>3, <4>1
    <3>5. ASSUME NEW i \in 1 .. Len(s) - 1 PROVE (a \o b)[i] = IF i < n THEN s[i] ELSE s[i + 1]
      <4>1. CASE i < n
        BY <2>1, <3>1, <3>2, <3>3, <4>1, ConcatProperties
      <4>2. CASE i >= n
        <5>1. (a \o b)[i] = b[i - (n - 1)]
          BY <2>1, <3>1, <3>2, <3>3, <4>2, ConcatProperties
        <5>2. i - (n - 1) \in 1 .. Len(s) - n /\ n + (i - (n - 1)) = i + 1
          BY <2>1, <3>1, <4>2
        <5>3. b[i - (n - 1)] = s[n + (i - (n - 1))]
          <6> DEFINE q == i - (n - 1)
          <6>1. q \in 1 .. Len(s) - n
            BY <5>2
          <6> HIDE DEF q
          <6>2. b[q] = s[n + q]
            BY <3>3, <6>1
          <6>3. QED
            BY <6>2 DEF q
        <5>4. QED
          BY <2>1, <4>2, <5>1, <5>2, <5>3
      <4>3. i < n \/ i >= n
        BY <2>1, <3>1
      <4>4. QED
        BY <4>1, <4>2, <4>3
    <3>6. QED
      BY <3>4, <3>5 DEF a, b
  <2> HIDE DEF t
  <2>4. DOMAIN t = 1 .. Len(t) /\ DOMAIN s = 1 .. Len(s) /\ Len(s) \in Nat /\ Len(t) \in Nat
    BY <2>3
  <2> DEFINE was(i) == IF i < n THEN i ELSE i + 1
  <2>9. \A i \in 1 .. Len(t) : was(i) \in 1 .. Len(s) /\ was(i) # n /\ t[i] = s[was(i)]
    BY <2>1, <2>3, <2>4
  <2>10. \A i, j \in 1 .. Len(t) : was(i) = was(j) => i = j
    BY <2>1
  <2> HIDE DEF was
  <2>5. Distinct(t)
    BY <2>4, <2>9, <2>10 DEF Distinct
  <2>6. ASSUME NEW x \in RangeOf(s), x # k PROVE x \in RangeOf(t)
    <3>1. PICK i \in 1 .. Len(s) : s[i] = x
      BY <2>4 DEF RangeOf
    <3>2. CASE i < n
      <4>1. i \in 1 .. Len(t) /\ t[i] = x
        BY <2>1, <2>3, <2>4, <3>1, <3>2
      <4>2. QED
        BY <2>4, <4>1 DEF RangeOf
    <3>3. CASE i > n
      <4>1. i - 1 \in 1 .. Len(t) /\ t[i - 1] = x
        BY <2>1, <2>3, <2>4, <3>1, <3>3
      <4>2. QED
        BY <2>4, <4>1 DEF RangeOf
    <3>4. QED
      <4>1. n \in Nat /\ i \in Nat /\ i # n
        BY <2>1, <2>4, <2>6, <3>1
      <4>2. i < n \/ i > n
        BY <4>1
      <4>3. QED
        BY <3>2, <3>3, <4>2
  <2>7. ASSUME NEW x \in RangeOf(t) PROVE x \in RangeOf(s) /\ x # k
    <3>1. PICK i \in 1 .. Len(t) : t[i] = x
      BY <2>4 DEF RangeOf
    <3>2. was(i) \in 1 .. Len(s) /\ s[was(i)] = x /\ was(i) # n
      BY <2>9, <3>1
    <3>3. QED
      <4>1. x \in RangeOf(s)
        BY <2>4, <3>2 DEF RangeOf
      <4>2. s[was(i)] # s[n]
        BY <2>1, <2>4, <3>2 DEF Distinct
      <4>3. QED
        BY <2>1, <3>2, <4>1, <4>2
  <2>8. QED
    BY <2>2, <2>3, <2>5, <2>6, <2>7
<1>3. QED
  BY <1>1, <1>2

\* put last,
LEMMA UsedIs ==
    ASSUME NEW S, NEW s \in Seq(S), Distinct(s), NEW k \in S
    PROVE  /\ Pools!Used(s, k) \in Seq(S) /\ Distinct(Pools!Used(s, k))
           /\ RangeOf(Pools!Used(s, k)) = RangeOf(s) \union {k}
<1> DEFINE t == Pools!Without(s, k)
           u == Append(t, k)
<1>1. t \in Seq(S) /\ Distinct(t) /\ RangeOf(t) = RangeOf(s) \ {k}
  BY WithoutIs
<1>2. Pools!Used(s, k) = u
  BY DEF Pools!Used
<1> HIDE DEF t
<1>3. /\ u \in Seq(S) /\ Len(u) = Len(t) + 1 /\ Len(t) \in Nat /\ u[Len(t) + 1] = k
      /\ \A i \in 1 .. Len(t) : u[i] = t[i]
  BY <1>1
<1> HIDE DEF u
<1>4. DOMAIN t = 1 .. Len(t) /\ DOMAIN u = 1 .. Len(t) + 1
  BY <1>1, <1>3
<1>5. \A i \in 1 .. Len(t) : t[i] # k
  BY <1>1, <1>4 DEF RangeOf
<1>6. Distinct(u)
  BY <1>1, <1>3, <1>4, <1>5 DEF Distinct
<1>7. RangeOf(u) = RangeOf(t) \union {k}
  <2>1. \A x \in RangeOf(u) : x \in RangeOf(t) \union {k}
    BY <1>3, <1>4 DEF RangeOf
  <2>2. \A x \in RangeOf(t) : x \in RangeOf(u)
    BY <1>3, <1>4 DEF RangeOf
  <2>3. k \in RangeOf(u)
    BY <1>3, <1>4 DEF RangeOf
  <2>4. QED
    BY <2>1, <2>2, <2>3
<1>8. QED
  BY <1>1, <1>2, <1>3, <1>6, <1>7

\* and what a sweep leaves is in the order and no more than there is room for.
LEMMA SweptIs ==
    ASSUME NEW S, order \in Seq(S), Distinct(order), NEW idle \in Pools!Idle
    PROVE  /\ Pools!Swept(idle) \in Seq(S) /\ Distinct(Pools!Swept(idle))
           /\ RangeOf(Pools!Swept(idle)) \subseteq RangeOf(order)
           /\ IsFiniteSet(RangeOf(Pools!Swept(idle))) /\ Cardinality(RangeOf(Pools!Swept(idle))) <= MaxPools
<1>1. idle \in 0 .. Len(order) /\ Len(order) \in Nat /\ MaxPools \in Nat
  BY PoolsAssumed DEF Pools!Idle, Pools!Assumption
<1> DEFINE m == (IF Len(order) > MaxPools + idle THEN Len(order) - MaxPools ELSE idle) + 1
           t == SubSeq(order, m, Len(order))
<1>2. Pools!Swept(idle) = t
  BY DEF Pools!Swept
<1>3. m \in 1 .. Len(order) + 1 /\ Len(order) - m + 1 <= MaxPools
  BY <1>1
<1> HIDE DEF m
<1>11. t \in Seq(S) /\ Len(t) = Len(order) - m + 1
  BY <1>1, <1>3, SubSeqProperties
<1>12. ASSUME NEW i \in 1 .. Len(order) - m + 1 PROVE t[i] = order[m + i - 1]
  BY <1>1, <1>3, SubSeqProperties
<1> HIDE DEF t
<1>4. /\ t \in Seq(S) /\ Len(t) = Len(order) - m + 1
      /\ \A i \in 1 .. Len(t) : t[i] = order[m + i - 1] /\ m + i - 1 \in 1 .. Len(order)
  BY <1>1, <1>3, <1>11, <1>12
<1>5. DOMAIN t = 1 .. Len(t) /\ DOMAIN order = 1 .. Len(order) /\ Len(t) \in Nat
  BY <1>4
<1>6. Distinct(t)
  <2>1. SUFFICES ASSUME NEW i \in 1 .. Len(t), NEW j \in 1 .. Len(t), t[i] = t[j] PROVE i = j
    BY <1>5 DEF Distinct
  <2>2. m + i - 1 = m + j - 1
    <3>1. m + i - 1 \in DOMAIN order /\ m + j - 1 \in DOMAIN order /\ order[m + i - 1] = order[m + j - 1]
      BY <1>4, <1>5, <2>1
    <3>2. QED
      BY <3>1 DEF Distinct
  <2>3. QED
    BY <1>3, <2>2
<1>7. RangeOf(t) \subseteq RangeOf(order)
  BY <1>4, <1>5 DEF RangeOf
<1>8. IsFiniteSet(RangeOf(t)) /\ Cardinality(RangeOf(t)) <= Len(t)
  <2>1. IsFiniteSet(1 .. Len(t)) /\ Cardinality(1 .. Len(t)) = Len(t)
    <3>1. \A n \in Nat : IsFiniteSet(1 .. n) /\ Cardinality(1 .. n) = n
      BY FS_Interval
    <3>2. QED
      BY <1>5, <3>1
  <2>2. t \in Surjection(1 .. Len(t), RangeOf(t))
    <3>1. t \in [1 .. Len(t) -> RangeOf(t)]
      <4>1. t = [i \in 1 .. Len(t) |-> t[i]]
        BY <1>4
      <4>2. \A i \in 1 .. Len(t) : t[i] \in RangeOf(t)
        BY <1>5 DEF RangeOf
      <4>3. QED
        BY <4>1, <4>2
    <3>2. QED
      BY <1>5, <3>1 DEF Surjection, RangeOf
  <2>3. QED
    BY <2>1, <2>2, FS_Surjection
<1>9. Cardinality(RangeOf(t)) \in Nat
  BY <1>8, FS_CardinalityType
<1>10. QED
  BY <1>1, <1>2, <1>3, <1>4, <1>5, <1>6, <1>7, <1>8, <1>9

-----------------------------------------------------------------------------
(* Pools: the invariant. *)

NoEntry == Pools!NoEntry
HandleStates ==
    [state : {"none", "building", "open", "ended", "closed"}, key : Pools!Keys \union {""}, secret : Nat]
KeptEntries == [handle : Nat, secret : Nat, due : BOOLEAN]
PoolCalls ==
    [pc : {"idle", "guard", "got", "build", "again"}, key : Pools!Keys \union {""}, secret : Nat,
     had : KeptEntries, got : Nat, build : Nat, again : BOOLEAN]

PoolTypes ==
    /\ pool \in PoolWorlds /\ secret \in [Pools!Keys -> Nat] /\ entries \in [Pools!Keys -> KeptEntries]
    /\ order \in Seq(Pools!Keys) /\ Distinct(order) /\ RangeOf(order) = Pools!Kept
    /\ handle \in [Pools!Handles -> HandleStates] /\ poolCall \in [Callers -> PoolCalls]

\* Handles are numbered as they are made.
Made(H) == {h \in Pools!Handles : H[h].state # "none"}
MadeInv == \E n \in Nat : Made(handle) = 1 .. n

\* What is kept is open, of its key and, unless builds are shared, of its credentials.
EntryFact(e, k, H, shared) ==
    e # NoEntry =>
        /\ e.handle \in Pools!Handles /\ H[e.handle].state \in {"open", "ended"} /\ H[e.handle].key = k
        /\ ~shared => H[e.handle].secret = e.secret

\* So it was of what a call found; what it was given or waits for is of its credentials, too.
AcquireFact(r, H, shared) ==
    /\ r.pc # "idle" => r.key \in Pools!Keys
    /\ r.pc \in {"guard", "build"} /\ r.had # NoEntry =>
        /\ r.had.handle \in Pools!Handles /\ H[r.had.handle].key = r.key
        /\ H[r.had.handle].state \in {"open", "ended", "closed"}
    /\ r.pc = "guard" =>
        /\ r.had # NoEntry
        /\ ~shared => H[r.had.handle].secret = r.secret
    /\ r.pc = "got" => r.got \in Pools!Handles /\ H[r.got].state # "none" /\ (~shared => H[r.got].secret = r.secret)
    /\ r.pc = "build" =>
        /\ r.build \in Pools!Handles /\ H[r.build].state = "building" /\ H[r.build].key = r.key
        /\ ~shared => H[r.build].secret = r.secret

HeldInv ==
    /\ \A k \in Pools!Keys : EntryFact(entries[k], k, handle, pool.shared)
    /\ \A c \in Callers : AcquireFact(poolCall[c], handle, pool.shared) /\ (poolCall[c].pc # "idle" => c \in pool.calls)

\* Somebody waits for each build. Where builds are shared or nobody else builds the same, there
\* is one for a key, and whoever waits for it found what is kept, if anything is.
BuildInv ==
    /\ ~pool.shared => \A c, d \in Callers :
        Pools!At(c, "build") /\ Pools!At(d, "build") /\ poolCall[c].build = poolCall[d].build => c = d
    /\ \A h \in Pools!Building : Pools!Waiting(h) # {}
    /\ pool.shared \/ pool.alone =>
        /\ \A g, h \in Pools!Building : handle[g].key = handle[h].key => g = h
        /\ \A c \in Callers : Pools!At(c, "build") /\ entries[poolCall[c].key] # NoEntry =>
            poolCall[c].had # NoEntry /\ poolCall[c].had.handle = entries[poolCall[c].key].handle

\* Who waits for a build may add one to what a sweep has left.
Builders == {c \in Callers : Pools!At(c, "build")}
RoomInv ==
    /\ IsFiniteSet(Pools!Kept)
    /\ Cardinality(Pools!Kept) + Cardinality(Builders) <= MaxPools + Cardinality(pool.calls)

PoolInv == PoolTypes /\ MadeInv /\ HeldInv /\ BuildInv /\ Pools!NothingLeaks /\ RoomInv

-----------------------------------------------------------------------------
LEMMA HandlesAre == 0 \notin Pools!Handles /\ Pools!Handles \subseteq Nat /\ NoEntry \in KeptEntries /\ NoEntry.handle = 0
<1>1. \A w \in PoolWorlds : w.handles \in Nat
  BY PoolsAssumed DEF Pools!Assumption
<1>2. QED
  BY <1>1 DEF Pools!Handles, NoEntry, Pools!NoEntry, KeptEntries

\* A handle once made keeps its key and its credentials, and is closed at most.
Later(H, G) ==
    \A h \in Pools!Handles : H[h].state # "none" =>
        /\ G[h].key = H[h].key /\ G[h].secret = H[h].secret
        /\ G[h].state = H[h].state \/ (H[h].state \in {"open", "ended"} /\ G[h].state \in {"ended", "closed"})

LEMMA CallsKeep ==
    ASSUME NEW H, NEW G, Later(H, G), NEW shared, NEW r, AcquireFact(r, H, shared)
    PROVE  AcquireFact(r, G, shared)
BY DEF Later, AcquireFact

LEMMA ClosedIs ==
    ASSUME NEW S, handle \in [Pools!Handles -> HandleStates]
    PROVE  /\ Pools!Close(S) \in [Pools!Handles -> HandleStates]
           /\ \A h \in Pools!Handles :
               /\ Pools!Close(S)[h].key = handle[h].key /\ Pools!Close(S)[h].secret = handle[h].secret
               /\ Pools!Close(S)[h].state = IF h \in S THEN "closed" ELSE handle[h].state
BY DEF Pools!Close, HandleStates

\* There is one handle for each key that is kept.
LEMMA OneHandle ==
    ASSUME HeldInv, NEW j \in Pools!Kept, NEW k \in Pools!Kept, entries[j].handle = entries[k].handle
    PROVE  j = k
<1>1. j \in Pools!Keys /\ k \in Pools!Keys /\ entries[j] # NoEntry /\ entries[k] # NoEntry
  BY DEF Pools!Kept, NoEntry
<1>2. handle[entries[j].handle].key = j /\ handle[entries[k].handle].key = k
  BY <1>1 DEF HeldInv, EntryFact
<1>3. QED
  BY <1>2

\* A call begins, with what a sweep has left.
LEMMA AcquireKeeps ==
    ASSUME PoolInv, NEW c \in Callers, NEW k \in Pools!Keys, NEW s \in Nat, NEW idle \in Pools!Idle,
           Pools!Acquire(c, k, s, idle), c \in pool.calls, poolCall[c].pc \notin {"build", "guard"}
    PROVE  PoolInv'
<1> DEFINE keep == Pools!Swept(idle)
           gone == {x \in Pools!Kept : x \notin RangeOf(keep)}
           closed == Pools!Close({entries[x].handle : x \in gone})
           e == IF k \in gone THEN NoEntry ELSE entries[k]
           new == 1 + Cardinality(Made(handle))
           q == poolCall'[c]
<1>1. /\ pool' = pool /\ secret' = secret /\ closes' = closes
      /\ entries' = [x \in Pools!Keys |-> IF x \in gone THEN NoEntry ELSE entries[x]]
  BY RangesAre DEF Pools!Acquire, NoEntry
<1>2. /\ keep \in Seq(Pools!Keys) /\ Distinct(keep) /\ RangeOf(keep) \subseteq Pools!Kept
      /\ IsFiniteSet(RangeOf(keep)) /\ Cardinality(RangeOf(keep)) <= MaxPools
  BY SweptIs DEF PoolInv, PoolTypes
<1>3. Pools!Kept' = RangeOf(keep) /\ entries'[k] = e
  <2>1. \A x \in Pools!Keys : entries'[x] # NoEntry <=> x \in Pools!Kept /\ x \notin gone
    BY <1>1 DEF Pools!Kept, NoEntry
  <2>2. QED
    BY <1>1, <1>2, <2>1 DEF Pools!Kept, NoEntry
<1>4. /\ closed \in [Pools!Handles -> HandleStates]
      /\ \A h \in Pools!Handles :
          /\ closed[h].key = handle[h].key /\ closed[h].secret = handle[h].secret
          /\ closed[h].state = IF \E x \in gone : h = entries[x].handle THEN "closed" ELSE handle[h].state
  <2>1. handle \in [Pools!Handles -> HandleStates]
    BY DEF PoolInv, PoolTypes
  <2> DEFINE S == {entries[x].handle : x \in gone}
  <2>2. \A h : h \in S <=> \E x \in gone : h = entries[x].handle
    OBVIOUS
  <2>3. QED
    BY <2>1, <2>2, ClosedIs
<1> HIDE DEF keep, closed
<1>5. \/ /\ handle' = closed /\ Pools!Hit(e, s)
         /\ \/ /\ order' = keep
               /\ poolCall' = [poolCall EXCEPT ![c] =
                     [poolCall[c] EXCEPT !.key = k, !.secret = s, !.had = e, !.pc = "guard"]]
            \/ /\ order' = Pools!Used(keep, k)
               /\ poolCall' = [poolCall EXCEPT ![c] =
                     [poolCall[c] EXCEPT !.key = k, !.secret = s, !.had = e, !.pc = "got", !.got = e.handle]]
      \/ /\ ~Pools!Hit(e, s) /\ order' = keep
         /\ pool.alone => \A d \in Callers : ~(Pools!At(d, "build") /\ poolCall[d].key = k)
         /\ \E h \in Pools!Handles :
             /\ poolCall' = [poolCall EXCEPT ![c] =
                   [poolCall[c] EXCEPT !.key = k, !.secret = s, !.had = e, !.pc = "build", !.build = h]]
             /\ \/ h \in Pools!Shared(k) /\ handle' = closed
                \/ /\ Pools!Shared(k) = {} /\ h = new
                   /\ handle' = [closed EXCEPT ![h] = [state |-> "building", key |-> k, secret |-> s]]
  <2>1. \A h : h \in Pools!Shared(k) => h \in Pools!Handles
    BY DEF Pools!Shared, Pools!Building
  <2>2. new = 1 + Pools!Cardinality({h \in Pools!Handles : handle[h].state # "none"})
    BY RangesAre DEF Made
  <2>3. new <= pool.handles => new \in Pools!Handles
    <3>1. PICK n \in Nat : Made(handle) = 1 .. n
      BY DEF PoolInv, MadeInv
    <3>2. Cardinality(Made(handle)) = n
      <4>1. \A m \in Nat : Cardinality(1 .. m) = m
        BY FS_Interval
      <4>2. QED
        BY <3>1, <4>1
    <3>3. new \in Nat /\ new >= 1 /\ pool \in PoolWorlds /\ pool.handles \in Nat
      BY <3>2, PoolsAssumed DEF PoolInv, PoolTypes, Pools!Assumption
    <3>4. QED
      BY <3>3 DEF Pools!Handles
  <2>4. keep = Pools!Swept(idle) /\ closed = Pools!Close({entries[x].handle : x \in gone})
    BY DEF keep, closed
  <2>5. gone = {x \in Pools!Kept : x \notin Pools!ToSet(keep)}
    BY RangesAre
  <2> HIDE DEF new, gone
  <2>6. QED
    BY <2>1, <2>2, <2>3, <2>4, <2>5 DEF Pools!Acquire, Pools!Go, Pools!At, NoEntry
<1>6. /\ e \in KeptEntries
      /\ k \in Pools!Kept' <=> e # NoEntry
      /\ EntryFact(e, k, handle, pool.shared)
  <2>1. /\ entries[k] \in KeptEntries /\ EntryFact(entries[k], k, handle, pool.shared)
        /\ entries' \in [Pools!Keys -> KeptEntries]
    BY <1>1, HandlesAre DEF PoolInv, PoolTypes, HeldInv
  <2>2. EntryFact(NoEntry, k, handle, pool.shared)
    BY DEF EntryFact
  <2>3. k \in Pools!Kept' <=> entries'[k] # NoEntry
    BY DEF Pools!Kept, NoEntry
  <2>4. QED
    BY <1>3, <2>1, <2>2, <2>3, HandlesAre
<1>7. new \notin Made(handle) /\ new \in Nat /\ \A n \in Nat : Made(handle) = 1 .. n => new = n + 1
  <2>1. PICK n \in Nat : Made(handle) = 1 .. n
    BY DEF PoolInv, MadeInv
  <2>2. \A m \in Nat : Cardinality(1 .. m) = m
    BY FS_Interval
  <2>3. new = n + 1
    BY <2>1, <2>2
  <2>4. \A m \in Nat : Made(handle) = 1 .. m => new = m + 1
    BY <2>2
  <2>5. QED
    BY <2>1, <2>3, <2>4
<1> HIDE DEF e, new
<1>8. /\ poolCall' = [poolCall EXCEPT ![c] = q] /\ q \in PoolCalls
      /\ q.key = k /\ q.secret = s /\ q.had = e /\ q.pc \in {"guard", "got", "build"}
  <2>1. poolCall \in [Callers -> PoolCalls] /\ poolCall[c] \in PoolCalls /\ e.handle \in Nat
    BY <1>6 DEF PoolInv, PoolTypes, KeptEntries
  <2>2. \A h \in Pools!Handles : h \in Nat
    BY HandlesAre
  <2>3. CASE \E r \in PoolCalls : poolCall' = [poolCall EXCEPT ![c] = r] /\ r.key = k /\ r.secret = s /\ r.had = e
                                  /\ r.pc \in {"guard", "got", "build"}
    BY <2>1, <2>3
  <2>4. QED
    <3> DEFINE a == [poolCall[c] EXCEPT !.key = k, !.secret = s, !.had = e]
               r1 == [a EXCEPT !.pc = "guard"]
               r2 == [a EXCEPT !.pc = "got", !.got = e.handle]
               r3(h) == [a EXCEPT !.pc = "build", !.build = h]
    <3>1. a \in PoolCalls /\ a.key = k /\ a.secret = s /\ a.had = e
      BY <1>6, <2>1 DEF PoolCalls
    <3> HIDE DEF a
    <3>2. r1 \in PoolCalls /\ r1.key = k /\ r1.secret = s /\ r1.had = e /\ r1.pc = "guard"
      BY <3>1 DEF PoolCalls
    <3>3. r2 \in PoolCalls /\ r2.key = k /\ r2.secret = s /\ r2.had = e /\ r2.pc = "got"
      BY <2>1, <3>1 DEF PoolCalls
    <3>4. \A h \in Pools!Handles : r3(h) \in PoolCalls /\ r3(h).key = k /\ r3(h).secret = s /\ r3(h).had = e /\ r3(h).pc = "build"
      BY <2>2, <3>1 DEF PoolCalls
    <3>5. \/ poolCall' = [poolCall EXCEPT ![c] = r1] \/ poolCall' = [poolCall EXCEPT ![c] = r2]
          \/ \E h \in Pools!Handles : poolCall' = [poolCall EXCEPT ![c] = r3(h)]
      BY <1>5, <2>1 DEF a, PoolCalls
    <3>6. QED
      BY <2>3, <3>2, <3>3, <3>4, <3>5
<1>9. Later(handle, handle')
  <2>1. \A h \in Pools!Handles : handle[h].state # "none" =>
          handle'[h].key = closed[h].key /\ handle'[h].secret = closed[h].secret /\ handle'[h].state = closed[h].state
    BY <1>4, <1>5, <1>7 DEF Made
  <2>2. \A x \in gone : handle[entries[x].handle].state \in {"open", "ended"}
    BY DEF PoolInv, HeldInv, EntryFact, Pools!Kept, NoEntry
  <2>3. QED
    BY <1>4, <2>1, <2>2 DEF Later
<1>10. \/ /\ handle' = closed /\ e # NoEntry /\ e.secret = s /\ q.pc = "guard" /\ order' = keep
       \/ /\ handle' = closed /\ e # NoEntry /\ e.secret = s /\ q.pc = "got" /\ q.got = e.handle
          /\ order' = Pools!Used(keep, k)
       \/ /\ order' = keep /\ q.pc = "build" /\ q.build \in Pools!Handles
          /\ pool.alone => \A d \in Callers : ~(Pools!At(d, "build") /\ poolCall[d].key = k)
          /\ \/ q.build \in Pools!Shared(k) /\ handle' = closed
             \/ /\ Pools!Shared(k) = {} /\ q.build = new
                /\ handle' = [closed EXCEPT ![new] = [state |-> "building", key |-> k, secret |-> s]]
  <2>1. poolCall[c] \in PoolCalls /\ poolCall \in [Callers -> PoolCalls]
    BY DEF PoolInv, PoolTypes
  <2>2. \A r : poolCall' = [poolCall EXCEPT ![c] = r] => q = r
    BY <2>1
  <2>3. Pools!Hit(e, s) => e # NoEntry /\ e.secret = s
    BY DEF Pools!Hit, NoEntry
  <2>4. /\ [poolCall[c] EXCEPT !.key = k, !.secret = s, !.had = e, !.pc = "guard"].pc = "guard"
        /\ [poolCall[c] EXCEPT !.key = k, !.secret = s, !.had = e, !.pc = "got", !.got = e.handle].pc = "got"
        /\ [poolCall[c] EXCEPT !.key = k, !.secret = s, !.had = e, !.pc = "got", !.got = e.handle].got = e.handle
        /\ \A h : /\ [poolCall[c] EXCEPT !.key = k, !.secret = s, !.had = e, !.pc = "build", !.build = h].pc = "build"
                  /\ [poolCall[c] EXCEPT !.key = k, !.secret = s, !.had = e, !.pc = "build", !.build = h].build = h
    BY <2>1 DEF PoolCalls
  <2> HIDE DEF q
  <2>5. CASE handle' = closed /\ Pools!Hit(e, s)
    <3>1. e # NoEntry /\ e.secret = s
      BY <2>3, <2>5
    <3> DEFINE ra == [poolCall[c] EXCEPT !.key = k, !.secret = s, !.had = e, !.pc = "guard"]
               rb == [poolCall[c] EXCEPT !.key = k, !.secret = s, !.had = e, !.pc = "got", !.got = e.handle]
    <3>2. \/ order' = keep /\ poolCall' = [poolCall EXCEPT ![c] = ra]
          \/ order' = Pools!Used(keep, k) /\ poolCall' = [poolCall EXCEPT ![c] = rb]
      BY <1>5, <2>5
    <3>3. ra.pc = "guard" /\ rb.pc = "got" /\ rb.got = e.handle
      BY <2>4
    <3> HIDE DEF ra, rb
    <3>4. \/ order' = keep /\ q = ra
          \/ order' = Pools!Used(keep, k) /\ q = rb
      BY <2>2, <3>2
    <3>5. QED
      BY <2>5, <3>1, <3>3, <3>4
  <2>6. CASE ~Pools!Hit(e, s)
    <3> DEFINE rc(h) == [poolCall[c] EXCEPT !.key = k, !.secret = s, !.had = e, !.pc = "build", !.build = h]
    <3>1. /\ order' = keep
          /\ pool.alone => \A d \in Callers : ~(Pools!At(d, "build") /\ poolCall[d].key = k)
      BY <1>5, <2>6
    <3>2. PICK h \in Pools!Handles :
             /\ poolCall' = [poolCall EXCEPT ![c] = rc(h)]
             /\ \/ h \in Pools!Shared(k) /\ handle' = closed
                \/ /\ Pools!Shared(k) = {} /\ h = new
                   /\ handle' = [closed EXCEPT ![h] = [state |-> "building", key |-> k, secret |-> s]]
      BY <1>5, <2>6
    <3>3. rc(h).pc = "build" /\ rc(h).build = h
      BY <2>4
    <3> HIDE DEF rc
    <3>4. q = rc(h)
      BY <2>2, <3>2
    <3>5. q.pc = "build" /\ q.build = h
      BY <3>3, <3>4
    <3>6. QED
      BY <3>1, <3>2, <3>5
  <2>7. QED
    BY <1>5, <2>5, <2>6
<1>11. \A h \in Pools!Handles : h # q.build \/ q.pc # "build" =>
          handle'[h].state = closed[h].state /\ handle'[h].key = closed[h].key
  BY <1>4, <1>10
<1>12. q.pc = "build" =>
          /\ handle'[q.build].state = "building" /\ handle'[q.build].key = k
          /\ ~pool.shared => handle'[q.build].secret = s
          /\ q.build \in Pools!Building \/ handle[q.build].state = "none"
  <2>1. \A h \in Pools!Shared(k) : h \in Pools!Building /\ handle[h].key = k /\ pool.shared
    BY DEF Pools!Shared
  <2>2. \A h \in Pools!Building : h \in Pools!Handles /\ handle[h].state = "building"
    BY DEF Pools!Building
  <2>3. \A x \in gone : handle[entries[x].handle].state \in {"open", "ended"}
    BY DEF PoolInv, HeldInv, EntryFact, Pools!Kept, NoEntry
  <2>4. QED
    BY <1>4, <1>7, <1>10, <2>1, <2>2, <2>3 DEF Made
<1>13. PoolTypes'
  <2>1. entries' \in [Pools!Keys -> KeptEntries]
    BY <1>1, HandlesAre DEF PoolInv, PoolTypes
  <2>2. order' \in Seq(Pools!Keys) /\ Distinct(order') /\ RangeOf(order') = Pools!Kept'
    <3>1. CASE order' = keep
      BY <1>2, <1>3, <3>1
    <3>2. CASE order' = Pools!Used(keep, k) /\ e # NoEntry
      <4>1. k \in RangeOf(keep)
        BY <1>3, <1>6, <3>2
      <4>2. /\ Pools!Used(keep, k) \in Seq(Pools!Keys) /\ Distinct(Pools!Used(keep, k))
            /\ RangeOf(Pools!Used(keep, k)) = RangeOf(keep) \union {k}
        BY <1>2, UsedIs
      <4>3. RangeOf(Pools!Used(keep, k)) = RangeOf(keep)
        BY <4>1, <4>2
      <4>4. QED
        BY <1>3, <3>2, <4>2, <4>3
    <3>3. order' = keep \/ (order' = Pools!Used(keep, k) /\ e # NoEntry)
      BY <1>10
    <3>4. QED
      BY <3>1, <3>2, <3>3
  <2>3. handle' \in [Pools!Handles -> HandleStates]
    <3>1. [state |-> "building", key |-> k, secret |-> s] \in HandleStates
      BY DEF HandleStates
    <3>2. handle' = closed \/ handle' = [closed EXCEPT ![new] = [state |-> "building", key |-> k, secret |-> s]]
      BY <1>10
    <3>3. QED
      BY <1>4, <3>1, <3>2
  <2>4. poolCall' \in [Callers -> PoolCalls]
    BY <1>8 DEF PoolInv, PoolTypes
  <2>5. QED
    BY <1>1, <2>1, <2>2, <2>3, <2>4 DEF PoolInv, PoolTypes
<1>14. MadeInv'
  <2>1. PICK n \in Nat : Made(handle) = 1 .. n
    BY DEF PoolInv, MadeInv
  <2>2. \A h \in Pools!Handles : closed[h].state # "none" <=> handle[h].state # "none"
    <3>1. \A x \in gone : handle[entries[x].handle].state \in {"open", "ended"}
      BY DEF PoolInv, HeldInv, EntryFact, Pools!Kept, NoEntry
    <3>2. QED
      BY <1>4, <3>1
  <2>3. Made(closed) = Made(handle)
    BY <2>2 DEF Made
  <2>4. CASE handle' = closed
    BY <2>1, <2>3, <2>4 DEF MadeInv
  <2>5. CASE new \in Pools!Handles /\ handle' = [closed EXCEPT ![new] = [state |-> "building", key |-> k, secret |-> s]]
    <3>1. Made(handle') = Made(handle) \union {new}
      BY <1>4, <2>2, <2>5 DEF Made
    <3>2. new = n + 1
      BY <1>7, <2>1
    <3>3. Made(handle') = 1 .. n + 1
      BY <2>1, <3>1, <3>2
    <3>4. QED
      BY <2>1, <3>3 DEF MadeInv
  <2>6. QED
    BY <1>10, <2>4, <2>5
<1>15. HeldInv'
  <2>1. ASSUME NEW x \in Pools!Keys PROVE EntryFact(entries'[x], x, handle', pool.shared)
    <3>1. CASE entries'[x] = NoEntry
      BY <3>1 DEF EntryFact
    <3>2. CASE x \in Pools!Kept /\ x \notin gone /\ entries'[x] = entries[x]
      <4>1. EntryFact(entries[x], x, handle, pool.shared) /\ entries[x] # NoEntry
        BY <3>2 DEF PoolInv, HeldInv, Pools!Kept, NoEntry
      <4>2. \A y \in gone : entries[y].handle # entries[x].handle
        BY <3>2, OneHandle DEF PoolInv
      <4>3. closed[entries[x].handle].state = handle[entries[x].handle].state
        BY <1>4, <4>1, <4>2 DEF EntryFact
      <4>4. handle[entries[x].handle].state \in {"open", "ended"} /\ entries[x].handle \in Pools!Handles
        BY <4>1 DEF EntryFact
      <4>5. handle'[entries[x].handle].state = handle[entries[x].handle].state
        BY <1>11, <1>12, <4>3, <4>4 DEF Pools!Building
      <4>6. QED
        BY <1>9, <3>2, <4>1, <4>4, <4>5 DEF EntryFact, Later
    <3>3. QED
      BY <1>1, <3>1, <3>2 DEF Pools!Kept, NoEntry
  <2>2. ASSUME NEW d \in Callers
        PROVE  AcquireFact(poolCall'[d], handle', pool.shared) /\ (poolCall'[d].pc # "idle" => d \in pool.calls)
    <3>1. CASE d # c
      <4>1. poolCall'[d] = poolCall[d]
        BY <1>8, <3>1 DEF PoolInv, PoolTypes
      <4>2. QED
        BY <1>9, <4>1, CallsKeep DEF PoolInv, HeldInv
    <3>2. CASE d = c
      <4>1. e # NoEntry => /\ e.handle \in Pools!Handles /\ handle'[e.handle].key = k
                           /\ handle'[e.handle].state \in {"open", "ended"}
                           /\ ~pool.shared => handle'[e.handle].secret = e.secret
        BY <1>3, <2>1 DEF EntryFact
      <4>2. AcquireFact(q, handle', pool.shared)
        BY <1>8, <1>10, <1>12, <4>1 DEF AcquireFact
      <4>3. QED
        BY <3>2, <4>2
    <3>3. QED
      BY <3>1, <3>2
  <2>3. QED
    BY <1>1, <2>1, <2>2 DEF HeldInv
<1>16. BuildInv'
  <2>1. \A d \in Callers : d # c => poolCall'[d] = poolCall[d]
    BY <1>8 DEF PoolInv, PoolTypes
  <2>2. \A d \in Callers : Pools!At(d, "build")' <=> (IF d = c THEN q.pc = "build" ELSE Pools!At(d, "build"))
    BY <2>1 DEF Pools!At
  <2>3. \A d \in Callers : Pools!At(d, "build") =>
          /\ poolCall[d].build \in Pools!Building /\ handle[poolCall[d].build].key = poolCall[d].key
          /\ poolCall[d].build # new /\ poolCall[d].key \in Pools!Keys /\ d # c
    <3>1. \A d \in Callers : Pools!At(d, "build") =>
            /\ poolCall[d].build \in Pools!Handles /\ handle[poolCall[d].build].state = "building"
            /\ handle[poolCall[d].build].key = poolCall[d].key /\ poolCall[d].key \in Pools!Keys
      BY DEF PoolInv, HeldInv, AcquireFact, Pools!At
    <3>2. QED
      BY <1>7, <3>1 DEF Pools!Building, Made, Pools!At
  <2>4. \A h \in Pools!Building' : h \in Pools!Building \/ (h = q.build /\ q.pc = "build")
    <3>1. \A h \in Pools!Handles : closed[h].state = "building" => handle[h].state = "building"
      BY <1>4
    <3>2. QED
      BY <1>11, <3>1 DEF Pools!Building
  <2>5. ~pool.shared => q.build = new \/ q.pc # "build"
    BY <1>10 DEF Pools!Shared
  <2>6. ASSUME ~pool.shared PROVE \A x, y \in Callers :
           Pools!At(x, "build")' /\ Pools!At(y, "build")' /\ poolCall'[x].build = poolCall'[y].build => x = y
    BY <2>1, <2>2, <2>3, <2>5, <2>6 DEF PoolInv, BuildInv
  <2>7. ASSUME NEW h \in Pools!Building' PROVE Pools!Waiting(h)' # {}
    <3>1. CASE h = q.build /\ q.pc = "build"
      <4>1. c \in Pools!Waiting(h)'
        BY <2>2, <3>1 DEF Pools!Waiting
      <4>2. QED
        BY <4>1
    <3>2. CASE h \in Pools!Building
      <4>1. PICK d \in Callers : Pools!At(d, "build") /\ poolCall[d].build = h
        BY <3>2 DEF PoolInv, BuildInv, Pools!Waiting
      <4>2. d \in Pools!Waiting(h)'
        BY <2>1, <2>2, <2>3, <4>1 DEF Pools!Waiting
      <4>3. QED
        BY <4>2
    <3>3. QED
      BY <2>4, <3>1, <3>2
  <2>8. ASSUME pool.shared \/ pool.alone, NEW g \in Pools!Building', NEW h \in Pools!Building', handle'[g].key = handle'[h].key
        PROVE  g = h
    <3>1. \A x \in Pools!Building : handle'[x].key = handle[x].key /\ x \in Pools!Handles
      BY <1>9 DEF Later, Pools!Building
    <3>2. ASSUME NEW x \in Pools!Building, q.pc = "build", handle[x].key = k PROVE x = q.build
      <4>1. x \in Pools!Handles /\ handle[x].state = "building"
        BY DEF Pools!Building
      <4>2. CASE q.build \in Pools!Shared(k)
        <5>1. q.build \in Pools!Building /\ handle[q.build].key = k
          BY <4>2 DEF Pools!Shared
        <5>2. QED
          BY <2>8, <3>2, <5>1 DEF PoolInv, BuildInv
      <4>3. CASE Pools!Shared(k) = {} /\ pool.shared
        BY <3>2, <4>1, <4>3 DEF Pools!Shared, Pools!Building
      <4>4. CASE pool.alone
        <5>1. PICK d \in Callers : Pools!At(d, "build") /\ poolCall[d].build = x
          BY DEF PoolInv, BuildInv, Pools!Waiting
        <5>2. poolCall[d].key = k
          BY <2>3, <3>2, <5>1
        <5>3. QED
          BY <1>10, <3>2, <4>4, <5>1, <5>2
      <4>5. QED
        BY <1>10, <2>8, <3>2, <4>2, <4>3, <4>4
    <3>3. CASE g \in Pools!Building /\ h \in Pools!Building
      BY <2>8, <3>1, <3>3 DEF PoolInv, BuildInv
    <3>4. QED
      BY <1>12, <2>4, <2>8, <3>1, <3>2, <3>3
  <2>9. ASSUME pool.shared \/ pool.alone, NEW d \in Callers, Pools!At(d, "build")', entries'[poolCall'[d].key] # NoEntry
        PROVE  poolCall'[d].had # NoEntry /\ poolCall'[d].had.handle = entries'[poolCall'[d].key].handle
    <3>1. CASE d = c
      BY <1>3, <1>8, <2>9, <3>1
    <3>2. CASE d # c
      <4>1. poolCall'[d] = poolCall[d] /\ Pools!At(d, "build") /\ poolCall[d].key \in Pools!Keys
        BY <2>1, <2>2, <2>3, <2>9, <3>2
      <4>2. entries'[poolCall[d].key] = entries[poolCall[d].key] /\ entries[poolCall[d].key] # NoEntry
        BY <1>1, <2>9, <4>1
      <4>3. QED
        BY <2>9, <4>1, <4>2 DEF PoolInv, BuildInv
    <3>3. QED
      BY <3>1, <3>2
  <2>10. QED
    BY <1>1, <2>6, <2>7, <2>8, <2>9 DEF BuildInv
<1>17. Pools!NothingLeaks'
  <2>1. SUFFICES ASSUME pool.shared \/ pool.alone, NEW h \in Pools!Opened' PROVE \E x \in Pools!Kept' : entries'[x].handle = h
    BY <1>1 DEF Pools!NothingLeaks
  <2>2. h \in Pools!Handles /\ closed[h].state \in {"open", "ended"}
    BY <1>11, <1>12 DEF Pools!Opened
  <2>3. h \in Pools!Opened /\ \A x \in gone : entries[x].handle # h
    BY <1>4, <2>2 DEF Pools!Opened
  <2>4. PICK x \in Pools!Kept : entries[x].handle = h
    BY <2>1, <2>3 DEF PoolInv, Pools!NothingLeaks
  <2>5. x \notin gone
    BY <2>3, <2>4
  <2>6. x \in Pools!Kept' /\ entries'[x] = entries[x]
    BY <1>1, <1>3, <2>5 DEF Pools!Kept
  <2>7. QED
    BY <2>4, <2>6
<1>18. RoomInv'
  <2>1. IsFiniteSet(pool.calls) /\ MaxPools \in Nat
    BY PoolsAssumed, RangesAre DEF PoolInv, PoolTypes, Pools!Assumption
  <2>2. Builders' \subseteq pool.calls
    <3>1. HeldInv'
      BY <1>15
    <3>2. QED
      BY <1>1, <3>1 DEF Builders, HeldInv, Pools!At
  <2>3. IsFiniteSet(Builders') /\ Cardinality(Builders') <= Cardinality(pool.calls)
    BY <2>1, <2>2, FS_Subset
  <2>4. Cardinality(Builders') \in Nat /\ Cardinality(pool.calls) \in Nat /\ Cardinality(RangeOf(keep)) \in Nat
    BY <1>2, <2>1, <2>3, FS_CardinalityType
  <2>5. QED
    BY <1>1, <1>2, <1>3, <2>1, <2>3, <2>4 DEF RoomInv
<1>19. QED
  BY <1>13, <1>14, <1>15, <1>16, <1>17, <1>18 DEF PoolInv

-----------------------------------------------------------------------------
\* Steps of calls that leave the builds and what is kept alone.
LEMMA CallsMove ==
    ASSUME PoolInv, UNCHANGED <<pool, entries, order, handle>>, secret' \in [Pools!Keys -> Nat],
           poolCall' \in [Callers -> PoolCalls],
           \A d \in Callers :
               \/ poolCall'[d] = poolCall[d]
               \/ poolCall[d].pc # "build" /\ poolCall'[d].pc = "idle"
               \/ /\ poolCall[d].pc # "build" /\ poolCall'[d].pc # "build"
                  /\ AcquireFact(poolCall'[d], handle, pool.shared) /\ d \in pool.calls
    PROVE  PoolInv'
<1>1. \A d \in Callers : Pools!At(d, "build")' <=> Pools!At(d, "build")
  BY DEF Pools!At
<1>2. \A d \in Callers : Pools!At(d, "build") => poolCall'[d] = poolCall[d]
  BY DEF Pools!At
<1>3. PoolTypes' /\ MadeInv'
  <2>1. Pools!Kept' = Pools!Kept /\ Made(handle') = Made(handle)
    BY DEF Pools!Kept
  <2>2. QED
    BY <2>1 DEF PoolInv, PoolTypes, MadeInv
<1>4. HeldInv'
  <2>1. \A d \in Callers : poolCall'[d].pc = "idle" => AcquireFact(poolCall'[d], handle, pool.shared)
    BY DEF AcquireFact
  <2>2. QED
    BY <2>1 DEF PoolInv, HeldInv
<1>5. BuildInv'
  <2>1. Pools!Building' = Pools!Building /\ \A h : Pools!Waiting(h)' = Pools!Waiting(h)
    BY <1>1, <1>2 DEF Pools!Building, Pools!Waiting
  <2>2. QED
    BY <1>1, <1>2, <2>1 DEF PoolInv, BuildInv
<1>6. Pools!NothingLeaks' /\ RoomInv'
  <2>1. Pools!Kept' = Pools!Kept /\ Pools!Opened' = Pools!Opened /\ Builders' = Builders
    BY <1>1 DEF Pools!Kept, Pools!Opened, Builders
  <2>2. QED
    BY <2>1 DEF PoolInv, Pools!NothingLeaks, RoomInv
<1>7. QED
  BY <1>3, <1>4, <1>5, <1>6 DEF PoolInv

\* Fewer that build, and no more that is kept, fit where the others did.
LEMMA BuildersAre == PoolInv => /\ IsFiniteSet(pool.calls) /\ Cardinality(pool.calls) \in Nat /\ MaxPools \in Nat
                                /\ IsFiniteSet(Builders) /\ Cardinality(Builders) \in Nat
                                /\ IsFiniteSet(Pools!Kept) /\ Cardinality(Pools!Kept) \in Nat
<1> SUFFICES ASSUME PoolInv PROVE /\ IsFiniteSet(pool.calls) /\ Cardinality(pool.calls) \in Nat /\ MaxPools \in Nat
                                  /\ IsFiniteSet(Builders) /\ Cardinality(Builders) \in Nat
                                  /\ IsFiniteSet(Pools!Kept) /\ Cardinality(Pools!Kept) \in Nat
  OBVIOUS
<1>1. IsFiniteSet(pool.calls) /\ MaxPools \in Nat
  BY PoolsAssumed, RangesAre DEF PoolInv, PoolTypes, Pools!Assumption
<1>2. Builders \subseteq pool.calls
  BY DEF PoolInv, HeldInv, Builders, Pools!At
<1>3. IsFiniteSet(Builders) /\ IsFiniteSet(Pools!Kept)
  BY <1>1, <1>2, FS_Subset DEF PoolInv, RoomInv
<1>4. QED
  BY <1>1, <1>3, FS_CardinalityType

LEMMA FewerBuild ==
    ASSUME PoolInv, pool' = pool, Pools!Kept' \subseteq Pools!Kept, Builders' \subseteq Builders
    PROVE  RoomInv'
<1>1. /\ IsFiniteSet(Pools!Kept') /\ Cardinality(Pools!Kept') <= Cardinality(Pools!Kept)
      /\ IsFiniteSet(Builders') /\ Cardinality(Builders') <= Cardinality(Builders)
  BY BuildersAre, FS_Subset
<1>2. Cardinality(Pools!Kept') \in Nat /\ Cardinality(Builders') \in Nat
  BY <1>1, FS_CardinalityType
<1>3. QED
  BY <1>1, <1>2, BuildersAre DEF PoolInv, RoomInv

LEMMA NoCallIs == Pools!NoCall \in PoolCalls /\ Pools!NoCall.pc = "idle"
BY HandlesAre DEF Pools!NoCall, PoolCalls, NoEntry

LEMMA CallsEnd ==
    ASSUME PoolInv, NEW c \in Callers, Pools!GuardFails(c) \/ Pools!Use(c)
    PROVE  PoolInv'
<1>1. poolCall \in [Callers -> PoolCalls] /\ secret \in [Pools!Keys -> Nat]
  BY DEF PoolInv, PoolTypes
<1>2. /\ poolCall' = [poolCall EXCEPT ![c] = Pools!NoCall] /\ poolCall[c].pc # "build"
      /\ UNCHANGED <<pool, secret, entries, order, handle>>
  BY DEF Pools!GuardFails, Pools!Use, Pools!Go, Pools!At
<1>3. QED
  BY <1>1, <1>2, NoCallIs, CallsMove

LEMMA RotateKeeps ==
    ASSUME PoolInv, NEW k \in Pools!Keys, Pools!Rotate(k)
    PROVE  PoolInv'
<1>1. poolCall \in [Callers -> PoolCalls] /\ secret \in [Pools!Keys -> Nat]
  BY DEF PoolInv, PoolTypes
<1>2. secret' \in [Pools!Keys -> Nat] /\ UNCHANGED <<pool, entries, order, handle, poolCall>>
  BY <1>1 DEF Pools!Rotate
<1>3. QED
  BY <1>1, <1>2, CallsMove

\* A server ends a handle.
LEMMA ServerEndsKeeps ==
    ASSUME PoolInv, NEW h \in Pools!Handles, Pools!ServerEnds(h)
    PROVE  PoolInv'
<1>1. /\ handle[h].state = "open" /\ handle' = [handle EXCEPT ![h].state = "ended"]
      /\ UNCHANGED <<pool, secret, entries, order, poolCall>>
  BY DEF Pools!ServerEnds
<1>2. handle \in [Pools!Handles -> HandleStates]
  BY DEF PoolInv, PoolTypes
<1>3. /\ handle' \in [Pools!Handles -> HandleStates]
      /\ \A g \in Pools!Handles :
          /\ handle'[g].key = handle[g].key /\ handle'[g].secret = handle[g].secret
          /\ handle'[g].state = IF g = h THEN "ended" ELSE handle[g].state
  BY <1>1, <1>2 DEF HandleStates
<1>4. Pools!Kept' = Pools!Kept /\ Pools!Opened' = Pools!Opened /\ Pools!Building' = Pools!Building /\ Made(handle') = Made(handle)
  BY <1>1, <1>3 DEF Pools!Kept, Pools!Opened, Pools!Building, Made
<1>5. Builders' = Builders /\ \A g : Pools!Waiting(g)' = Pools!Waiting(g)
  BY <1>1 DEF Builders, Pools!Waiting, Pools!At
<1>6. PoolTypes' /\ MadeInv'
  BY <1>1, <1>3, <1>4 DEF PoolInv, PoolTypes, MadeInv
<1>7. HeldInv'
  <2>1. Later(handle, handle')
    BY <1>1, <1>3 DEF Later
  <2>2. \A k \in Pools!Keys : EntryFact(entries[k], k, handle, pool.shared) => EntryFact(entries[k], k, handle', pool.shared)
    BY <1>3 DEF EntryFact
  <2>3. QED
    BY <1>1, <2>1, <2>2, CallsKeep DEF PoolInv, HeldInv
<1>8. BuildInv'
  <2>1. \A g \in Pools!Building : g \in Pools!Handles
    BY DEF Pools!Building
  <2>2. QED
    BY <1>1, <1>3, <1>4, <1>5, <2>1 DEF PoolInv, BuildInv, Pools!At
<1>9. Pools!NothingLeaks' /\ RoomInv'
  BY <1>1, <1>4, <1>5 DEF PoolInv, Pools!NothingLeaks, RoomInv
<1>10. QED
  BY <1>6, <1>7, <1>8, <1>9 DEF PoolInv

\* Handles get old, or were approved again: who keeps which stays.
LEMMA DueKeeps ==
    ASSUME PoolInv, NEW k \in Pools!Keys, NEW due \in BOOLEAN, entries[k] # NoEntry,
           entries' = [entries EXCEPT ![k].due = due], UNCHANGED <<pool, secret, handle>>,
           order' \in Seq(Pools!Keys), Distinct(order'), RangeOf(order') = RangeOf(order),
           poolCall' \in [Callers -> PoolCalls],
           \A d \in Callers :
               \/ poolCall'[d] = poolCall[d]
               \/ /\ poolCall[d].pc # "build" /\ poolCall'[d].pc # "build"
                  /\ AcquireFact(poolCall'[d], handle, pool.shared) /\ d \in pool.calls
    PROVE  PoolInv'
<1>1. entries \in [Pools!Keys -> KeptEntries]
  BY DEF PoolInv, PoolTypes
<1>2. EntryFact(entries[k], k, handle, pool.shared)
  BY DEF PoolInv, HeldInv
<1>3. entries[k].handle # 0
  BY <1>2, HandlesAre DEF EntryFact
<1>4. /\ entries' \in [Pools!Keys -> KeptEntries] /\ entries'[k] # NoEntry
      /\ \A x \in Pools!Keys : /\ entries'[x].handle = entries[x].handle /\ entries'[x].secret = entries[x].secret
                               /\ x # k => entries'[x] = entries[x]
  <2>1. /\ entries' \in [Pools!Keys -> KeptEntries]
        /\ \A x \in Pools!Keys : /\ entries'[x].handle = entries[x].handle /\ entries'[x].secret = entries[x].secret
                                 /\ x # k => entries'[x] = entries[x]
    BY <1>1 DEF KeptEntries
  <2>2. QED
    BY <1>3, <2>1, HandlesAre
<1>5. \A x \in Pools!Keys : entries'[x] # NoEntry <=> entries[x] # NoEntry
  BY <1>4
<1>6. Pools!Kept' = Pools!Kept
  BY <1>5 DEF Pools!Kept, NoEntry
<1>7. \A d \in Callers : Pools!At(d, "build")' <=> Pools!At(d, "build")
  BY DEF Pools!At
<1>8. \A d \in Callers : Pools!At(d, "build") => poolCall'[d] = poolCall[d]
  BY DEF Pools!At
<1>9. PoolTypes' /\ MadeInv'
  BY <1>4, <1>6 DEF PoolInv, PoolTypes, MadeInv
<1>10. HeldInv'
  <2>1. \A x \in Pools!Keys : EntryFact(entries'[x], x, handle, pool.shared)
    <3>1. \A x \in Pools!Keys : EntryFact(entries[x], x, handle, pool.shared)
      BY DEF PoolInv, HeldInv
    <3>2. QED
      BY <1>4, <1>5, <3>1 DEF EntryFact
  <2>2. QED
    BY <2>1 DEF PoolInv, HeldInv
<1>11. BuildInv'
  <2>1. Pools!Building' = Pools!Building /\ \A h : Pools!Waiting(h)' = Pools!Waiting(h)
    BY <1>7, <1>8 DEF Pools!Building, Pools!Waiting
  <2>2. \A d \in Callers : Pools!At(d, "build") => poolCall[d].key \in Pools!Keys
    BY DEF PoolInv, HeldInv, AcquireFact, Pools!At
  <2>3. QED
    BY <1>4, <1>5, <1>7, <1>8, <2>1, <2>2 DEF PoolInv, BuildInv
<1>12. Pools!NothingLeaks' /\ RoomInv'
  <2>1. Pools!Opened' = Pools!Opened /\ Builders' = Builders
    BY <1>7 DEF Pools!Opened, Builders
  <2>2. \A x \in Pools!Kept : entries'[x].handle = entries[x].handle
    BY <1>4 DEF Pools!Kept
  <2>3. QED
    BY <1>6, <2>1, <2>2 DEF PoolInv, Pools!NothingLeaks, RoomInv
<1>13. QED
  BY <1>9, <1>10, <1>11, <1>12 DEF PoolInv

LEMMA GuardEndsKeeps ==
    ASSUME PoolInv, NEW k \in Pools!Keys, Pools!GuardEnds(k)
    PROVE  PoolInv'
<1>1. /\ entries[k] # NoEntry /\ entries' = [entries EXCEPT ![k].due = TRUE]
      /\ UNCHANGED <<pool, secret, order, handle, poolCall>>
  BY DEF Pools!GuardEnds, Pools!Kept, NoEntry
<1>2. order \in Seq(Pools!Keys) /\ Distinct(order) /\ poolCall \in [Callers -> PoolCalls]
  BY DEF PoolInv, PoolTypes
<1>3. QED
  BY <1>1, <1>2, DueKeeps

LEMMA GuardedKeeps ==
    ASSUME PoolInv, NEW c \in Callers, Pools!Guarded(c)
    PROVE  PoolInv'
<1> DEFINE k == poolCall[c].key
           q == [poolCall[c] EXCEPT !.pc = "got", !.got = poolCall[c].had.handle]
<1>1. /\ poolCall[c] \in PoolCalls /\ poolCall \in [Callers -> PoolCalls]
      /\ poolCall[c].pc = "guard" /\ poolCall' = [poolCall EXCEPT ![c] = q]
      /\ UNCHANGED <<pool, secret, handle>>
  BY DEF PoolInv, PoolTypes, Pools!Guarded, Pools!Go, Pools!At
<1>2. /\ k \in Pools!Keys /\ poolCall[c].had # NoEntry /\ poolCall[c].had.handle \in Pools!Handles
      /\ handle[poolCall[c].had.handle].state \in {"open", "ended", "closed"}
      /\ ~pool.shared => handle[poolCall[c].had.handle].secret = poolCall[c].secret
      /\ c \in pool.calls
  BY <1>1 DEF PoolInv, HeldInv, AcquireFact
<1>3. /\ q \in PoolCalls /\ q.pc = "got" /\ q.key = k /\ q.secret = poolCall[c].secret
      /\ q.got = poolCall[c].had.handle
  BY <1>1, <1>2, HandlesAre DEF PoolCalls
<1> HIDE DEF q
<1>4. AcquireFact(q, handle, pool.shared)
  BY <1>2, <1>3 DEF AcquireFact
<1>5. /\ poolCall' \in [Callers -> PoolCalls]
      /\ \A d \in Callers :
           \/ poolCall'[d] = poolCall[d]
           \/ /\ poolCall[d].pc # "build" /\ poolCall'[d].pc # "build"
              /\ AcquireFact(poolCall'[d], handle, pool.shared) /\ d \in pool.calls
  BY <1>1, <1>2, <1>3, <1>4
<1>6. order \in Seq(Pools!Keys) /\ Distinct(order) /\ RangeOf(order) = Pools!Kept /\ entries \in [Pools!Keys -> KeptEntries]
  BY DEF PoolInv, PoolTypes
<1>7. CASE entries[k].handle = poolCall[c].had.handle
  <2>1. entries[k] # NoEntry
    BY <1>2, <1>7, HandlesAre
  <2>2. entries' = [entries EXCEPT ![k].due = FALSE] /\ order' = Pools!Used(order, k)
    BY <1>7 DEF Pools!Guarded
  <2>3. k \in RangeOf(order)
    BY <1>2, <1>6, <2>1 DEF Pools!Kept, NoEntry
  <2>4. /\ Pools!Used(order, k) \in Seq(Pools!Keys) /\ Distinct(Pools!Used(order, k))
        /\ RangeOf(Pools!Used(order, k)) = RangeOf(order) \union {k}
    BY <1>2, <1>6, UsedIs
  <2>5. order' \in Seq(Pools!Keys) /\ Distinct(order') /\ RangeOf(order') = RangeOf(order)
    BY <2>2, <2>3, <2>4
  <2> HIDE DEF k
  <2>6. QED
    BY <1>1, <1>2, <1>5, <2>1, <2>2, <2>5, DueKeeps
<1>8. CASE entries[k].handle # poolCall[c].had.handle
  <2>1. entries' = entries /\ order' = order
    BY <1>8 DEF Pools!Guarded
  <2>2. secret' \in [Pools!Keys -> Nat]
    BY <1>1 DEF PoolInv, PoolTypes
  <2>3. QED
    BY <1>1, <1>5, <2>1, <2>2, CallsMove
<1>9. QED
  BY <1>7, <1>8

\* A build fails, for all who wait for it.
LEMMA BuildFailsKeeps ==
    ASSUME PoolInv, NEW h \in Pools!Handles, Pools!BuildFails(h)
    PROVE  PoolInv'
<1>1. /\ handle[h].state = "building" /\ handle' = [handle EXCEPT ![h].state = "closed"]
      /\ UNCHANGED <<pool, secret, entries, order>>
      /\ poolCall' = [d \in Callers |-> IF d \in Pools!Waiting(h) THEN Pools!NoCall ELSE poolCall[d]]
  BY DEF Pools!BuildFails, Pools!Building
<1>2. handle \in [Pools!Handles -> HandleStates] /\ poolCall \in [Callers -> PoolCalls]
  BY DEF PoolInv, PoolTypes
<1>3. /\ handle' \in [Pools!Handles -> HandleStates]
      /\ \A g \in Pools!Handles :
          /\ handle'[g].key = handle[g].key /\ handle'[g].secret = handle[g].secret
          /\ handle'[g].state = IF g = h THEN "closed" ELSE handle[g].state
  BY <1>1, <1>2 DEF HandleStates
<1>4. /\ \A d \in Callers : poolCall'[d] = IF d \in Pools!Waiting(h) THEN Pools!NoCall ELSE poolCall[d]
      /\ \A d \in Callers : d \in Pools!Waiting(h) <=> poolCall[d].pc = "build" /\ poolCall[d].build = h
  BY <1>1 DEF Pools!Waiting, Pools!At
<1>5. \A d \in Callers : Pools!At(d, "build")' <=> Pools!At(d, "build") /\ poolCall[d].build # h
  BY <1>4, NoCallIs DEF Pools!At
<1>6. \A d \in Callers : Pools!At(d, "build")' => poolCall'[d] = poolCall[d]
  BY <1>4, <1>5 DEF Pools!At
<1>7. /\ Pools!Kept' = Pools!Kept /\ Pools!Opened' = Pools!Opened /\ Made(handle') = Made(handle)
      /\ \A g : g \in Pools!Building' <=> g \in Pools!Building /\ g # h
  BY <1>1, <1>3 DEF Pools!Kept, Pools!Opened, Pools!Building, Made
<1>8. PoolTypes' /\ MadeInv'
  <2>1. poolCall' \in [Callers -> PoolCalls]
    BY <1>1, <1>2, NoCallIs
  <2>2. QED
    BY <1>1, <1>3, <1>7, <2>1 DEF PoolInv, PoolTypes, MadeInv
<1>9. HeldInv'
  <2>1. \A k \in Pools!Keys : EntryFact(entries[k], k, handle, pool.shared) => EntryFact(entries[k], k, handle', pool.shared)
    BY <1>1, <1>3 DEF EntryFact
  <2>2. ASSUME NEW d \in Callers PROVE AcquireFact(poolCall'[d], handle', pool.shared) /\ (poolCall'[d].pc # "idle" => d \in pool.calls)
    <3>1. AcquireFact(poolCall[d], handle, pool.shared) /\ (poolCall[d].pc # "idle" => d \in pool.calls)
      BY DEF PoolInv, HeldInv
    <3>2. CASE d \in Pools!Waiting(h)
      BY <1>4, <3>2, NoCallIs DEF AcquireFact
    <3>3. CASE d \notin Pools!Waiting(h)
      <4>1. poolCall'[d] = poolCall[d] /\ (poolCall[d].pc = "build" => poolCall[d].build # h)
        BY <1>4, <3>3
      <4>2. AcquireFact(poolCall[d], handle', pool.shared)
        BY <1>1, <1>3, <3>1, <4>1 DEF AcquireFact
      <4>3. QED
        BY <3>1, <4>1, <4>2
    <3>4. QED
      BY <3>2, <3>3
  <2>3. QED
    BY <1>1, <2>1, <2>2 DEF PoolInv, HeldInv
<1>10. BuildInv'
  <2>1. ASSUME NEW g \in Pools!Building' PROVE Pools!Waiting(g)' # {}
    <3>1. PICK d \in Callers : Pools!At(d, "build") /\ poolCall[d].build = g
      BY <1>7 DEF PoolInv, BuildInv, Pools!Waiting
    <3>2. d \in Pools!Waiting(g)'
      BY <1>5, <1>6, <1>7, <3>1 DEF Pools!Waiting
    <3>3. QED
      BY <3>2
  <2>2. \A g \in Pools!Building : g \in Pools!Handles
    BY DEF Pools!Building
  <2>3. ASSUME pool.shared \/ pool.alone, NEW d \in Callers, Pools!At(d, "build")', entries[poolCall'[d].key] # NoEntry
        PROVE  poolCall'[d].had # NoEntry /\ poolCall'[d].had.handle = entries[poolCall'[d].key].handle
    BY <1>5, <1>6, <2>3 DEF PoolInv, BuildInv
  <2>4. ASSUME ~pool.shared PROVE \A x, y \in Callers :
           Pools!At(x, "build")' /\ Pools!At(y, "build")' /\ poolCall'[x].build = poolCall'[y].build => x = y
    BY <1>5, <1>6, <2>4 DEF PoolInv, BuildInv
  <2>5. pool.shared \/ pool.alone => \A f, g \in Pools!Building' : handle'[f].key = handle'[g].key => f = g
    BY <1>3, <1>7, <2>2 DEF PoolInv, BuildInv
  <2>6. QED
    BY <1>1, <2>1, <2>3, <2>4, <2>5 DEF BuildInv
<1>11. Pools!NothingLeaks'
  BY <1>1, <1>7 DEF PoolInv, Pools!NothingLeaks
<1>12. RoomInv'
  <2>1. Builders' \subseteq Builders
    BY <1>5 DEF Builders
  <2>2. QED
    BY <1>1, <1>7, <2>1, FewerBuild DEF PoolInv
<1>13. QED
  BY <1>8, <1>9, <1>10, <1>11, <1>12 DEF PoolInv

\* A build is done: whoever waits for it keeps what it built, in the place of what was there.
LEMMA BuiltKeeps ==
    ASSUME PoolInv, NEW h \in Pools!Handles, NEW c \in Callers, Pools!Built(h, c)
    PROVE  PoolInv'
<1> DEFINE k == handle[h].key
           R == Pools!Replaced(h)
           e == [handle |-> h, secret |-> poolCall[c].secret, due |-> FALSE]
           W == Pools!Waiting(h)
<1>1. /\ handle[h].state = "building" /\ c \in W /\ UNCHANGED <<pool, secret>>
      /\ handle' = [Pools!Close(R) EXCEPT ![h].state = "open"]
      /\ entries' = [entries EXCEPT ![k] = e] /\ order' = Pools!Used(order, k)
      /\ poolCall' = [d \in Callers |-> IF d \in W THEN [poolCall[d] EXCEPT !.pc = "got", !.got = h] ELSE poolCall[d]]
  BY DEF Pools!Built, Pools!Building
<1>2. /\ handle \in [Pools!Handles -> HandleStates] /\ poolCall \in [Callers -> PoolCalls]
      /\ entries \in [Pools!Keys -> KeptEntries]
      /\ order \in Seq(Pools!Keys) /\ Distinct(order) /\ RangeOf(order) = Pools!Kept
  BY DEF PoolInv, PoolTypes
<1>3. \A d \in Callers : d \in W <=> poolCall[d].pc = "build" /\ poolCall[d].build = h
  BY DEF Pools!Waiting, Pools!At
<1>4. \A d \in Callers : poolCall[d].pc = "build" =>
          /\ poolCall[d].key \in Pools!Keys /\ poolCall[d].build \in Pools!Building
          /\ handle[poolCall[d].build].state = "building" /\ handle[poolCall[d].build].key = poolCall[d].key
          /\ ~pool.shared => handle[poolCall[d].build].secret = poolCall[d].secret
          /\ d \in pool.calls
          /\ poolCall[d].had # NoEntry =>
              /\ poolCall[d].had.handle \in Pools!Handles /\ handle[poolCall[d].had.handle].key = poolCall[d].key
              /\ handle[poolCall[d].had.handle].state \in {"open", "ended", "closed"}
  BY DEF PoolInv, HeldInv, AcquireFact, Pools!Building
<1>5. /\ k \in Pools!Keys /\ poolCall[c].key = k /\ c \in Callers /\ poolCall[c].pc = "build" /\ poolCall[c].build = h
      /\ \A d \in W : d \in Callers /\ poolCall[d].pc = "build" /\ poolCall[d].build = h /\ poolCall[d].key = k
  <2>1. W \subseteq Callers
    BY DEF Pools!Waiting
  <2>2. QED
    BY <1>1, <1>3, <1>4, <2>1
<1>6. /\ \A g \in R : g \in Pools!Handles /\ handle[g].key = k /\ handle[g].state \in {"open", "ended", "closed"}
      /\ \A d \in W : poolCall[d].had # NoEntry => poolCall[d].had.handle \in R
  <2>1. \A g : g \in R <=> \E d \in W : poolCall[d].had # NoEntry /\ g = poolCall[d].had.handle
    BY DEF Pools!Replaced, NoEntry
  <2>2. QED
    BY <1>4, <1>5, <2>1
<1>7. /\ handle' \in [Pools!Handles -> HandleStates]
      /\ \A g \in Pools!Handles :
          /\ handle'[g].key = handle[g].key /\ handle'[g].secret = handle[g].secret
          /\ handle'[g].state = IF g = h THEN "open" ELSE IF g \in R THEN "closed" ELSE handle[g].state
  <2> DEFINE C == Pools!Close(R)
  <2>1. /\ C \in [Pools!Handles -> HandleStates]
        /\ \A g \in Pools!Handles :
            /\ C[g].key = handle[g].key /\ C[g].secret = handle[g].secret
            /\ C[g].state = IF g \in R THEN "closed" ELSE handle[g].state
    BY <1>2, ClosedIs
  <2>2. handle' = [C EXCEPT ![h].state = "open"]
    BY <1>1
  <2> HIDE DEF C, R
  <2>3. QED
    BY <2>1, <2>2 DEF HandleStates
<1>8. h \notin R /\ h # 0 /\ h \in Nat
  BY <1>1, <1>6, HandlesAre
<1>9. e \in KeptEntries /\ e # NoEntry /\ e.handle = h /\ e.secret = poolCall[c].secret
  <2>1. poolCall[c].secret \in Nat
    BY <1>2 DEF PoolCalls
  <2>2. QED
    BY <1>8, <2>1, HandlesAre DEF KeptEntries
<1> HIDE DEF e, R, W
<1>10. /\ entries' \in [Pools!Keys -> KeptEntries] /\ entries'[k] = e
       /\ \A x \in Pools!Keys : x # k => entries'[x] = entries[x]
  BY <1>1, <1>2, <1>5, <1>9
<1>11. Pools!Kept' = Pools!Kept \union {k}
  <2>1. \A x \in Pools!Keys : entries'[x] # NoEntry <=> entries[x] # NoEntry \/ x = k
    BY <1>9, <1>10
  <2>2. QED
    BY <1>5, <2>1 DEF Pools!Kept, NoEntry
<1>12. /\ \A d \in Callers : d \in W =>
             /\ poolCall'[d] \in PoolCalls /\ poolCall'[d].pc = "got" /\ poolCall'[d].got = h
             /\ poolCall'[d].key = k /\ poolCall'[d].secret = poolCall[d].secret
       /\ \A d \in Callers : d \notin W => poolCall'[d] = poolCall[d]
       /\ poolCall' \in [Callers -> PoolCalls]
  <2>1. \A d \in Callers : poolCall'[d] = IF d \in W THEN [poolCall[d] EXCEPT !.pc = "got", !.got = h] ELSE poolCall[d]
    BY <1>1
  <2>2. ASSUME NEW d \in Callers, d \in W
        PROVE  /\ poolCall'[d] \in PoolCalls /\ poolCall'[d].pc = "got" /\ poolCall'[d].got = h
               /\ poolCall'[d].key = k /\ poolCall'[d].secret = poolCall[d].secret
    BY <1>2, <1>5, <1>8, <2>1, <2>2 DEF PoolCalls
  <2>3. \A d \in Callers : poolCall'[d] \in PoolCalls
    BY <1>2, <2>1, <2>2
  <2>4. poolCall' \in [Callers -> PoolCalls]
    BY <1>1, <2>3
  <2>5. QED
    BY <2>1, <2>2, <2>4
<1> HIDE DEF k
<1>13. /\ \A d \in Callers : Pools!At(d, "build")' <=> Pools!At(d, "build") /\ poolCall[d].build # h
       /\ \A d \in Callers : Pools!At(d, "build")' => poolCall'[d] = poolCall[d]
  BY <1>3, <1>12 DEF Pools!At
<1>14. \A g : g \in Pools!Building' <=> g \in Pools!Building /\ g # h
  BY <1>6, <1>7 DEF Pools!Building
<1>15. PoolTypes'
  <2>1. order' \in Seq(Pools!Keys) /\ Distinct(order') /\ RangeOf(order') = Pools!Kept'
    <3>1. k \in Pools!Keys /\ order' = Pools!Used(order, k) /\ Pools!Kept' = RangeOf(order) \union {k}
      BY <1>1, <1>2, <1>5, <1>11 DEF k
    <3>2. /\ Pools!Used(order, k) \in Seq(Pools!Keys) /\ Distinct(Pools!Used(order, k))
          /\ RangeOf(Pools!Used(order, k)) = RangeOf(order) \union {k}
      BY <1>2, <3>1, UsedIs
    <3>3. QED
      BY <3>1, <3>2
  <2>2. QED
    BY <1>1, <1>7, <1>10, <1>12, <2>1 DEF PoolInv, PoolTypes
<1>16. MadeInv'
  <2>1. \A g \in Pools!Handles : handle'[g].state # "none" <=> handle[g].state # "none"
    <3>1. handle[h].state = "building" /\ \A g \in R : handle[g].state # "none"
      BY <1>1, <1>6
    <3>2. QED
      BY <1>7, <3>1
  <2>2. Made(handle') = Made(handle)
    BY <2>1 DEF Made
  <2>3. QED
    BY <2>2 DEF PoolInv, MadeInv
<1>17. HeldInv'
  <2>1. ASSUME NEW x \in Pools!Keys PROVE EntryFact(entries'[x], x, handle', pool.shared)
    <3>1. CASE x = k
      <4>1. handle'[h].state = "open" /\ handle'[h].key = k /\ handle'[h].secret = handle[h].secret
        BY <1>7 DEF k
      <4>2. ~pool.shared => handle[h].secret = poolCall[c].secret
        BY <1>4, <1>5
      <4>3. QED
        BY <1>9, <1>10, <3>1, <4>1, <4>2 DEF EntryFact
    <3>2. CASE x # k
      <4>1. EntryFact(entries[x], x, handle, pool.shared) /\ entries'[x] = entries[x]
        BY <1>10, <3>2 DEF PoolInv, HeldInv
      <4>2. entries[x] # NoEntry => entries[x].handle # h /\ entries[x].handle \notin R
        BY <1>1, <1>6, <3>2, <4>1 DEF EntryFact
      <4>3. QED
        BY <1>7, <4>1, <4>2 DEF EntryFact
    <3>3. QED
      BY <3>1, <3>2
  <2>2. ASSUME NEW d \in Callers PROVE AcquireFact(poolCall'[d], handle', pool.shared) /\ (poolCall'[d].pc # "idle" => d \in pool.calls)
    <3>1. CASE d \in W
      <4>1. handle'[h].state = "open" /\ handle'[h].secret = handle[h].secret
        BY <1>7
      <4>2. (~pool.shared => handle[h].secret = poolCall[d].secret) /\ d \in pool.calls
        BY <1>4, <1>5, <3>1
      <4>3. QED
        BY <1>5, <1>12, <3>1, <4>1, <4>2 DEF AcquireFact
    <3>2. CASE d \notin W
      <4>1. /\ poolCall'[d] = poolCall[d] /\ (poolCall[d].pc = "build" => poolCall[d].build # h)
            /\ AcquireFact(poolCall[d], handle, pool.shared) /\ (poolCall[d].pc # "idle" => d \in pool.calls)
        BY <1>3, <1>12, <3>2 DEF PoolInv, HeldInv
      <4>2. \A g \in Pools!Handles :
              /\ handle[g].state = "building" /\ g # h => handle'[g].state = "building"
              /\ handle[g].state # "none" => handle'[g].state # "none"
              /\ handle[g].state \in {"open", "ended", "closed"} => handle'[g].state \in {"open", "ended", "closed"}
        BY <1>6, <1>7
      <4>3. AcquireFact(poolCall[d], handle', pool.shared)
        BY <1>7, <4>1, <4>2 DEF AcquireFact
      <4>4. QED
        BY <4>1, <4>3
    <3>3. QED
      BY <3>1, <3>2
  <2>3. QED
    BY <1>1, <2>1, <2>2 DEF HeldInv
<1>18. BuildInv'
  <2>1. ASSUME NEW g \in Pools!Building' PROVE Pools!Waiting(g)' # {}
    <3>1. PICK d \in Callers : Pools!At(d, "build") /\ poolCall[d].build = g
      BY <1>14 DEF PoolInv, BuildInv, Pools!Waiting
    <3>2. d \in Pools!Waiting(g)'
      BY <1>13, <1>14, <3>1 DEF Pools!Waiting
    <3>3. QED
      BY <3>2
  <2>2. \A g \in Pools!Building : g \in Pools!Handles
    BY DEF Pools!Building
  <2>3. ASSUME pool.shared \/ pool.alone, NEW d \in Callers, Pools!At(d, "build")', entries'[poolCall'[d].key] # NoEntry
        PROVE  poolCall'[d].had # NoEntry /\ poolCall'[d].had.handle = entries'[poolCall'[d].key].handle
    <3>1. /\ poolCall'[d] = poolCall[d] /\ Pools!At(d, "build") /\ poolCall[d].build # h /\ poolCall[d].pc = "build"
      BY <1>13, <2>3 DEF Pools!At
    <3>2. poolCall[d].build \in Pools!Building /\ h \in Pools!Building
      BY <1>1, <1>4, <3>1 DEF Pools!Building
    <3>3. handle[poolCall[d].build].key # handle[h].key
      BY <2>3, <3>1, <3>2 DEF PoolInv, BuildInv
    <3>4. poolCall[d].key # k /\ poolCall[d].key \in Pools!Keys
      BY <1>4, <3>1, <3>3 DEF k
    <3>5. entries'[poolCall[d].key] = entries[poolCall[d].key]
      BY <1>10, <3>4
    <3>6. QED
      BY <2>3, <3>1, <3>5 DEF PoolInv, BuildInv
  <2>4. ASSUME ~pool.shared PROVE \A x, y \in Callers :
           Pools!At(x, "build")' /\ Pools!At(y, "build")' /\ poolCall'[x].build = poolCall'[y].build => x = y
    BY <1>13, <2>4 DEF PoolInv, BuildInv
  <2>5. pool.shared \/ pool.alone => \A f, g \in Pools!Building' : handle'[f].key = handle'[g].key => f = g
    BY <1>7, <1>14, <2>2 DEF PoolInv, BuildInv
  <2>6. QED
    BY <1>1, <2>1, <2>3, <2>4, <2>5 DEF BuildInv
<1>19. Pools!NothingLeaks'
  <2>1. SUFFICES ASSUME pool.shared \/ pool.alone, NEW g \in Pools!Opened' PROVE \E x \in Pools!Kept' : entries'[x].handle = g
    BY <1>1 DEF Pools!NothingLeaks
  <2>2. CASE g = h
    BY <1>9, <1>10, <1>11, <2>2
  <2>3. CASE g # h
    <3>1. g \in Pools!Opened /\ g \notin R
      BY <1>7, <2>3 DEF Pools!Opened
    <3>2. PICK x \in Pools!Kept : entries[x].handle = g
      BY <2>1, <3>1 DEF PoolInv, Pools!NothingLeaks
    <3>3. x \in Pools!Keys /\ entries[x] # NoEntry
      BY DEF Pools!Kept, NoEntry
    <3>4. x # k
      <4>1. SUFFICES ASSUME x = k PROVE FALSE
        OBVIOUS
      <4>2. poolCall[c].had # NoEntry /\ poolCall[c].had.handle = entries[k].handle
        BY <1>5, <2>1, <3>3, <4>1 DEF PoolInv, BuildInv, Pools!At
      <4>3. QED
        BY <1>1, <1>6, <3>1, <3>2, <4>1, <4>2
    <3>5. QED
      BY <1>10, <1>11, <3>2, <3>3, <3>4
  <2>4. QED
    BY <2>2, <2>3
<1>20. RoomInv'
  <2>1. Builders' \subseteq Builders \ {c} /\ c \in Builders
    BY <1>5, <1>13 DEF Builders, Pools!At
  <2>2. /\ IsFiniteSet(Builders \ {c}) /\ Cardinality(Builders \ {c}) = Cardinality(Builders) - 1
        /\ IsFiniteSet(Pools!Kept \union {k})
        /\ Cardinality(Pools!Kept \union {k}) <= Cardinality(Pools!Kept) + 1
    <3>1. /\ IsFiniteSet(Builders \ {c}) /\ Cardinality(Builders \ {c}) = Cardinality(Builders) - 1
      BY <2>1, BuildersAre, FS_RemoveElement
    <3>2. /\ IsFiniteSet(Pools!Kept \union {k})
          /\ Cardinality(Pools!Kept \union {k}) = IF k \in Pools!Kept THEN Cardinality(Pools!Kept) ELSE Cardinality(Pools!Kept) + 1
      BY BuildersAre, FS_AddElement
    <3>3. QED
      BY <3>1, <3>2, BuildersAre
  <2>3. Cardinality(Builders') <= Cardinality(Builders \ {c}) /\ IsFiniteSet(Builders')
    BY <2>1, <2>2, FS_Subset
  <2>4. Cardinality(Builders') \in Nat /\ Cardinality(Pools!Kept \union {k}) \in Nat
    BY <2>2, <2>3, FS_CardinalityType
  <2>5. Cardinality(Pools!Kept) + Cardinality(Builders) <= MaxPools + Cardinality(pool.calls)
    BY DEF PoolInv, RoomInv
  <2>6. Cardinality(Pools!Kept \union {k}) + Cardinality(Builders') <= MaxPools + Cardinality(pool.calls)
    BY <2>2, <2>3, <2>4, <2>5, BuildersAre
  <2>7. QED
    BY <1>1, <1>11, <2>2, <2>6 DEF RoomInv
<1>21. QED
  BY <1>15, <1>16, <1>17, <1>18, <1>19, <1>20 DEF PoolInv

\* A key's handle is closed, and nothing is kept for it.
LEMMA ClosesKey ==
    ASSUME PoolInv, NEW k \in Pools!Keys, Pools!CloseKey(k), pool' = pool, secret' = secret,
           poolCall' \in [Callers -> PoolCalls],
           \A d \in Callers :
               \/ poolCall'[d] = poolCall[d]
               \/ /\ poolCall[d].pc # "build" /\ poolCall'[d].pc = "again"
                  /\ poolCall'[d].key \in Pools!Keys /\ d \in pool.calls
    PROVE  PoolInv'
<1> DEFINE g == entries[k].handle
<1>1. /\ entries' = [entries EXCEPT ![k] = NoEntry] /\ order' = Pools!Without(order, k)
      /\ handle' = Pools!Close({g})
  BY DEF Pools!CloseKey, NoEntry
<1>2. /\ handle \in [Pools!Handles -> HandleStates] /\ entries \in [Pools!Keys -> KeptEntries]
      /\ order \in Seq(Pools!Keys) /\ Distinct(order) /\ RangeOf(order) = Pools!Kept
  BY DEF PoolInv, PoolTypes
<1>3. /\ handle' \in [Pools!Handles -> HandleStates]
      /\ \A h \in Pools!Handles :
          /\ handle'[h].key = handle[h].key /\ handle'[h].secret = handle[h].secret
          /\ handle'[h].state = IF h = g THEN "closed" ELSE handle[h].state
  BY <1>1, <1>2, ClosedIs
<1>4. \A h \in Pools!Handles : h = g => entries[k] # NoEntry /\ handle[h].state \in {"open", "ended"}
  BY HandlesAre DEF PoolInv, HeldInv, EntryFact
<1>5. /\ entries' \in [Pools!Keys -> KeptEntries] /\ entries'[k] = NoEntry
      /\ \A x \in Pools!Keys : x # k => entries'[x] = entries[x]
  BY <1>1, <1>2, HandlesAre
<1>6. Pools!Kept' = Pools!Kept \ {k}
  <2>1. \A x \in Pools!Keys : entries'[x] # NoEntry <=> entries[x] # NoEntry /\ x # k
    BY <1>5
  <2>2. QED
    BY <2>1 DEF Pools!Kept, NoEntry
<1>7. Pools!Building' = Pools!Building /\ Made(handle') = Made(handle)
  BY <1>3, <1>4 DEF Pools!Building, Made
<1>8. /\ \A d \in Callers : Pools!At(d, "build")' <=> Pools!At(d, "build")
      /\ \A d \in Callers : Pools!At(d, "build") => poolCall'[d] = poolCall[d]
  BY DEF Pools!At
<1>9. PoolTypes' /\ MadeInv'
  <2>1. order' \in Seq(Pools!Keys) /\ Distinct(order') /\ RangeOf(order') = Pools!Kept'
    BY <1>1, <1>2, <1>6, WithoutIs
  <2>2. QED
    BY <1>3, <1>5, <1>7, <2>1 DEF PoolInv, PoolTypes, MadeInv
<1>10. HeldInv'
  <2>1. ASSUME NEW x \in Pools!Keys PROVE EntryFact(entries'[x], x, handle', pool.shared)
    <3>1. CASE x = k
      BY <1>5, <3>1 DEF EntryFact
    <3>2. CASE x # k
      <4>1. EntryFact(entries[x], x, handle, pool.shared) /\ entries'[x] = entries[x]
        BY <1>5, <3>2 DEF PoolInv, HeldInv
      <4>2. entries[x] # NoEntry => entries[x].handle # g
        <5>1. SUFFICES ASSUME entries[x] # NoEntry, entries[x].handle = g PROVE FALSE
          OBVIOUS
        <5>2. g \in Pools!Handles
          BY <4>1, <5>1 DEF EntryFact
        <5>3. x \in Pools!Kept /\ k \in Pools!Kept
          BY <1>4, <5>1, <5>2 DEF Pools!Kept, NoEntry
        <5>4. QED
          BY <3>2, <5>1, <5>3, OneHandle DEF PoolInv
      <4>3. QED
        BY <1>3, <4>1, <4>2 DEF EntryFact
    <3>3. QED
      BY <3>1, <3>2
  <2>2. Later(handle, handle')
    BY <1>3, <1>4 DEF Later
  <2>3. \A d \in Callers : poolCall'[d].pc = "again" /\ poolCall'[d].key \in Pools!Keys => AcquireFact(poolCall'[d], handle', pool.shared)
    BY DEF AcquireFact
  <2>4. \A d \in Callers : AcquireFact(poolCall[d], handle, pool.shared) /\ (poolCall[d].pc # "idle" => d \in pool.calls)
    BY DEF PoolInv, HeldInv
  <2>5. \A d \in Callers : AcquireFact(poolCall[d], handle', pool.shared)
    BY <2>2, <2>4, CallsKeep
  <2>6. QED
    BY <2>1, <2>3, <2>4, <2>5 DEF HeldInv
<1>11. BuildInv'
  <2>1. \A h : Pools!Waiting(h)' = Pools!Waiting(h)
    BY <1>8 DEF Pools!Waiting
  <2>2. \A d \in Callers : Pools!At(d, "build") => poolCall[d].key \in Pools!Keys
    BY DEF PoolInv, HeldInv, AcquireFact, Pools!At
  <2>3. ASSUME pool.shared \/ pool.alone, NEW d \in Callers, Pools!At(d, "build")', entries'[poolCall'[d].key] # NoEntry
        PROVE  poolCall'[d].had # NoEntry /\ poolCall'[d].had.handle = entries'[poolCall'[d].key].handle
    BY <1>5, <1>8, <2>2, <2>3 DEF PoolInv, BuildInv
  <2>4. ASSUME ~pool.shared PROVE \A x, y \in Callers :
           Pools!At(x, "build")' /\ Pools!At(y, "build")' /\ poolCall'[x].build = poolCall'[y].build => x = y
    BY <1>8, <2>4 DEF PoolInv, BuildInv
  <2>5. \A h \in Pools!Building : h \in Pools!Handles
    BY DEF Pools!Building
  <2>6. pool.shared \/ pool.alone => \A f, h \in Pools!Building' : handle'[f].key = handle'[h].key => f = h
    BY <1>3, <1>7, <2>5 DEF PoolInv, BuildInv
  <2>7. \A h \in Pools!Building' : Pools!Waiting(h)' # {}
    BY <1>7, <2>1 DEF PoolInv, BuildInv
  <2>8. QED
    BY <2>3, <2>4, <2>6, <2>7 DEF BuildInv
<1>12. Pools!NothingLeaks'
  <2>1. SUFFICES ASSUME pool.shared \/ pool.alone, NEW h \in Pools!Opened' PROVE \E x \in Pools!Kept' : entries'[x].handle = h
    BY DEF Pools!NothingLeaks
  <2>2. h \in Pools!Opened /\ h # g
    BY <1>3 DEF Pools!Opened
  <2>3. PICK x \in Pools!Kept : entries[x].handle = h
    BY <2>1, <2>2 DEF PoolInv, Pools!NothingLeaks
  <2>4. x # k /\ x \in Pools!Keys
    BY <2>2, <2>3 DEF Pools!Kept
  <2>5. QED
    BY <1>5, <1>6, <2>3, <2>4
<1>13. RoomInv'
  <2>1. Pools!Kept' \subseteq Pools!Kept /\ Builders' \subseteq Builders
    BY <1>6, <1>8 DEF Builders
  <2>2. QED
    BY <2>1, FewerBuild
<1>14. QED
  BY <1>9, <1>10, <1>11, <1>12, <1>13 DEF PoolInv

LEMMA ReconnectKeeps ==
    ASSUME PoolInv, NEW c \in Callers, Pools!Replace(c)
    PROVE  PoolInv'
<1> DEFINE k == poolCall[c].key
           q == [Pools!NoCall EXCEPT !.pc = "again", !.key = k, !.secret = poolCall[c].secret, !.again = TRUE]
<1>1. /\ poolCall[c].pc = "got" /\ Pools!CloseKey(k) /\ pool' = pool /\ secret' = secret
      /\ poolCall' = [poolCall EXCEPT ![c] = q]
      /\ poolCall \in [Callers -> PoolCalls] /\ poolCall[c] \in PoolCalls
  BY DEF PoolInv, PoolTypes, Pools!Replace, Pools!At, Pools!Go
<1>2. k \in Pools!Keys /\ c \in pool.calls
  BY <1>1 DEF PoolInv, HeldInv, AcquireFact
<1>3. q \in PoolCalls /\ q.pc = "again" /\ q.key = k
  BY <1>1, <1>2, HandlesAre DEF Pools!NoCall, PoolCalls, NoEntry
<1> HIDE DEF q, k
<1>4. QED
  BY <1>1, <1>2, <1>3, ClosesKey

LEMMA CloseRotatedKeeps ==
    ASSUME PoolInv, NEW k \in Pools!Keys, Pools!CloseRotated(k)
    PROVE  PoolInv'
<1>1. poolCall \in [Callers -> PoolCalls]
  BY DEF PoolInv, PoolTypes
<1>2. Pools!CloseKey(k) /\ pool' = pool /\ secret' = secret /\ poolCall' = poolCall
  BY DEF Pools!CloseRotated
<1>3. QED
  BY <1>1, <1>2, ClosesKey

-----------------------------------------------------------------------------
LEMMA PoolStart == Pools!Init => PoolInv
<1> SUFFICES ASSUME Pools!Init PROVE PoolInv
  OBVIOUS
<1>1. /\ pool \in PoolWorlds /\ secret = [k \in Pools!Keys |-> 1] /\ entries = [k \in Pools!Keys |-> NoEntry]
      /\ order = <<>> /\ handle = [h \in Pools!Handles |-> Pools!Unbuilt] /\ poolCall = [c \in Callers |-> Pools!NoCall]
  BY DEF Pools!Init, NoEntry
<1>2. Pools!Unbuilt \in HandleStates /\ Pools!Unbuilt.state = "none"
  BY DEF Pools!Unbuilt, HandleStates
<1>3. /\ Pools!Kept = {} /\ Pools!Opened = {} /\ Pools!Building = {} /\ Made(handle) = {}
      /\ Builders = {} /\ \A c \in Callers : ~Pools!At(c, "build") /\ poolCall[c] = Pools!NoCall /\ poolCall[c].pc = "idle"
  BY <1>1, <1>2, NoCallIs DEF Pools!Kept, Pools!Opened, Pools!Building, Made, Builders, Pools!At, NoEntry
<1>4. PoolTypes
  <2>1. <<>> \in Seq(Pools!Keys) /\ Distinct(<<>>) /\ RangeOf(<<>>) = {}
    BY DEF Distinct, RangeOf
  <2>2. QED
    BY <1>1, <1>2, <1>3, <2>1, NoCallIs, HandlesAre DEF PoolTypes
<1>5. MadeInv
  <2>1. 1 .. 0 = {} /\ 0 \in Nat
    OBVIOUS
  <2>2. QED
    BY <1>3, <2>1 DEF MadeInv
<1>6. HeldInv
  <2>1. \A k \in Pools!Keys : EntryFact(entries[k], k, handle, pool.shared)
    BY <1>1 DEF EntryFact
  <2>2. \A c \in Callers : AcquireFact(poolCall[c], handle, pool.shared)
    BY <1>3 DEF AcquireFact
  <2>3. QED
    BY <1>3, <2>1, <2>2 DEF HeldInv
<1>7. BuildInv /\ Pools!NothingLeaks
  BY <1>3 DEF BuildInv, Pools!NothingLeaks
<1>8. RoomInv
  <2>1. IsFiniteSet(pool.calls) /\ MaxPools \in Nat
    BY <1>1, PoolsAssumed, RangesAre DEF Pools!Assumption
  <2>2. Cardinality(pool.calls) \in Nat
    BY <2>1, FS_CardinalityType
  <2>3. IsFiniteSet({}) /\ Cardinality({}) = 0
    BY FS_EmptySet
  <2>4. QED
    BY <1>3, <2>1, <2>2, <2>3 DEF RoomInv
<1>9. QED
  BY <1>4, <1>5, <1>6, <1>7, <1>8 DEF PoolInv

LEMMA PoolStep == PoolInv /\ [Pools!Next]_(Pools!vars) => PoolInv'
<1> SUFFICES ASSUME PoolInv, [Pools!Next]_(Pools!vars) PROVE PoolInv'
  OBVIOUS
<1>1. ASSUME NEW c \in Callers, NEW k \in Pools!Keys, NEW idle \in Pools!Idle, NEW s \in 1 .. secret[k], Pools!Ask(c, k, s, idle)
      PROVE  PoolInv'
  <2>1. secret[k] \in Nat
    BY DEF PoolInv, PoolTypes
  <2>2. s \in Nat
    BY <2>1
  <2>3. Pools!Acquire(c, k, s, idle) /\ c \in pool.calls /\ poolCall[c].pc \notin {"build", "guard"}
    BY <1>1 DEF Pools!Ask, Pools!At
  <2>4. QED
    BY <2>2, <2>3, AcquireKeeps
<1>2. ASSUME NEW c \in Callers, NEW idle \in Pools!Idle, Pools!AskAgain(c, idle) PROVE PoolInv'
  <2>1. poolCall[c] \in PoolCalls /\ poolCall[c].pc = "again" /\ Pools!Acquire(c, poolCall[c].key, poolCall[c].secret, idle)
    BY <1>2 DEF PoolInv, PoolTypes, Pools!AskAgain, Pools!At
  <2>2. poolCall[c].key \in Pools!Keys /\ poolCall[c].secret \in Nat /\ c \in pool.calls
    BY <2>1 DEF PoolInv, HeldInv, AcquireFact, PoolCalls
  <2>3. QED
    BY <2>1, <2>2, AcquireKeeps
<1>3. CASE UNCHANGED Pools!vars
  <2>1. poolCall \in [Callers -> PoolCalls] /\ secret \in [Pools!Keys -> Nat]
    BY DEF PoolInv, PoolTypes
  <2>2. UNCHANGED <<pool, secret, entries, order, handle, poolCall>>
    BY <1>3 DEF Pools!vars
  <2>3. QED
    BY <2>1, <2>2, CallsMove
<1>4. QED
  BY <1>1, <1>2, <1>3, GuardedKeeps, CallsEnd, ReconnectKeeps, BuiltKeeps, BuildFailsKeeps, ServerEndsKeeps, RotateKeeps,
     CloseRotatedKeeps, GuardEndsKeeps DEF Pools!Next

\* The inductive invariant of the pools holds for any connections, calls and handles.
THEOREM PoolInvariant == Pools!Spec => []PoolInv
BY PoolStart, PoolStep, PTL DEF Pools!Spec

LEMMA PoolSafe == PoolInv => Pools!HandlesAreKept /\ Pools!TypeOK
<1> SUFFICES ASSUME PoolInv PROVE Pools!HandlesAreKept /\ Pools!TypeOK
  OBVIOUS
<1>1. Pools!UnsharedWithSecret
  BY DEF PoolInv, HeldInv, AcquireFact, Pools!UnsharedWithSecret, Pools!OpenedWithSecret, Pools!At
<1>2. Pools!PoolsBounded
  <2>1. Pools!Cardinality(Pools!Kept) = Cardinality(Pools!Kept) /\ Pools!Cardinality(pool.calls) = Cardinality(pool.calls)
    BY RangesAre
  <2>2. QED
    BY <2>1, BuildersAre DEF Pools!PoolsBounded, PoolInv, RoomInv
<1>3. Pools!TypeOK
  <2>1. Pools!IsInjective(order) /\ Pools!ToSet(order) = Pools!Kept
    BY RangesAre DEF PoolInv, PoolTypes
  <2>2. \A k \in Pools!Kept : k \in Pools!Keys /\ entries[k] # NoEntry
    BY DEF Pools!Kept, NoEntry
  <2>3. QED
    BY <2>1, <2>2 DEF Pools!TypeOK, PoolInv, HeldInv, EntryFact
<1>4. QED
  BY <1>1, <1>2, <1>3 DEF Pools!HandlesAreKept, PoolInv

\* The keys that are in the order of their use are those that have a handle, and each handle
\* that is kept was made for its key: whatever is swept, replaced, approved again or closed by
\* its key, `lastUsed` and the entries (keyed-resource.ts) agree.
THEOREM PoolTypesHold == Pools!Spec => []Pools!TypeOK
BY PoolInvariant, PoolSafe, PTL

\* "Builds are de-duplicated: two calls arriving at a cold cache would otherwise open two
\* logins, and the one `keyedResource` did not keep would leak" (imap-client.ts:284): where
\* builds are shared, or no two calls build for one key, every open handle is kept.  Where
\* they are not shared, who is answered has a handle of the credentials it asked with, and
\* there are at most MAX_POOLS and one for each call.
THEOREM HandlesStay == Pools!Spec => []HandlesAreKept
BY PoolInvariant, PoolSafe, PTL DEF HandlesAreKept

-----------------------------------------------------------------------------
(* ImapSync: the newest and the oldest of some uids. *)

LEMMA MailCounts == /\ \A S : Mail!Cardinality(S) = Cardinality(S)
                    /\ Chunk \in Nat /\ Chunk >= 1 /\ Limit \in Nat /\ Mail!Uids \subseteq Nat
                    /\ \A w \in MailWorlds : \A u \in 1 .. w.uids : u \in Mail!Uids
<1>1. \A S : Mail!Cardinality(S) = Cardinality(S)
  BY DEF Mail!Cardinality, Cardinality
<1>2. Mail!Uids \subseteq Nat
  BY MailAssumed DEF Mail!Assumption, Mail!Uids
<1>3. Chunk \in Nat /\ Chunk >= 1 /\ Limit \in Nat
  BY MailAssumed DEF Mail!Assumption
<1>4. \A w \in MailWorlds : \A u \in 1 .. w.uids : u \in Mail!Uids
  BY DEF Mail!Uids
<1>5. QED
  BY <1>1, <1>2, <1>3, <1>4

LEMMA LeastIs ==
    ASSUME NEW S \in SUBSET Nat, S # {}
    PROVE  Mail!Min(S) \in S /\ \A y \in S : Mail!Min(S) <= y
<1> DEFINE T == {0 .. x : x \in S}
           R == StrictSubsetOrdering(Nat)
<1>1. T \subseteq FiniteSubsetsOf(Nat) /\ T # {}
  <2>1. \A x \in S : 0 .. x \in SUBSET Nat /\ IsFiniteSet(0 .. x)
    BY FS_Interval
  <2>2. QED
    BY <2>1 DEF FiniteSubsetsOf
<1>2. IsWellFoundedOn(R, FiniteSubsetsOf(Nat))
  BY FS_StrictSubsetOrderingWellFounded
<1>3. \E t \in T : \A u \in T : ~(<<u, t>> \in R)
  <2> HIDE DEF T, R
  <2>1. QED
    BY <1>1, <1>2, WFMin
<1>4. PICK x \in S : \A y \in S : ~(<<0 .. y, 0 .. x>> \in R)
  BY <1>3
<1>5. \A y \in S : x <= y
  <2>1. SUFFICES ASSUME NEW y \in S, y < x PROVE FALSE
    OBVIOUS
  <2>2. 0 .. y \subseteq 0 .. x /\ 0 .. y # 0 .. x
    <3>1. x \in 0 .. x /\ x \notin 0 .. y
      BY <2>1
    <3>2. \A z \in 0 .. y : z \in 0 .. x
      BY <2>1
    <3>3. QED
      BY <3>1, <3>2
  <2>3. 0 .. y \in SUBSET Nat /\ 0 .. x \in SUBSET Nat
    OBVIOUS
  <2>4. <<0 .. y, 0 .. x>> \in R
    BY <2>2, <2>3 DEF StrictSubsetOrdering
  <2>5. QED
    BY <1>4, <2>4
<1>6. QED
  BY <1>5 DEF Mail!Min

LEMMA GreatestIs ==
    ASSUME NEW n \in Nat, NEW S \in SUBSET (0 .. n), S # {}
    PROVE  Mail!Max(S) \in S /\ \A y \in S : Mail!Max(S) >= y
<1> DEFINE T == {n - x : x \in S}
<1>1. \A x \in S : x \in Nat /\ n - x \in Nat
  OBVIOUS
<1>2. T \in SUBSET Nat /\ T # {}
  <2>1. \A y \in T : y \in Nat
    BY <1>1
  <2>2. QED
    BY <2>1
<1>3. Mail!Min(T) \in T /\ \A y \in T : Mail!Min(T) <= y
  <2> HIDE DEF T
  <2>1. QED
    BY <1>2, LeastIs
<1>4. PICK x \in S : Mail!Min(T) = n - x
  BY <1>3
<1>5. ASSUME NEW y \in S PROVE x >= y
  <2>1. n - y \in T
    OBVIOUS
  <2>2. n - x <= n - y
    BY <1>3, <1>4, <2>1
  <2>3. QED
    BY <1>1, <2>2
<1>6. QED
  BY <1>5 DEF Mail!Max

\* The newest n of some uids hold whatever is newer than one of them,
LEMMA NewestIs ==
    ASSUME NEW k \in Nat, NEW S \in SUBSET (0 .. k), NEW n \in Nat
    PROVE  /\ Mail!Newest(n, S) \subseteq S
           /\ \A x \in Mail!Newest(n, S) : \A y \in S : x <= y => y \in Mail!Newest(n, S)
           /\ n # 0 /\ S # {} => Mail!Newest(n, S) # {}
<1> DEFINE over(u) == {v \in S : v > u}
<1>1. \A u : u \in Mail!Newest(n, S) <=> u \in S /\ Cardinality(over(u)) < n
  BY MailCounts DEF Mail!Newest
<1>2. ASSUME NEW u PROVE IsFiniteSet(over(u)) /\ Cardinality(over(u)) \in Nat
  <2>1. IsFiniteSet(0 .. k)
    BY FS_Interval
  <2>2. over(u) \subseteq 0 .. k
    OBVIOUS
  <2>3. QED
    BY <2>1, <2>2, FS_Subset, FS_CardinalityType
<1>3. ASSUME NEW x \in S, NEW y \in S, x <= y, Cardinality(over(x)) < n PROVE Cardinality(over(y)) < n
  <2>1. over(y) \subseteq over(x)
    <3>1. \A v \in S : v \in Nat /\ x \in Nat /\ y \in Nat
      OBVIOUS
    <3>2. \A v \in over(y) : v \in over(x)
      BY <1>3, <3>1
    <3>3. QED
      BY <3>2
  <2>2. Cardinality(over(y)) <= Cardinality(over(x))
    BY <1>2, <2>1, FS_Subset
  <2>3. QED
    BY <1>2, <1>3, <2>2
<1>4. ASSUME n # 0, S # {} PROVE Mail!Newest(n, S) # {}
  <2>1. PICK m \in S : \A y \in S : m >= y
    BY <1>4, GreatestIs
  <2>2. over(m) = {}
    <3>1. \A v \in S : v \in Nat /\ m \in Nat
      OBVIOUS
    <3>2. \A v \in S : ~(v > m)
      BY <2>1, <3>1
    <3>3. QED
      BY <3>2
  <2>3. Cardinality(over(m)) < n
    BY <1>4, <2>2, FS_EmptySet
  <2>4. QED
    BY <1>1, <2>1, <2>3
<1> HIDE DEF over
<1>5. QED
  BY <1>1, <1>3, <1>4

\* and the oldest n whatever is older, and all, if they are less than n.
LEMMA OldestIs ==
    ASSUME NEW k \in Nat, NEW S \in SUBSET (0 .. k), NEW n \in Nat
    PROVE  /\ Mail!Oldest(n, S) \subseteq S
           /\ \A x \in Mail!Oldest(n, S) : \A y \in S : y <= x => y \in Mail!Oldest(n, S)
           /\ Cardinality(Mail!Oldest(n, S)) < n => Mail!Oldest(n, S) = S
<1> DEFINE under(u) == {v \in S : v < u}
           O == Mail!Oldest(n, S)
<1>1. \A u : u \in O <=> u \in S /\ Cardinality(under(u)) < n
  BY MailCounts DEF Mail!Oldest
<1>2. \A T : T \subseteq S => IsFiniteSet(T) /\ Cardinality(T) \in Nat
  <2>1. IsFiniteSet(0 .. k)
    BY FS_Interval
  <2>2. IsFiniteSet(S)
    BY <2>1, FS_Subset
  <2>3. QED
    BY <2>2, FS_Subset, FS_CardinalityType
<1>3. \A u : under(u) \subseteq S
  OBVIOUS
<1>4. ASSUME NEW x \in S, NEW y \in S, y <= x, Cardinality(under(x)) < n PROVE Cardinality(under(y)) < n
  <2>1. under(y) \subseteq under(x)
    <3>1. \A v \in S : v \in Nat /\ x \in Nat /\ y \in Nat
      OBVIOUS
    <3>2. \A v \in under(y) : v \in under(x)
      BY <1>4, <3>1
    <3>3. QED
      BY <3>2
  <2>2. Cardinality(under(y)) <= Cardinality(under(x))
    BY <1>2, <1>3, <2>1, FS_Subset
  <2>3. QED
    BY <1>2, <1>3, <1>4, <2>2
<1> HIDE DEF O
<1>5. ASSUME Cardinality(O) < n, O # S PROVE FALSE
  <2> DEFINE R == S \ O
  <2>1. R \in SUBSET Nat /\ R # {} /\ O \subseteq S
    <3>1. O \subseteq S
      BY <1>1
    <3>2. \A v \in S : v \in Nat
      OBVIOUS
    <3>3. QED
      BY <1>5, <3>1, <3>2
  <2>2. PICK x \in R : \A y \in R : x <= y
    <3> HIDE DEF R
    <3>1. QED
      BY <2>1, LeastIs
  <2>3. under(x) \subseteq O
    <3>1. \A v \in S : v < x => v \notin R
      BY <2>1, <2>2
    <3>2. QED
      BY <3>1
  <2>4. Cardinality(under(x)) <= Cardinality(O) /\ Cardinality(under(x)) \in Nat /\ Cardinality(O) \in Nat
    BY <1>2, <1>3, <2>1, <2>3, FS_Subset
  <2>5. Cardinality(under(x)) < n
    BY <1>5, <2>4
  <2>6. QED
    BY <1>1, <2>2, <2>5
<1> HIDE DEF under
<1>6. QED
  BY <1>1, <1>4, <1>5 DEF O

-----------------------------------------------------------------------------
(* ImapSync: the invariant, in worlds whose credentials change only between runs *)
(* and whose folders are not marked.                                             *)

Dates == {"none", "new", "old"}
Servers == [validity : Nat, next : Nat, junk : {FALSE}, date : [Mail!Uids -> Dates]]
Creds == [box : Mail!Boxes, n : Nat]
SyncStates == [identity : Mail!Boxes \union {""}, leased : BOOLEAN, auth : BOOLEAN]
Folders ==
    [validity : Nat, last : Nat, oldest : Nat, complete : BOOLEAN, stopped : {"", "days", "count"},
     there : BOOLEAN, synced : BOOLEAN]
Rows == [box : Mail!Boxes, validity : Nat]
Runs ==
    [pc : {"idle", "loaded", "reset", "list", "folder", "renumbered", "first", "new", "store", "expunge",
           "backfill", "end"},
     cred : [box : Mail!Boxes \union {""}, n : Nat], validity : Nat, next : Nat, todo : SUBSET Mail!Uids,
     then : {"", "saveFirst", "saveNew", "saveOld"}, last : Nat, oldest : Nat]

MailTypes ==
    /\ world \in MailWorlds /\ server \in [Mail!Boxes -> Servers] /\ cred \in Creds
    /\ patch \in {"idle", "reset", "auth"} /\ state \in SyncStates /\ folder \in Folders
    /\ rows \in [Mail!Uids -> Rows \union {Mail!NoRow}] /\ run \in [Mailers -> Runs] /\ mailFaults \in Nat
    /\ IsFiniteSet(Mail!Stored)

\* What a server has is of uids it gave out.
ServerInv ==
    \A b \in Mail!Boxes :
        /\ server[b].validity >= 1 /\ server[b].next >= 1
        /\ \A u \in Mail!Uids : server[b].date[u] # "none" => u < server[b].next

\* What is stored is of the mailbox whose identity was noted, which is that of the credentials
\* once they are through, or nothing is stored.
NothingKnown == folder = Mail!NoFolder /\ Mail!Stored = {}
IdentityInv ==
    /\ \A u \in Mail!Stored : rows[u].box = state.identity
    /\ patch # "reset" => state.identity = cred.box \/ NothingKnown
    /\ ~folder.there => NothingKnown

\* What is saved of a folder.
Missing(u, ro) == ro[u] = Mail!NoRow
FolderFact(fo, ro, S) ==
    /\ fo.validity <= S.validity
    /\ fo.validity = S.validity =>
        /\ fo.last < S.next
        /\ fo.oldest # 0 =>
            \A u \in Mail!Uids : fo.oldest <= u /\ u <= fo.last /\ S.date[u] = "new" => ~Missing(u, ro)
        /\ fo.complete => \A u \in Mail!Uids : u <= fo.last /\ S.date[u] # "none" => ~Missing(u, ro)
FolderInv ==
    /\ folder.oldest # 0 => folder.validity # 0
    /\ folder.complete => folder.oldest # 0 /\ folder.stopped = ""
    /\ state.identity = cred.box => FolderFact(folder, rows, server[cred.box])

\* What a run that has selected the folder knows of it, and what it has yet to store before it
\* saves how far it came.
Storing(r, then) == r.pc = "store" /\ r.then = then
RunFact(r, fo, ro, S) ==
    /\ r.pc \notin {"idle", "loaded", "reset", "list"} => fo.there
    /\ r.pc \in {"renumbered", "first", "new", "store", "expunge", "backfill"} =>
        /\ r.validity >= 1 /\ r.validity <= S.validity /\ r.next >= 1
        /\ r.validity = S.validity => r.next <= S.next
    /\ r.pc = "first" \/ Storing(r, "saveFirst") => fo.oldest = 0
    /\ r.pc \in {"new", "expunge", "backfill"} \/ Storing(r, "saveNew") \/ Storing(r, "saveOld") =>
        fo.validity = r.validity /\ fo.oldest # 0
    /\ r.pc \in {"new", "expunge", "backfill"} => r.last = fo.last /\ r.oldest = fo.oldest
    /\ Storing(r, "saveNew") => r.oldest = fo.oldest
    /\ r.pc = "store" => r.then # "" /\ r.oldest # 0
    /\ r.validity = S.validity =>
        /\ r.pc = "store" => \A u \in r.todo : u < S.next
        /\ Storing(r, "saveFirst") =>
            /\ r.last < S.next
            /\ \A u \in Mail!Uids :
                r.oldest <= u /\ u <= r.last /\ S.date[u] = "new" => ~Missing(u, ro) \/ u \in r.todo
        /\ Storing(r, "saveNew") =>
            /\ r.last < S.next
            /\ \A u \in Mail!Uids :
                fo.last < u /\ u <= r.last /\ S.date[u] # "none" => ~Missing(u, ro) \/ u \in r.todo
        /\ Storing(r, "saveOld") =>
            /\ fo.last < S.next
            /\ \A u \in Mail!Uids :
                r.oldest <= u /\ u <= fo.last /\ S.date[u] = "new" => ~Missing(u, ro) \/ u \in r.todo

\* One run at a time is under way, with the lease, the credentials there are, and their identity
\* once it has compared it.
Under(r) == r.pc \notin {"idle", "loaded"}
RunInv ==
    /\ \A p, q \in Mailers : Under(run[p]) /\ Under(run[q]) => p = q
    /\ \A p \in Mailers :
        /\ run[p].pc = "idle" => run[p] = Mail!Idle
        /\ run[p].pc # "idle" => run[p].cred = cred
        /\ Under(run[p]) => state.leased
        /\ run[p].pc \notin {"idle", "loaded", "reset"} => state.identity = cred.box
        /\ Under(run[p]) => RunFact(run[p], folder, rows, server[cred.box])

\* As long as no run was cut short, what is stored is of the numbering that is saved, or that of
\* a first sight that is under way.
StoredAs(v, ro) == \A u \in Mail!Uids : ~Missing(u, ro) => ro[u].validity = v
NoneStored(ro) == \A u \in Mail!Uids : Missing(u, ro)
NumberFact(r, ro) ==
    /\ r.pc \in {"renumbered", "first"} => NoneStored(ro)
    /\ Storing(r, "saveFirst") => StoredAs(r.validity, ro)
NumberInv ==
    mailFaults = 0 =>
        /\ folder.oldest # 0 => StoredAs(folder.validity, rows)
        /\ folder.oldest = 0 => NoneStored(rows) \/ \E p \in Mailers : Storing(run[p], "saveFirst")
        /\ \A p \in Mailers : NumberFact(run[p], rows)

MailInv == MailTypes /\ ServerInv /\ IdentityInv /\ FolderInv /\ RunInv /\ NumberInv

-----------------------------------------------------------------------------
\* What a server answers later: it is numbered again, or uids are filed after those it gave out,
\* and others age or are deleted.
Onward(S, T) ==
    /\ T.validity >= S.validity
    /\ T.validity = S.validity =>
        /\ S.next <= T.next
        /\ \A u \in Mail!Uids :
            /\ T.date[u] = "new" => S.date[u] = "new" \/ u >= S.next
            /\ T.date[u] # "none" => S.date[u] # "none" \/ u >= S.next

LEMMA FolderOnward ==
    ASSUME NEW S \in Servers, NEW T \in Servers, Onward(S, T), NEW fo \in Folders, NEW ro, FolderFact(fo, ro, S)
    PROVE  FolderFact(fo, ro, T)
<1>1. /\ S.validity \in Nat /\ T.validity \in Nat /\ S.next \in Nat /\ T.next \in Nat
      /\ fo.validity \in Nat /\ fo.last \in Nat /\ Mail!Uids \subseteq Nat
  BY MailCounts DEF Servers, Folders
<1>2. fo.validity <= T.validity
  BY <1>1 DEF Onward, FolderFact
<1>3. CASE fo.validity # T.validity
  BY <1>2, <1>3 DEF FolderFact
<1>4. CASE fo.validity = T.validity
  <2>1. S.validity = T.validity
    BY <1>1, <1>4 DEF Onward, FolderFact
  <2>2. S.next <= T.next /\ fo.last < S.next
    BY <1>4, <2>1 DEF Onward, FolderFact
  <2>3. ASSUME NEW u \in Mail!Uids, u <= fo.last
        PROVE  /\ T.date[u] = "new" => S.date[u] = "new"
               /\ T.date[u] # "none" => S.date[u] # "none"
    <3>1. ~(u >= S.next)
      BY <1>1, <2>2, <2>3
    <3>2. QED
      BY <2>1, <3>1 DEF Onward
  <2>4. QED
    BY <1>1, <1>2, <1>4, <2>1, <2>2, <2>3 DEF FolderFact
<1>5. QED
  BY <1>3, <1>4

LEMMA RunOnward ==
    ASSUME NEW S \in Servers, NEW T \in Servers, Onward(S, T), NEW r \in Runs, NEW fo \in Folders, NEW ro, RunFact(r, fo, ro, S)
    PROVE  RunFact(r, fo, ro, T)
<1>1. /\ S.validity \in Nat /\ T.validity \in Nat /\ S.next \in Nat /\ T.next \in Nat
      /\ r.validity \in Nat /\ r.next \in Nat /\ r.last \in Nat /\ r.oldest \in Nat /\ r.todo \subseteq Mail!Uids
      /\ fo.last \in Nat /\ fo.oldest \in Nat /\ Mail!Uids \subseteq Nat
  BY MailCounts DEF Servers, Runs, Folders
<1>2. CASE r.pc \notin {"renumbered", "first", "new", "store", "expunge", "backfill"}
  BY <1>2 DEF RunFact, Storing
<1>3. CASE r.pc \in {"renumbered", "first", "new", "store", "expunge", "backfill"}
  <2>1. r.validity <= S.validity /\ S.validity <= T.validity
    BY <1>3 DEF RunFact, Onward
  <2>2. CASE r.validity # T.validity
    <3>1. r.validity <= T.validity
      BY <1>1, <2>1
    <3>2. QED
      BY <1>3, <2>2, <3>1 DEF RunFact
  <2>3. CASE r.validity = T.validity
    <3>1. S.validity = T.validity /\ S.next <= T.next
      BY <1>1, <2>1, <2>3 DEF Onward
    <3>2. ASSUME NEW u \in Mail!Uids, u < S.next
          PROVE  /\ u < T.next
                 /\ T.date[u] = "new" => S.date[u] = "new"
                 /\ T.date[u] # "none" => S.date[u] # "none"
      <4>1. ~(u >= S.next) /\ u < T.next
        BY <1>1, <3>1, <3>2
      <4>2. QED
        BY <3>1, <4>1 DEF Onward
    <3>3. r.next <= T.next
      <4>1. r.next <= S.next
        BY <1>3, <2>3, <3>1 DEF RunFact
      <4>2. QED
        BY <1>1, <3>1, <4>1
    <3>4. r.pc = "store" => \A u \in r.todo : u < T.next
      BY <1>1, <2>3, <3>1, <3>2 DEF RunFact
    <3>5. Storing(r, "saveFirst") =>
            /\ r.last < T.next
            /\ \A u \in Mail!Uids :
                r.oldest <= u /\ u <= r.last /\ T.date[u] = "new" => ~Missing(u, ro) \/ u \in r.todo
      <4>1. SUFFICES ASSUME Storing(r, "saveFirst")
                     PROVE  /\ r.last < T.next
                            /\ \A u \in Mail!Uids :
                                r.oldest <= u /\ u <= r.last /\ T.date[u] = "new" => ~Missing(u, ro) \/ u \in r.todo
        OBVIOUS
      <4>2. /\ r.last < S.next
            /\ \A u \in Mail!Uids :
                r.oldest <= u /\ u <= r.last /\ S.date[u] = "new" => ~Missing(u, ro) \/ u \in r.todo
        BY <2>3, <3>1, <4>1 DEF RunFact
      <4>3. \A u \in Mail!Uids : u <= r.last => u < S.next
        BY <1>1, <4>2
      <4>4. QED
        BY <1>1, <3>1, <3>2, <4>2, <4>3
    <3>6. Storing(r, "saveNew") =>
            /\ r.last < T.next
            /\ \A u \in Mail!Uids :
                fo.last < u /\ u <= r.last /\ T.date[u] # "none" => ~Missing(u, ro) \/ u \in r.todo
      <4>1. SUFFICES ASSUME Storing(r, "saveNew")
                     PROVE  /\ r.last < T.next
                            /\ \A u \in Mail!Uids :
                                fo.last < u /\ u <= r.last /\ T.date[u] # "none" => ~Missing(u, ro) \/ u \in r.todo
        OBVIOUS
      <4>2. /\ r.last < S.next
            /\ \A u \in Mail!Uids :
                fo.last < u /\ u <= r.last /\ S.date[u] # "none" => ~Missing(u, ro) \/ u \in r.todo
        BY <2>3, <3>1, <4>1 DEF RunFact
      <4>3. \A u \in Mail!Uids : u <= r.last => u < S.next
        BY <1>1, <4>2
      <4>4. QED
        BY <1>1, <3>1, <3>2, <4>2, <4>3
    <3>7. Storing(r, "saveOld") =>
            /\ fo.last < T.next
            /\ \A u \in Mail!Uids :
                r.oldest <= u /\ u <= fo.last /\ T.date[u] = "new" => ~Missing(u, ro) \/ u \in r.todo
      <4>1. SUFFICES ASSUME Storing(r, "saveOld")
                     PROVE  /\ fo.last < T.next
                            /\ \A u \in Mail!Uids :
                                r.oldest <= u /\ u <= fo.last /\ T.date[u] = "new" => ~Missing(u, ro) \/ u \in r.todo
        OBVIOUS
      <4>2. /\ fo.last < S.next
            /\ \A u \in Mail!Uids :
                r.oldest <= u /\ u <= fo.last /\ S.date[u] = "new" => ~Missing(u, ro) \/ u \in r.todo
        BY <2>3, <3>1, <4>1 DEF RunFact
      <4>3. \A u \in Mail!Uids : u <= fo.last => u < S.next
        BY <1>1, <4>2
      <4>4. QED
        BY <1>1, <3>1, <3>2, <4>2, <4>3
    <3>8. QED
      BY <1>1, <1>3, <2>1, <2>3, <3>1, <3>3, <3>4, <3>5, <3>6, <3>7 DEF RunFact
  <2>4. QED
    BY <2>2, <2>3
<1>4. QED
  BY <1>2, <1>3

-----------------------------------------------------------------------------
\* Credentials change only between runs, and no folder is marked.
Calm == \A w \in MailWorlds : w.calm /\ ~w.marks

LEMMA MailBasics ==
    ASSUME MailTypes
    PROVE  /\ cred.box \in Mail!Boxes /\ server[cred.box] \in Servers /\ folder \in Folders /\ mailFaults \in Nat
           /\ \A p \in Mailers : run[p] \in Runs
           /\ \A u \in Mail!Uids : u \in Nat /\ rows[u] \in Rows \union {Mail!NoRow}
           /\ Mail!NoFolder \in Folders /\ Mail!Idle \in Runs /\ Mail!NoFolder.oldest = 0
           /\ Mail!NoFolder.validity = 0 /\ ~Mail!NoFolder.complete /\ ~Mail!NoFolder.there /\ Mail!Idle.pc = "idle"
           /\ \A u \in Mail!Uids : u \in Mail!Stored <=> ~Missing(u, rows)
<1>1. Mail!NoFolder \in Folders /\ Mail!Idle \in Runs /\ Mail!NoFolder.oldest = 0
      /\ Mail!NoFolder.validity = 0 /\ ~Mail!NoFolder.complete /\ ~Mail!NoFolder.there /\ Mail!Idle.pc = "idle"
  BY DEF Mail!NoFolder, Folders, Mail!Idle, Runs
<1>2. \A u \in Mail!Uids : u \in Mail!Stored <=> ~Missing(u, rows)
  BY DEF Mail!Stored, Missing
<1>3. QED
  BY <1>1, <1>2, MailCounts DEF MailTypes, Creds

LEMMA NothingFact ==
    ASSUME NEW S \in Servers, S.validity >= 1, NEW ro
    PROVE  FolderFact(Mail!NoFolder, ro, S)
BY DEF FolderFact, Mail!NoFolder, Servers

\* Servers do as they like.
LEMMA ServerMoves ==
    ASSUME MailInv, UNCHANGED <<world, cred, patch, state, folder, rows, run, mailFaults>>,
           server' \in [Mail!Boxes -> Servers], ServerInv', \A b \in Mail!Boxes : Onward(server[b], server'[b])
    PROVE  MailInv'
<1> DEFINE S == server[cred.box]
           T == server'[cred.box]
<1>1. MailTypes /\ MailTypes'
  BY DEF MailInv, MailTypes, Mail!Stored
<1>2. S \in Servers /\ T \in Servers /\ Onward(S, T) /\ folder \in Folders /\ \A p \in Mailers : run[p] \in Runs
  BY <1>1, MailBasics
<1>3. Mail!Stored' = Mail!Stored
  BY DEF Mail!Stored
<1>4. IdentityInv' /\ NumberInv'
  BY <1>3 DEF MailInv, IdentityInv, NothingKnown, NumberInv
<1>5. FolderInv'
  <2>1. FolderFact(folder, rows, S) => FolderFact(folder, rows, T)
    BY <1>2, FolderOnward
  <2>2. QED
    BY <2>1 DEF MailInv, FolderInv
<1>6. RunInv'
  <2>1. \A p \in Mailers : RunFact(run[p], folder, rows, S) => RunFact(run[p], folder, rows, T)
    BY <1>2, RunOnward
  <2>2. QED
    BY <2>1 DEF MailInv, RunInv, Under
<1>7. QED
  BY <1>1, <1>4, <1>5, <1>6 DEF MailInv

\* What is known while a run is under way.
LEMMA RunIs ==
    ASSUME MailInv, NEW p \in Mailers, Under(run[p])
    PROVE  /\ run[p] \in Runs /\ run[p].cred = cred /\ state.leased /\ server[cred.box] \in Servers
           /\ Mail!Box(p) = server[cred.box] /\ server[cred.box].validity >= 1 /\ server[cred.box].next >= 1
           /\ \A u \in Mail!Uids : server[cred.box].date[u] # "none" => u < server[cred.box].next
           /\ RunFact(run[p], folder, rows, server[cred.box])
           /\ \A q \in Mailers : q # p => ~Under(run[q])
           /\ run[p].pc # "reset" => state.identity = cred.box /\ FolderFact(folder, rows, server[cred.box])
           /\ mailFaults = 0 =>
               /\ folder.oldest # 0 => StoredAs(folder.validity, rows)
               /\ folder.oldest = 0 => NoneStored(rows) \/ Storing(run[p], "saveFirst")
               /\ NumberFact(run[p], rows)
<1>1. run[p] \in Runs /\ cred.box \in Mail!Boxes /\ server[cred.box] \in Servers
  BY MailBasics DEF MailInv
<1>2. /\ run[p].cred = cred /\ state.leased /\ RunFact(run[p], folder, rows, server[cred.box])
      /\ \A q \in Mailers : q # p => ~Under(run[q])
      /\ run[p].pc # "reset" => state.identity = cred.box /\ FolderFact(folder, rows, server[cred.box])
  BY DEF MailInv, RunInv, FolderInv, Under
<1>3. /\ server[cred.box].validity >= 1 /\ server[cred.box].next >= 1
      /\ \A u \in Mail!Uids : server[cred.box].date[u] # "none" => u < server[cred.box].next
  BY <1>1 DEF MailInv, ServerInv
<1>4. Mail!Box(p) = server[cred.box]
  BY <1>2 DEF Mail!Box
<1>5. mailFaults = 0 =>
        /\ folder.oldest # 0 => StoredAs(folder.validity, rows)
        /\ folder.oldest = 0 => NoneStored(rows) \/ Storing(run[p], "saveFirst")
        /\ NumberFact(run[p], rows)
  <2>1. \A q \in Mailers : Storing(run[q], "saveFirst") => q = p
    BY <1>2 DEF Storing, Under
  <2>2. QED
    BY <2>1 DEF MailInv, NumberInv
<1>6. QED
  BY <1>1, <1>2, <1>3, <1>4, <1>5

\* A step of the run under way.
LEMMA RunActs ==
    ASSUME MailInv, NEW p \in Mailers, Under(run[p]), NEW r \in Runs, run' = [run EXCEPT ![p] = r],
           UNCHANGED <<world, server, cred, patch>>, state' \in SyncStates, folder' \in Folders, mailFaults' \in Nat,
           rows' \in [Mail!Uids -> Rows \union {Mail!NoRow}], IsFiniteSet(Mail!Stored'),
           r.pc = "idle" => r = Mail!Idle, r.pc # "idle" => r.cred = cred, Under(r) => state'.leased,
           r.pc \notin {"idle", "loaded", "reset"} => state'.identity = cred.box,
           Under(r) => RunFact(r, folder', rows', server[cred.box]),
           IdentityInv', FolderInv',
           mailFaults' = 0 =>
               /\ folder'.oldest # 0 => StoredAs(folder'.validity, rows')
               /\ folder'.oldest = 0 => NoneStored(rows') \/ Storing(r, "saveFirst")
               /\ NumberFact(r, rows')
    PROVE  MailInv'
<1>1. MailTypes' /\ ServerInv'
  BY DEF MailInv, MailTypes, ServerInv
<1>2. run'[p] = r /\ \A q \in Mailers : q # p => run'[q] = run[q] /\ ~Under(run[q])
  <2>1. run \in [Mailers -> Runs]
    BY DEF MailInv, MailTypes
  <2>2. QED
    BY <2>1, RunIs
<1>3. RunInv'
  <2>1. \A q \in Mailers : q # p =>
          /\ run'[q] = run[q] /\ ~Under(run[q]) /\ run[q].pc \in {"idle", "loaded"}
          /\ run[q].pc = "idle" => run[q] = Mail!Idle
          /\ run[q].pc # "idle" => run[q].cred = cred
    BY <1>2 DEF MailInv, RunInv, Under
  <2>2. \A x, y \in Mailers : Under(run'[x]) /\ Under(run'[y]) => x = y
    BY <2>1
  <2>3. \A q \in Mailers :
          /\ run'[q].pc = "idle" => run'[q] = Mail!Idle
          /\ run'[q].pc # "idle" => run'[q].cred = cred
          /\ Under(run'[q]) => state'.leased
          /\ run'[q].pc \notin {"idle", "loaded", "reset"} => state'.identity = cred.box
          /\ Under(run'[q]) => RunFact(run'[q], folder', rows', server[cred.box])
    BY <1>2, <2>1
  <2>4. QED
    BY <2>2, <2>3 DEF RunInv
<1>4. NumberInv'
  <2>1. \A q \in Mailers : q # p => NumberFact(run'[q], rows')
    BY <1>2 DEF NumberFact, Storing, Under
  <2>2. QED
    BY <1>2, <2>1 DEF NumberInv
<1>5. QED
  BY <1>1, <1>3, <1>4 DEF MailInv

\* A step that leaves alone what is stored and what is saved of the folder.
LEMMA RunWalks ==
    ASSUME MailInv, NEW p \in Mailers, Under(run[p]), NEW r \in Runs, run' = [run EXCEPT ![p] = r],
           UNCHANGED <<world, server, cred, patch, folder, rows>>,
           state' \in SyncStates, state'.identity = state.identity, mailFaults' \in Nat,
           r.pc = "idle" => r = Mail!Idle, r.pc # "idle" => r.cred = cred, Under(r) => state'.leased,
           r.pc \notin {"idle", "loaded", "reset"} => state.identity = cred.box,
           Under(r) => RunFact(r, folder, rows, server[cred.box]),
           mailFaults' = 0 =>
               /\ mailFaults = 0
               /\ Storing(run[p], "saveFirst") => FALSE
               /\ NumberFact(r, rows)
    PROVE  MailInv'
<1>1. /\ folder' \in Folders /\ rows' \in [Mail!Uids -> Rows \union {Mail!NoRow}] /\ IsFiniteSet(Mail!Stored')
      /\ Mail!Stored' = Mail!Stored
  BY DEF MailInv, MailTypes, Mail!Stored
<1>2. IdentityInv' /\ FolderInv'
  BY <1>1 DEF MailInv, IdentityInv, FolderInv, NothingKnown
<1>3. mailFaults' = 0 =>
        /\ folder'.oldest # 0 => StoredAs(folder'.validity, rows')
        /\ folder'.oldest = 0 => NoneStored(rows') \/ Storing(r, "saveFirst")
        /\ NumberFact(r, rows')
  BY RunIs
<1>4. QED
  BY <1>1, <1>2, <1>3, RunActs

-----------------------------------------------------------------------------

\* Steps of runs that are not under way, of the lease and of the credentials.
LEMMA Rests ==
    ASSUME MailInv, UNCHANGED <<world, server, cred, folder, rows>>, mailFaults' \in Nat, mailFaults' = 0 => mailFaults = 0,
           run' \in [Mailers -> Runs],
           \A q \in Mailers :
               \/ run'[q] = run[q]
               \/ /\ ~Under(run[q]) /\ ~Under(run'[q])
                  /\ run'[q].pc = "idle" => run'[q] = Mail!Idle
                  /\ run'[q].pc # "idle" => run'[q].cred = cred,
           patch' \in {"idle", "reset", "auth"}, patch' = patch \/ patch # "reset",
           state' \in SyncStates, state'.identity = state.identity,
           \A q \in Mailers : Under(run[q]) => state'.leased
    PROVE  MailInv'
<1>1. MailTypes' /\ ServerInv' /\ Mail!Stored' = Mail!Stored
  BY DEF MailInv, MailTypes, ServerInv, Mail!Stored
<1>2. IdentityInv' /\ FolderInv'
  BY <1>1 DEF MailInv, IdentityInv, FolderInv, NothingKnown
<1>3. \A q \in Mailers : (Under(run[q]) <=> Under(run'[q])) /\ (Under(run[q]) => run'[q] = run[q])
  OBVIOUS
<1>4. RunInv'
  <2>1. \A x, y \in Mailers : Under(run'[x]) /\ Under(run'[y]) => x = y
    BY <1>3 DEF MailInv, RunInv
  <2>2. ASSUME NEW q \in Mailers
        PROVE  /\ run'[q].pc = "idle" => run'[q] = Mail!Idle
               /\ run'[q].pc # "idle" => run'[q].cred = cred
               /\ Under(run'[q]) => state'.leased
               /\ run'[q].pc \notin {"idle", "loaded", "reset"} => state'.identity = cred.box
               /\ Under(run'[q]) => RunFact(run'[q], folder, rows, server[cred.box])
    <3>1. CASE run'[q] = run[q]
      BY <3>1 DEF MailInv, RunInv
    <3>2. CASE run'[q] # run[q]
      BY <3>2 DEF Under
    <3>3. QED
      BY <3>1, <3>2
  <2>3. QED
    BY <2>1, <2>2 DEF RunInv
<1>5. NumberInv'
  <2>1. \A q \in Mailers : NumberFact(run'[q], rows) <=> NumberFact(run[q], rows)
    BY DEF NumberFact, Storing, Under
  <2>2. \A q \in Mailers : Storing(run'[q], "saveFirst") <=> Storing(run[q], "saveFirst")
    BY DEF Storing, Under
  <2>3. QED
    BY <2>1, <2>2 DEF MailInv, NumberInv
<1>6. QED
  BY <1>1, <1>2, <1>4, <1>5 DEF MailInv

LEMMA LoadKeeps == ASSUME MailInv, NEW p \in Mailers, Mail!Load(p) PROVE MailInv'
<1> DEFINE r == [Mail!Idle EXCEPT !.pc = "loaded", !.cred = cred]
<1>1. /\ run[p].pc = "idle" /\ run' = [run EXCEPT ![p] = r] /\ run \in [Mailers -> Runs] /\ state \in SyncStates
      /\ patch \in {"idle", "reset", "auth"} /\ UNCHANGED <<world, server, cred, patch, state, folder, rows, mailFaults>>
  BY DEF MailInv, MailTypes, Mail!Load, Mail!At, Mail!Go
<1>2. r \in Runs /\ r.pc = "loaded" /\ r.cred = cred
  BY DEF MailInv, MailTypes, Creds, Mail!Idle, Runs
<1> HIDE DEF r
<1>3. \A q \in Mailers : Under(run[q]) => state.leased
  BY DEF MailInv, RunInv
<1>4. mailFaults' \in Nat
  BY <1>1 DEF MailInv, MailTypes
<1>5. QED
  BY <1>1, <1>2, <1>3, <1>4, Rests DEF Under

LEMMA BusyKeeps == ASSUME MailInv, NEW p \in Mailers, Mail!Busy(p) PROVE MailInv'
<1>1. /\ run[p].pc = "loaded" /\ run' = [run EXCEPT ![p] = Mail!Idle] /\ run \in [Mailers -> Runs] /\ state \in SyncStates
      /\ patch \in {"idle", "reset", "auth"} /\ mailFaults' \in Nat
      /\ UNCHANGED <<world, server, cred, patch, state, folder, rows, mailFaults>>
  BY DEF MailInv, MailTypes, Mail!Busy, Mail!At, Mail!Go
<1>2. Mail!Idle \in Runs /\ Mail!Idle.pc = "idle"
  BY MailBasics DEF MailInv
<1>3. \A q \in Mailers : Under(run[q]) => state.leased
  BY DEF MailInv, RunInv
<1>4. QED
  BY <1>1, <1>2, <1>3, Rests DEF Under

LEMMA MailLeaseEndsKeeps == ASSUME MailInv, Mail!LeaseEnds PROVE MailInv'
<1>1. /\ state' = [state EXCEPT !.leased = FALSE] /\ UNCHANGED <<world, server, cred, patch, folder, rows, run, mailFaults>>
      /\ run \in [Mailers -> Runs] /\ state \in SyncStates /\ patch \in {"idle", "reset", "auth"} /\ mailFaults' \in Nat
  BY DEF MailInv, MailTypes, Mail!LeaseEnds
<1>2. \A q \in Mailers : ~Under(run[q])
  BY DEF Mail!LeaseEnds, Mail!Running, Under
<1>3. state' \in SyncStates /\ state'.identity = state.identity
  BY <1>1 DEF SyncStates
<1>4. QED
  BY <1>1, <1>2, <1>3, Rests

LEMMA PatchAuthKeeps == ASSUME MailInv, Mail!PatchAuth PROVE MailInv'
<1>1. /\ state' = [state EXCEPT !.auth = FALSE] /\ UNCHANGED <<world, server, cred, folder, rows, run, mailFaults>>
      /\ run \in [Mailers -> Runs] /\ state \in SyncStates /\ patch = "auth" /\ patch' = "idle" /\ mailFaults' \in Nat
  BY DEF MailInv, MailTypes, Mail!PatchAuth
<1>2. state' \in SyncStates /\ state'.identity = state.identity /\ state'.leased = state.leased
  BY <1>1 DEF SyncStates
<1>3. \A q \in Mailers : Under(run[q]) => state'.leased
  BY <1>2 DEF MailInv, RunInv
<1>4. QED
  BY <1>1, <1>2, <1>3, Rests

\* The identity is compared, and what is of another deleted.
LEMMA ResetIs ==
    ASSUME MailInv, Mail!Reset(cred.box)
    PROVE  /\ state' \in SyncStates /\ state'.identity = cred.box /\ state'.leased = state.leased
           /\ \/ UNCHANGED <<state, folder, rows>>
              \/ /\ state.identity # cred.box /\ folder' = Mail!NoFolder
                 /\ rows' = [u \in Mail!Uids |-> Mail!NoRow]
<1>1. state \in SyncStates /\ cred.box \in Mail!Boxes
  BY DEF MailInv, MailTypes, Creds
<1>2. CASE state.identity = cred.box
  BY <1>1, <1>2 DEF Mail!Reset
<1>3. CASE state.identity # cred.box
  <2>1. /\ state' = [state EXCEPT !.identity = cred.box, !.auth = FALSE] /\ folder' = Mail!NoFolder
        /\ rows' = [u \in Mail!Uids |-> Mail!NoRow]
    BY <1>3 DEF Mail!Reset, Mail!Empty
  <2>2. state' \in SyncStates /\ state'.identity = cred.box /\ state'.leased = state.leased
    BY <1>1, <2>1 DEF SyncStates
  <2>3. QED
    BY <1>3, <2>1, <2>2
<1>4. QED
  BY <1>2, <1>3

LEMMA NothingStored ==
    ASSUME rows' = [u \in Mail!Uids |-> Mail!NoRow]
    PROVE  /\ rows' \in [Mail!Uids -> Rows \union {Mail!NoRow}] /\ Mail!Stored' = {} /\ IsFiniteSet(Mail!Stored')
           /\ NoneStored(rows') /\ \A v : StoredAs(v, rows')
<1>1. Mail!Stored' = {}
  BY DEF Mail!Stored
<1>2. NoneStored(rows')
  BY DEF NoneStored, Missing
<1>3. \A v : StoredAs(v, rows')
  BY <1>2 DEF NoneStored, StoredAs
<1>4. IsFiniteSet(Mail!Stored')
  BY <1>1, FS_EmptySet
<1>5. QED
  BY <1>1, <1>2, <1>3, <1>4

\* Nothing known is right.
LEMMA NothingIsRight ==
    ASSUME MailInv, folder' = Mail!NoFolder, rows' = [u \in Mail!Uids |-> Mail!NoRow], cred' = cred, server' = server,
           patch' \in {"idle", "reset", "auth"}
    PROVE  IdentityInv' /\ FolderInv'
<1>1. Mail!Stored' = {}
  BY NothingStored
<1>2. server[cred.box] \in Servers /\ server[cred.box].validity >= 1
  BY MailBasics DEF MailInv, ServerInv
<1>3. FolderFact(Mail!NoFolder, rows', server[cred.box])
  BY <1>2, NothingFact
<1>4. Mail!NoFolder.oldest = 0 /\ ~Mail!NoFolder.complete
  BY DEF Mail!NoFolder
<1>5. QED
  BY <1>1, <1>3, <1>4 DEF IdentityInv, FolderInv, NothingKnown

LEMMA PatchResetKeeps == ASSUME MailInv, Mail!PatchReset PROVE MailInv'
<1>1. /\ patch = "reset" /\ patch' = "auth" /\ Mail!Reset(cred.box) /\ UNCHANGED <<world, server, cred, run, mailFaults>>
      /\ run \in [Mailers -> Runs] /\ mailFaults' \in Nat
  BY DEF MailInv, MailTypes, Mail!PatchReset
<1>2. /\ state' \in SyncStates /\ state'.identity = cred.box /\ state'.leased = state.leased
      /\ \/ UNCHANGED <<state, folder, rows>>
         \/ /\ state.identity # cred.box /\ folder' = Mail!NoFolder
            /\ rows' = [u \in Mail!Uids |-> Mail!NoRow]
  BY <1>1, ResetIs
<1>3. \A q \in Mailers : Under(run[q]) => state'.leased
  BY <1>2 DEF MailInv, RunInv
<1>4. CASE UNCHANGED <<state, folder, rows>>
  <2>1. MailTypes' /\ ServerInv' /\ Mail!Stored' = Mail!Stored
    BY <1>1, <1>2, <1>4 DEF MailInv, MailTypes, ServerInv, Mail!Stored
  <2>2. IdentityInv' /\ FolderInv' /\ RunInv' /\ NumberInv'
    BY <1>1, <1>2, <1>4, <2>1 DEF MailInv, IdentityInv, FolderInv, RunInv, NumberInv, NothingKnown
  <2>3. QED
    BY <2>1, <2>2 DEF MailInv
<1>5. CASE state.identity # cred.box /\ folder' = Mail!NoFolder /\ rows' = [u \in Mail!Uids |-> Mail!NoRow]
  <2>1. \A q \in Mailers : run[q].pc \in {"idle", "loaded", "reset"}
    BY <1>5 DEF MailInv, RunInv
  <2>2. Mail!NoFolder \in Folders /\ Mail!NoFolder.oldest = 0
    BY DEF Mail!NoFolder, Folders
  <2>3. MailTypes' /\ ServerInv' /\ NoneStored(rows') /\ \A v : StoredAs(v, rows')
    BY <1>1, <1>2, <1>5, <2>2, NothingStored DEF MailInv, MailTypes, ServerInv
  <2>4. IdentityInv' /\ FolderInv'
    BY <1>1, <1>5, NothingIsRight
  <2>5. RunInv'
    <3>1. \A q \in Mailers : RunFact(run[q], folder', rows', server[cred.box])
      BY <2>1 DEF RunFact, Storing
    <3>2. QED
      BY <1>1, <1>2, <1>3, <3>1 DEF MailInv, RunInv
  <2>6. NumberInv'
    <3>1. \A q \in Mailers : NumberFact(run[q], rows')
      BY <2>3 DEF NumberFact
    <3>2. QED
      BY <1>1, <1>5, <2>2, <2>3, <3>1 DEF NumberInv
  <2>7. QED
    BY <2>3, <2>4, <2>5, <2>6 DEF MailInv
<1>6. QED
  BY <1>2, <1>4, <1>5

\* The credentials change between runs.
LEMMA PatchKeeps == ASSUME Calm, MailInv, NEW b \in Mail!Boxes, Mail!Patch(b) PROVE MailInv'
<1>1. /\ patch = "idle" /\ patch' = "reset" /\ cred' = [box |-> b, n |-> 2]
      /\ UNCHANGED <<world, server, state, folder, rows, run, mailFaults>>
      /\ \A p \in Mailers : run[p] = Mail!Idle
  BY DEF Calm, MailInv, MailTypes, Mail!Patch, Mail!Between
<1>2. Mail!Idle.pc = "idle"
  BY DEF Mail!Idle
<1>3. MailTypes' /\ ServerInv' /\ Mail!Stored' = Mail!Stored
  BY <1>1 DEF MailInv, MailTypes, ServerInv, Creds, Mail!Stored
<1>4. IdentityInv' /\ NumberInv'
  BY <1>1, <1>3 DEF MailInv, IdentityInv, NumberInv, NothingKnown
<1>5. FolderInv'
  <2>1. server[b] \in Servers /\ server[b].validity >= 1
    BY DEF MailInv, MailTypes, ServerInv
  <2>2. CASE state.identity = cred.box
    BY <1>1, <2>2 DEF MailInv, FolderInv
  <2>3. CASE folder = Mail!NoFolder
    <3>1. FolderFact(folder, rows, server[b])
      BY <2>1, <2>3, NothingFact
    <3>2. QED
      BY <1>1, <3>1 DEF MailInv, FolderInv
  <2>4. QED
    BY <1>1, <2>2, <2>3 DEF MailInv, IdentityInv, NothingKnown
<1>6. RunInv'
  BY <1>1, <1>2 DEF MailInv, RunInv, Under
<1>7. QED
  BY <1>3, <1>4, <1>5, <1>6 DEF MailInv

\* A run gets the lease.
LEMMA ClaimMailKeeps == ASSUME MailInv, NEW p \in Mailers, NEW asked, Mail!Claim(p, asked) PROVE MailInv'
<1> DEFINE r == [run[p] EXCEPT !.pc = "reset"]
<1>1. /\ run[p].pc = "loaded" /\ ~state.leased /\ state' = [state EXCEPT !.leased = TRUE] /\ run' = [run EXCEPT ![p] = r]
      /\ UNCHANGED <<world, server, cred, patch, folder, rows, mailFaults>>
      /\ run \in [Mailers -> Runs] /\ state \in SyncStates
  BY DEF MailInv, MailTypes, Mail!Claim, Mail!At, Mail!Go
<1>2. r \in Runs /\ r.pc = "reset" /\ r.cred = cred
  <2>1. run[p].cred = cred
    BY <1>1 DEF MailInv, RunInv
  <2>2. QED
    BY <1>1, <2>1 DEF Runs
<1> HIDE DEF r
<1>3. state' \in SyncStates /\ state'.identity = state.identity /\ state'.leased
  BY <1>1 DEF SyncStates
<1>4. \A q \in Mailers : ~Under(run[q])
  BY <1>1 DEF MailInv, RunInv
<1>5. MailTypes' /\ ServerInv' /\ Mail!Stored' = Mail!Stored
  BY <1>1, <1>2, <1>3 DEF MailInv, MailTypes, ServerInv, Mail!Stored
<1>6. IdentityInv' /\ FolderInv'
  BY <1>1, <1>3, <1>5 DEF MailInv, IdentityInv, FolderInv, NothingKnown
<1>7. \A q \in Mailers : run'[q] = IF q = p THEN r ELSE run[q]
  BY <1>1
<1>8. RunInv'
  <2>1. RunFact(r, folder, rows, server[cred.box])
    BY <1>2 DEF RunFact, Storing
  <2>2. \A x, y \in Mailers : Under(run'[x]) /\ Under(run'[y]) => x = y
    BY <1>4, <1>7
  <2>3. \A q \in Mailers : q # p =>
          /\ run[q].pc = "idle" => run[q] = Mail!Idle
          /\ run[q].pc # "idle" => run[q].cred = cred
          /\ ~Under(run[q]) /\ run[q].pc \in {"idle", "loaded"}
    BY <1>4 DEF MailInv, RunInv, Under
  <2>4. QED
    BY <1>1, <1>2, <1>3, <1>7, <2>1, <2>2, <2>3 DEF RunInv
<1>9. NumberInv'
  <2>1. \A q \in Mailers : NumberFact(run'[q], rows) /\ ~Storing(run[q], "saveFirst")
    BY <1>2, <1>4, <1>7 DEF NumberFact, Storing, Under
  <2>2. QED
    BY <1>1, <2>1 DEF MailInv, NumberInv
<1>10. QED
  BY <1>5, <1>6, <1>8, <1>9 DEF MailInv

-----------------------------------------------------------------------------
\* The servers' steps, each of one mailbox.
LEMMA ServerStep ==
    ASSUME MailInv, NEW b \in Mail!Boxes, NEW s \in Servers, server' = [server EXCEPT ![b] = s],
           UNCHANGED <<world, cred, patch, state, folder, rows, run, mailFaults>>,
           s.validity >= 1, s.next >= 1, \A u \in Mail!Uids : s.date[u] # "none" => u < s.next, Onward(server[b], s)
    PROVE  MailInv'
<1>1. server \in [Mail!Boxes -> Servers]
  BY DEF MailInv, MailTypes
<1>2. server' \in [Mail!Boxes -> Servers] /\ \A c \in Mail!Boxes : server'[c] = IF c = b THEN s ELSE server[c]
  BY <1>1
<1>3. ServerInv'
  BY <1>2 DEF MailInv, ServerInv
<1>4. \A c \in Mail!Boxes : Onward(server[c], server[c])
  <2>1. \A c \in Mail!Boxes : server[c].validity \in Nat /\ server[c].next \in Nat
    BY <1>1 DEF Servers
  <2>2. QED
    BY <2>1 DEF Onward
<1>5. \A c \in Mail!Boxes : Onward(server[c], server'[c])
  BY <1>2, <1>4
<1>6. QED
  BY <1>2, <1>3, <1>5, ServerMoves

LEMMA OneServer ==
    ASSUME MailInv, NEW b \in Mail!Boxes
    PROVE  /\ server[b] \in Servers /\ server[b].validity >= 1 /\ server[b].next >= 1
           /\ server[b].validity \in Nat /\ server[b].next \in Nat /\ server[b].date \in [Mail!Uids -> Dates]
           /\ \A u \in Mail!Uids : u \in Nat /\ (server[b].date[u] # "none" => u < server[b].next)
           /\ server \in [Mail!Boxes -> Servers]
BY MailCounts DEF MailInv, MailTypes, ServerInv, Servers

LEMMA ArriveKeeps == ASSUME MailInv, NEW b \in Mail!Boxes, NEW d \in {"new", "old"}, Mail!Arrive(b, d) PROVE MailInv'
<1> DEFINE S == server[b]
           n == S.next
           s == [S EXCEPT !.date = [S.date EXCEPT ![n] = d], !.next = n + 1]
<1>1. server' = [server EXCEPT ![b].date[n] = d, ![b].next = n + 1] /\ n <= world.uids
  BY DEF Mail!Arrive
<1>2. UNCHANGED <<world, cred, patch, state, folder, rows, run, mailFaults>>
  BY DEF Mail!Arrive
<1>3. server' = [server EXCEPT ![b] = s]
  BY <1>1, OneServer DEF Servers
<1>4. n \in Mail!Uids /\ n \in Nat
  <2>1. world \in MailWorlds /\ world.uids \in Nat /\ n \in Nat /\ n >= 1
    BY MailAssumed, OneServer DEF MailInv, MailTypes, Mail!Assumption
  <2>2. n \in 1 .. world.uids
    BY <1>1, <2>1
  <2>3. QED
    BY <2>1, <2>2, MailCounts
<1>5. /\ s \in Servers /\ s.validity = S.validity /\ s.next = n + 1
      /\ \A u \in Mail!Uids : s.date[u] = IF u = n THEN d ELSE S.date[u]
  <2> DEFINE dates == [S.date EXCEPT ![n] = d]
  <2>1. /\ dates \in [Mail!Uids -> Dates]
        /\ \A u \in Mail!Uids : dates[u] = IF u = n THEN d ELSE S.date[u]
    BY <1>4, OneServer DEF Dates
  <2>2. S \in Servers /\ n + 1 \in Nat
    BY <1>4, OneServer
  <2> HIDE DEF dates, n
  <2>3. QED
    BY <2>1, <2>2 DEF Servers
<1> HIDE DEF s
<1>6. \A u \in Mail!Uids : s.date[u] # "none" => u < s.next
  <2>1. \A u \in Mail!Uids : u \in Nat /\ (S.date[u] # "none" => u < n)
    BY OneServer
  <2>2. QED
    BY <1>4, <1>5, <2>1
<1>7. Onward(S, s)
  BY <1>4, <1>5, OneServer DEF Onward
<1>8. S.validity \in Nat /\ s.validity >= 1 /\ s.next >= 1
  BY <1>4, <1>5, OneServer
<1>9. QED
  BY <1>2, <1>3, <1>5, <1>6, <1>7, <1>8, ServerStep

\* A message ages, or is deleted.
LEMMA DateKeeps ==
    ASSUME MailInv, NEW b \in Mail!Boxes, NEW v \in Mail!Uids, NEW d \in {"none", "old"}, server[b].date[v] # "none",
           server' = [server EXCEPT ![b].date[v] = d],
           UNCHANGED <<world, cred, patch, state, folder, rows, run, mailFaults>>
    PROVE  MailInv'
<1> DEFINE S == server[b]
           s == [S EXCEPT !.date = [S.date EXCEPT ![v] = d]]
<1>1. server' = [server EXCEPT ![b] = s]
  BY OneServer DEF Servers
<1>2. /\ s \in Servers /\ s.validity = S.validity /\ s.next = S.next
      /\ \A u \in Mail!Uids : s.date[u] = IF u = v THEN d ELSE S.date[u]
  BY OneServer DEF Servers, Dates
<1> HIDE DEF s
<1>3. \A u \in Mail!Uids : s.date[u] # "none" => u < s.next
  BY <1>2, OneServer
<1>4. Onward(S, s)
  BY <1>2, OneServer DEF Onward
<1>5. s.validity >= 1 /\ s.next >= 1
  BY <1>2, OneServer
<1>6. QED
  BY <1>1, <1>2, <1>3, <1>4, <1>5, ServerStep

LEMMA RenumberKeeps == ASSUME MailInv, NEW b \in Mail!Boxes, Mail!Renumber(b) PROVE MailInv'
<1> DEFINE S == server[b]
           s == [S EXCEPT !.validity = S.validity + 1, !.next = 1, !.date = [u \in Mail!Uids |-> "none"]]
<1>1. server' = [server EXCEPT ![b] = s] /\ UNCHANGED <<world, cred, patch, state, folder, rows, run, mailFaults>>
  BY OneServer DEF Mail!Renumber, Servers
<1>2. s \in Servers /\ s.validity = S.validity + 1 /\ s.next = 1 /\ \A u \in Mail!Uids : s.date[u] = "none"
  <2> DEFINE dates == [u \in Mail!Uids |-> "none"]
             v == S.validity + 1
  <2>1. dates \in [Mail!Uids -> Dates] /\ v \in Nat /\ S \in Servers /\ \A u \in Mail!Uids : dates[u] = "none"
    BY OneServer DEF Dates
  <2> HIDE DEF dates, v
  <2>2. [S EXCEPT !.validity = v, !.next = 1, !.date = dates] \in Servers
    BY <2>1 DEF Servers
  <2>3. QED
    BY <2>1, <2>2 DEF dates, v, Servers
<1> HIDE DEF s
<1>3. S.validity \in Nat /\ s.validity >= 1 /\ s.next >= 1
  BY <1>2, OneServer
<1>4. Onward(S, s)
  BY <1>2, <1>3 DEF Onward
<1>5. QED
  BY <1>1, <1>2, <1>3, <1>4, ServerStep

LEMMA MarkRests == ASSUME Calm, MailInv, NEW b, Mail!Mark(b) PROVE FALSE
BY DEF Calm, MailInv, MailTypes, Mail!Mark

-----------------------------------------------------------------------------
\* A run ends, or goes on without touching what is stored.
LEMMA OverKeeps ==
    ASSUME MailInv, NEW p \in Mailers, NEW auth \in BOOLEAN, Under(run[p]), Mail!Over(p, auth), mailFaults' \in Nat,
           mailFaults' = 0 => mailFaults = 0 /\ run[p].pc = "end"
    PROVE  MailInv'
<1>1. /\ state' = [state EXCEPT !.leased = FALSE, !.auth = auth] /\ run' = [run EXCEPT ![p] = Mail!Idle]
      /\ UNCHANGED <<world, server, cred, patch, folder, rows>> /\ state \in SyncStates
  BY DEF MailInv, MailTypes, Mail!Over, Mail!Go
<1>2. state' \in SyncStates /\ state'.identity = state.identity
  BY <1>1 DEF SyncStates
<1>3. Mail!Idle \in Runs /\ Mail!Idle.pc = "idle"
  BY MailBasics DEF MailInv
<1>4. ~Under(Mail!Idle) /\ NumberFact(Mail!Idle, rows)
  BY <1>3 DEF Under, NumberFact, Storing
<1>5. run[p].pc = "end" => ~Storing(run[p], "saveFirst")
  BY DEF Storing
<1>6. QED
  BY <1>1, <1>2, <1>3, <1>4, <1>5, RunWalks

LEMMA EndsKeep ==
    ASSUME MailInv, NEW p \in Mailers, Mail!Succeed(p) \/ Mail!Drops(p) \/ Mail!Refused(p)
    PROVE  MailInv'
<1>1. mailFaults \in Nat
  BY DEF MailInv, MailTypes
<1>2. CASE Mail!Succeed(p)
  <2>1. run[p].pc = "end" /\ Mail!Over(p, FALSE) /\ mailFaults' = mailFaults
    BY <1>2 DEF Mail!Succeed, Mail!At
  <2>2. QED
    BY <1>1, <2>1, OverKeeps DEF Under
<1>3. CASE Mail!Drops(p)
  <2>1. Under(run[p]) /\ Mail!Over(p, FALSE) /\ mailFaults' = mailFaults + 1
    BY <1>3 DEF Mail!Drops, Mail!Running, Under
  <2>2. mailFaults' \in Nat /\ mailFaults' # 0
    BY <1>1, <2>1
  <2>3. QED
    BY <2>1, <2>2, OverKeeps
<1>4. CASE Mail!Refused(p)
  <2>1. run[p].pc = "list" /\ Mail!Over(p, TRUE) /\ mailFaults' = mailFaults + 1
    BY <1>4 DEF Mail!Refused, Mail!At
  <2>2. mailFaults' \in Nat /\ mailFaults' # 0
    BY <1>1, <2>1
  <2>3. QED
    BY <2>1, <2>2, OverKeeps DEF Under
<1>5. QED
  BY <1>2, <1>3, <1>4

LEMMA CrashKeeps == ASSUME MailInv, NEW p \in Mailers, Mail!Crash(p) PROVE MailInv'
<1>1. /\ run[p].pc # "idle" /\ mailFaults' = mailFaults + 1 /\ run' = [run EXCEPT ![p] = Mail!Idle]
      /\ UNCHANGED <<world, server, cred, patch, state, folder, rows>>
      /\ run \in [Mailers -> Runs] /\ state \in SyncStates /\ patch \in {"idle", "reset", "auth"} /\ mailFaults \in Nat
  BY DEF MailInv, MailTypes, Mail!Crash, Mail!At, Mail!Go
<1>2. mailFaults' \in Nat /\ mailFaults' # 0
  BY <1>1
<1>3. Mail!Idle \in Runs /\ Mail!Idle.pc = "idle" /\ ~Under(Mail!Idle)
  BY MailBasics DEF MailInv, Under
<1>4. CASE Under(run[p])
  BY <1>1, <1>2, <1>3, <1>4, RunWalks
<1>5. CASE ~Under(run[p])
  <2>1. \A q \in Mailers : Under(run[q]) => state'.leased
    BY <1>1 DEF MailInv, RunInv
  <2>2. QED
    BY <1>1, <1>2, <1>3, <1>5, <2>1, Rests
<1>6. QED
  BY <1>4, <1>5

LEMMA OutOfTimeKeeps == ASSUME MailInv, NEW p \in Mailers, Mail!OutOfTime(p) PROVE MailInv'
<1> DEFINE r == [run[p] EXCEPT !.pc = "end"]
<1>1. /\ run[p].pc = "backfill" /\ mailFaults' = mailFaults + 1 /\ run' = [run EXCEPT ![p] = r]
      /\ UNCHANGED <<world, server, cred, patch, state, folder, rows>> /\ state \in SyncStates /\ mailFaults \in Nat
  BY DEF MailInv, MailTypes, Mail!OutOfTime, Mail!At, Mail!Go
<1>2. Under(run[p]) /\ mailFaults' \in Nat /\ mailFaults' # 0
  BY <1>1 DEF Under
<1>3. r \in Runs /\ r.pc = "end" /\ r.cred = cred
  BY <1>2, RunIs DEF Runs
<1> HIDE DEF r
<1>4. RunFact(r, folder, rows, server[cred.box])
  <2>1. folder.there
    BY <1>1, <1>2, RunIs DEF RunFact
  <2>2. QED
    BY <1>3, <2>1 DEF RunFact, Storing
<1>5. state.leased /\ state.identity = cred.box
  BY <1>1, <1>2, RunIs
<1>6. QED
  BY <1>1, <1>2, <1>3, <1>4, <1>5, RunWalks

LEMMA CheckIdentityKeeps == ASSUME MailInv, NEW p \in Mailers, Mail!CheckIdentity(p) PROVE MailInv'
<1> DEFINE r == [run[p] EXCEPT !.pc = "list"]
<1>1. /\ run[p].pc = "reset" /\ Mail!Reset(run[p].cred.box) /\ run' = [run EXCEPT ![p] = r]
      /\ UNCHANGED <<world, server, cred, patch, mailFaults>>
  BY DEF Mail!CheckIdentity, Mail!At, Mail!Go
<1>2. Under(run[p])
  BY <1>1 DEF Under
<1>3. r \in Runs /\ r.pc = "list" /\ r.cred = cred /\ state.leased
  BY <1>2, RunIs DEF Runs
<1> HIDE DEF r
<1>4. /\ state' \in SyncStates /\ state'.identity = cred.box /\ state'.leased = state.leased
      /\ \/ UNCHANGED <<state, folder, rows>>
         \/ /\ state.identity # cred.box /\ folder' = Mail!NoFolder
            /\ rows' = [u \in Mail!Uids |-> Mail!NoRow]
  BY <1>1, <1>2, ResetIs, RunIs
<1>5. RunFact(r, folder', rows', server[cred.box]) /\ NumberFact(r, rows')
  BY <1>3 DEF RunFact, NumberFact, Storing
<1>6. CASE UNCHANGED <<state, folder, rows>>
  <2>1. mailFaults' \in Nat /\ ~Storing(run[p], "saveFirst")
    BY <1>1 DEF MailInv, MailTypes, Storing
  <2>2. QED
    BY <1>1, <1>2, <1>3, <1>4, <1>5, <1>6, <2>1, RunWalks
<1>7. CASE folder' = Mail!NoFolder /\ rows' = [u \in Mail!Uids |-> Mail!NoRow]
  <2>1. Mail!NoFolder \in Folders /\ Mail!NoFolder.oldest = 0 /\ mailFaults' \in Nat /\ patch \in {"idle", "reset", "auth"}
    BY <1>1, MailBasics DEF MailInv, MailTypes
  <2>2. /\ rows' \in [Mail!Uids -> Rows \union {Mail!NoRow}] /\ IsFiniteSet(Mail!Stored')
        /\ NoneStored(rows') /\ \A v : StoredAs(v, rows')
    BY <1>7, NothingStored
  <2>3. IdentityInv' /\ FolderInv'
    BY <1>1, <1>7, <2>1, NothingIsRight
  <2>4. QED
    BY <1>1, <1>2, <1>3, <1>4, <1>5, <1>7, <2>1, <2>2, <2>3, RunActs
<1>8. QED
  BY <1>4, <1>6, <1>7

-----------------------------------------------------------------------------
\* Steps of a run that has begun with the folder.
LEMMA ListKeeps == ASSUME MailInv, NEW p \in Mailers, Mail!List(p) PROVE MailInv'
<1> DEFINE r == [run[p] EXCEPT !.pc = "folder"]
           S == server[cred.box]
<1>1. run[p].pc = "list" /\ Under(run[p])
  BY DEF Mail!List, Mail!At, Under
<1>2. /\ run[p] \in Runs /\ run[p].cred = cred /\ state.leased /\ Mail!Box(p) = S /\ S \in Servers
      /\ state.identity = cred.box /\ FolderFact(folder, rows, S)
  BY <1>1, RunIs
<1>3. ~S.junk
  BY <1>2 DEF Servers
<1>4. /\ folder' = [folder EXCEPT !.there = TRUE, !.synced = TRUE] /\ run' = [run EXCEPT ![p] = r]
      /\ UNCHANGED <<world, server, cred, patch, state, rows, mailFaults>>
  BY <1>2, <1>3 DEF Mail!List, Mail!Go
<1>5. r \in Runs /\ r.pc = "folder" /\ r.cred = cred
  BY <1>2 DEF Runs
<1>6. /\ folder' \in Folders /\ folder'.there /\ folder'.validity = folder.validity /\ folder'.last = folder.last
      /\ folder'.oldest = folder.oldest /\ folder'.complete = folder.complete /\ folder'.stopped = folder.stopped
  BY <1>4, MailBasics DEF MailInv, Folders
<1> HIDE DEF r
<1>7. /\ state' \in SyncStates /\ mailFaults' \in Nat /\ rows' \in [Mail!Uids -> Rows \union {Mail!NoRow}]
      /\ Mail!Stored' = Mail!Stored /\ IsFiniteSet(Mail!Stored')
  BY <1>4 DEF MailInv, MailTypes, Mail!Stored
<1>8. RunFact(r, folder', rows', S)
  BY <1>5, <1>6 DEF RunFact, Storing
<1>9. IdentityInv'
  BY <1>2, <1>4, <1>6, <1>7 DEF MailInv, IdentityInv
<1>10. FolderInv'
  <2>1. FolderFact(folder', rows', S)
    BY <1>2, <1>4, <1>6 DEF FolderFact
  <2>2. QED
    BY <1>4, <1>6, <2>1 DEF MailInv, FolderInv
<1>11. mailFaults' = 0 =>
         /\ folder'.oldest # 0 => StoredAs(folder'.validity, rows')
         /\ folder'.oldest = 0 => NoneStored(rows') \/ Storing(r, "saveFirst")
         /\ NumberFact(r, rows')
  <2>1. ~Storing(run[p], "saveFirst") /\ NumberFact(r, rows)
    BY <1>1, <1>5 DEF Storing, NumberFact
  <2>2. QED
    BY <1>1, <1>4, <1>6, <2>1, RunIs
<1>12. QED
  BY <1>1, <1>2, <1>4, <1>5, <1>6, <1>7, <1>8, <1>9, <1>10, <1>11, RunActs

LEMMA SelectKeeps == ASSUME MailInv, NEW p \in Mailers, Mail!Select(p) PROVE MailInv'
<1> DEFINE S == server[cred.box]
           known == folder.validity \in {0, S.validity}
           r == [run[p] EXCEPT !.pc = IF ~known THEN "renumbered" ELSE IF folder.oldest = 0 THEN "first" ELSE "new",
                               !.validity = S.validity, !.next = S.next,
                               !.last = IF known THEN folder.last ELSE 0,
                               !.oldest = IF known THEN folder.oldest ELSE 0]
<1>1. run[p].pc = "folder" /\ Under(run[p])
  BY DEF Mail!Select, Mail!At, Under
<1>2. /\ run[p] \in Runs /\ run[p].cred = cred /\ state.leased /\ Mail!Box(p) = S /\ S \in Servers
      /\ state.identity = cred.box /\ FolderFact(folder, rows, S) /\ folder.there
      /\ S.validity >= 1 /\ S.next >= 1
  <2>1. RunFact(run[p], folder, rows, S)
    BY <1>1, RunIs
  <2>2. folder.there
    BY <1>1, <2>1 DEF RunFact
  <2>3. QED
    BY <1>1, <2>2, RunIs
<1>3. /\ rows' = IF known THEN rows ELSE [u \in Mail!Uids |-> Mail!NoRow]
      /\ run' = [run EXCEPT ![p] = r]
      /\ UNCHANGED <<world, server, cred, patch, state, folder, mailFaults>>
  BY <1>2 DEF Mail!Select, Mail!Go, Mail!Empty
<1>4. /\ S.validity \in Nat /\ S.next \in Nat /\ folder \in Folders /\ folder.validity \in Nat /\ folder.last \in Nat
      /\ folder.oldest \in Nat
  BY <1>2, MailBasics DEF MailInv, Servers, Folders
<1>5. /\ r \in Runs /\ r.cred = cred /\ r.validity = S.validity /\ r.next = S.next
      /\ r.pc = IF ~known THEN "renumbered" ELSE IF folder.oldest = 0 THEN "first" ELSE "new"
      /\ r.last = (IF known THEN folder.last ELSE 0) /\ r.oldest = (IF known THEN folder.oldest ELSE 0)
  <2>1. (IF known THEN folder.last ELSE 0) \in Nat /\ (IF known THEN folder.oldest ELSE 0) \in Nat
    BY <1>4
  <2>2. QED
    BY <1>2, <1>4, <2>1 DEF Runs
<1> HIDE DEF r
<1>6. folder.oldest # 0 => folder.validity # 0
  BY DEF MailInv, FolderInv
<1>7. CASE known
  <2>1. r.pc = "first" \/ r.pc = "new"
    BY <1>5, <1>7
  <2>2. r.pc = "new" => folder.oldest # 0 /\ folder.validity = S.validity /\ r.last = folder.last /\ r.oldest = folder.oldest
    BY <1>5, <1>6, <1>7
  <2>3. r.pc = "first" => folder.oldest = 0
    BY <1>5, <1>7
  <2>4. RunFact(r, folder, rows, S)
    BY <1>2, <1>4, <1>5, <2>1, <2>2, <2>3 DEF RunFact, Storing
  <2>5. mailFaults' = 0 => mailFaults = 0 /\ ~Storing(run[p], "saveFirst") /\ NumberFact(r, rows)
    <3>1. ~Storing(run[p], "saveFirst") /\ ~Storing(r, "saveFirst")
      BY <1>1, <2>1 DEF Storing
    <3>2. mailFaults = 0 /\ folder.oldest = 0 => NoneStored(rows)
      BY <1>1, <3>1, RunIs
    <3>3. QED
      BY <1>3, <2>1, <2>3, <3>1, <3>2 DEF NumberFact
  <2>6. state' \in SyncStates /\ state'.identity = state.identity /\ mailFaults' \in Nat /\ rows' = rows
    BY <1>3, <1>7 DEF MailInv, MailTypes
  <2>7. QED
    BY <1>1, <1>2, <1>3, <1>5, <2>1, <2>4, <2>5, <2>6, RunWalks
<1>8. CASE ~known
  <2>1. r.pc = "renumbered" /\ rows' = [u \in Mail!Uids |-> Mail!NoRow]
    BY <1>3, <1>5, <1>8
  <2>2. /\ rows' \in [Mail!Uids -> Rows \union {Mail!NoRow}] /\ Mail!Stored' = {} /\ IsFiniteSet(Mail!Stored')
        /\ NoneStored(rows') /\ \A v : StoredAs(v, rows')
    BY <2>1, NothingStored
  <2>3. RunFact(r, folder, rows', S)
    BY <1>2, <1>4, <1>5, <2>1 DEF RunFact, Storing
  <2>4. IdentityInv'
    BY <1>2, <1>3, <2>2 DEF IdentityInv
  <2>5. FolderInv'
    <3>1. FolderFact(folder, rows', S)
      BY <1>2, <1>8 DEF FolderFact
    <3>2. QED
      BY <1>3, <3>1 DEF MailInv, FolderInv
  <2>6. state' \in SyncStates /\ mailFaults' \in Nat /\ folder' \in Folders
    BY <1>3 DEF MailInv, MailTypes
  <2>7. NumberFact(r, rows')
    BY <2>2 DEF NumberFact
  <2>8. QED
    BY <1>1, <1>2, <1>3, <1>5, <2>1, <2>2, <2>3, <2>4, <2>5, <2>6, <2>7, RunActs
<1>9. QED
  BY <1>7, <1>8

LEMMA RenumberedKeeps == ASSUME MailInv, NEW p \in Mailers, Mail!Renumbered(p) PROVE MailInv'
<1> DEFINE S == server[cred.box]
           r == [run[p] EXCEPT !.pc = "first"]
<1>1. run[p].pc = "renumbered" /\ Under(run[p])
  BY DEF Mail!Renumbered, Mail!At, Under
<1>2. /\ run[p] \in Runs /\ run[p].cred = cred /\ state.leased /\ S \in Servers /\ RunFact(run[p], folder, rows, S)
      /\ state.identity = cred.box /\ FolderFact(folder, rows, S) /\ S.next >= 1
      /\ mailFaults = 0 => NoneStored(rows)
  <2>1. mailFaults = 0 => NumberFact(run[p], rows)
    BY <1>1, RunIs
  <2>2. QED
    BY <1>1, <2>1, RunIs DEF NumberFact
<1>3. folder.there
  BY <1>1, <1>2 DEF RunFact
<1>4. /\ folder' = [Mail!NoFolder EXCEPT !.validity = folder.validity, !.there = TRUE, !.synced = TRUE]
      /\ run' = [run EXCEPT ![p] = r] /\ UNCHANGED <<world, server, cred, patch, state, rows, mailFaults>>
  BY <1>3 DEF Mail!Renumbered, Mail!Go
<1>5. folder.validity \in Nat
  BY MailBasics DEF MailInv, Folders
<1>6. /\ folder' \in Folders /\ folder'.there /\ folder'.validity = folder.validity /\ folder'.last = 0
      /\ folder'.oldest = 0 /\ ~folder'.complete
  BY <1>4, <1>5 DEF Mail!NoFolder, Folders
<1>7. /\ r \in Runs /\ r.pc = "first" /\ r.cred = cred /\ r.validity = run[p].validity /\ r.next = run[p].next
  BY <1>2 DEF Runs
<1> HIDE DEF r
<1>8. /\ state' \in SyncStates /\ mailFaults' \in Nat /\ rows' \in [Mail!Uids -> Rows \union {Mail!NoRow}]
      /\ Mail!Stored' = Mail!Stored /\ IsFiniteSet(Mail!Stored')
  BY <1>4 DEF MailInv, MailTypes, Mail!Stored
<1>9. RunFact(r, folder', rows', S)
  <2>1. /\ run[p].validity >= 1 /\ run[p].validity <= S.validity /\ run[p].next >= 1
        /\ run[p].validity = S.validity => run[p].next <= S.next
    BY <1>1, <1>2 DEF RunFact
  <2>2. QED
    BY <1>6, <1>7, <2>1 DEF RunFact, Storing
<1>10. IdentityInv'
  BY <1>2, <1>4, <1>6, <1>8 DEF MailInv, IdentityInv
<1>11. FolderInv'
  <2>1. S.next \in Nat
    BY <1>2 DEF Servers
  <2>2. FolderFact(folder', rows', S)
    BY <1>2, <1>4, <1>6, <2>1 DEF FolderFact
  <2>3. QED
    BY <1>4, <1>6, <2>2 DEF FolderInv
<1>12. mailFaults' = 0 =>
         /\ folder'.oldest # 0 => StoredAs(folder'.validity, rows')
         /\ folder'.oldest = 0 => NoneStored(rows') \/ Storing(r, "saveFirst")
         /\ NumberFact(r, rows')
  BY <1>2, <1>4, <1>6, <1>7 DEF NumberFact, Storing
<1>13. QED
  BY <1>1, <1>2, <1>4, <1>6, <1>7, <1>8, <1>9, <1>10, <1>11, <1>12, RunActs

\* What a search finds is of uids there were.
LEMMA FoundIs ==
    ASSUME MailInv, NEW p \in Mailers, Under(run[p]), NEW D \in SUBSET {"new", "old"}
    PROVE  /\ server[cred.box].next - 1 \in Nat
           /\ Mail!Found(p, D) \subseteq 0 .. server[cred.box].next - 1
           /\ \A u : u \in Mail!Found(p, D) <=> u \in Mail!Uids /\ server[cred.box].date[u] \in D
           /\ \A u \in Mail!Found(p, D) : u >= 1
<1> DEFINE S == server[cred.box]
<1>1. /\ Mail!Box(p) = S /\ S \in Servers /\ S.next >= 1
      /\ \A u \in Mail!Uids : S.date[u] # "none" => u < S.next
  BY RunIs
<1>2. S.next \in Nat
  BY <1>1 DEF Servers
<1>3. \A u : u \in Mail!Found(p, D) <=> u \in Mail!Uids /\ S.date[u] \in D
  BY <1>1 DEF Mail!Found
<1>4. \A u \in Mail!Uids : u \in Nat /\ u >= 1
  BY MailAssumed DEF Mail!Assumption, Mail!Uids
<1>5. \A u \in Mail!Found(p, D) : u \in 0 .. S.next - 1
  BY <1>1, <1>2, <1>3, <1>4
<1>6. QED
  BY <1>1, <1>2, <1>3, <1>4, <1>5

-----------------------------------------------------------------------------
\* First sight: what it has yet to store is the newest there is, and it saves no more.
LEMMA FirstKeeps == ASSUME MailInv, NEW p \in Mailers, Mail!First(p) PROVE MailInv'
<1> DEFINE S == server[cred.box]
           k == S.next - 1
           newest == Mail!Newest(Chunk, Mail!Found(p, {"new"}))
           last == Mail!Max({run[p].next - 1} \union newest)
           oldest == IF newest = {} THEN last + 1 ELSE Mail!Min(newest)
           r == [run[p] EXCEPT !.pc = "store", !.then = "saveFirst", !.todo = newest, !.last = last, !.oldest = oldest]
<1>1. run[p].pc = "first" /\ Under(run[p])
  BY DEF Mail!First, Mail!At, Under
<1>2. /\ run[p] \in Runs /\ run[p].cred = cred /\ state.leased /\ Mail!Box(p) = S /\ S \in Servers
      /\ state.identity = cred.box /\ RunFact(run[p], folder, rows, S)
      /\ mailFaults = 0 => NumberFact(run[p], rows)
  BY <1>1, RunIs
<1>3. /\ run' = [run EXCEPT ![p] = r] /\ UNCHANGED <<world, server, cred, patch, state, folder, rows, mailFaults>>
      /\ run[p].validity = S.validity
  BY <1>2 DEF Mail!First, Mail!Go, Mail!Connected
<1>4. /\ folder.there /\ folder.oldest = 0 /\ run[p].validity >= 1 /\ run[p].validity <= S.validity
      /\ run[p].next >= 1 /\ run[p].next <= S.next /\ run[p].next \in Nat /\ S.next \in Nat
  BY <1>1, <1>2, <1>3 DEF RunFact, Servers, Runs
<1>5. /\ Mail!Found(p, {"new"}) \in SUBSET (0 .. k) /\ k \in Nat
      /\ \A u : u \in Mail!Found(p, {"new"}) <=> u \in Mail!Uids /\ S.date[u] = "new"
      /\ \A u \in Mail!Found(p, {"new"}) : u >= 1
  <2>1. {"new"} \in SUBSET {"new", "old"}
    OBVIOUS
  <2>2. QED
    BY <1>1, <2>1, FoundIs
<1>6. /\ newest \subseteq Mail!Found(p, {"new"})
      /\ \A x \in newest : \A y \in Mail!Found(p, {"new"}) : x <= y => y \in newest
      /\ Mail!Found(p, {"new"}) # {} => newest # {}
  <2>1. Chunk \in Nat /\ Chunk # 0
    BY MailCounts
  <2>2. QED
    BY <1>5, <2>1, NewestIs
<1> HIDE DEF newest
<1>7. last \in 0 .. k
  <2>1. {run[p].next - 1} \union newest \in SUBSET (0 .. k)
    <3>1. run[p].next - 1 \in 0 .. k
      BY <1>4
    <3>2. newest \in SUBSET (0 .. k)
      BY <1>5, <1>6
    <3>3. QED
      BY <3>1, <3>2
  <2>2. last \in {run[p].next - 1} \union newest
    BY <1>5, <2>1, GreatestIs
  <2>3. QED
    BY <2>1, <2>2
<1> HIDE DEF last
<1>8. /\ oldest \in Nat /\ oldest # 0
      /\ \A u \in Mail!Uids : oldest <= u /\ u <= last /\ S.date[u] = "new" => u \in newest
  <2>1. CASE newest = {}
    <3>1. last \in Nat /\ oldest = last + 1
      BY <1>7, <2>1
    <3>2. \A u \in Mail!Uids : u \in Nat
      BY MailCounts
    <3>3. QED
      BY <3>1, <3>2
  <2>2. CASE newest # {}
    <3>1. newest \in SUBSET Nat
      BY <1>5, <1>6
    <3>2. oldest \in newest
      BY <2>2, <3>1, LeastIs
    <3>3. PICK m \in newest : m = oldest
      BY <3>2
    <3>4. m >= 1 /\ m \in Nat
      BY <1>5, <1>6, <3>1
    <3> HIDE DEF oldest
    <3>5. ASSUME NEW u \in Mail!Uids, m <= u, S.date[u] = "new" PROVE u \in newest
      <4>1. u \in Mail!Found(p, {"new"})
        BY <1>5, <3>5
      <4>2. QED
        BY <1>6, <3>5, <4>1
    <3>6. QED
      BY <3>3, <3>4, <3>5
  <2>3. QED
    BY <2>1, <2>2
<1> HIDE DEF oldest, k
<1>9. /\ r \in Runs /\ r.pc = "store" /\ r.then = "saveFirst" /\ r.cred = cred /\ r.validity = run[p].validity
      /\ r.next = run[p].next /\ r.todo = newest /\ r.last = last /\ r.oldest = oldest
  <2>1. newest \in SUBSET Mail!Uids /\ last \in Nat
    BY <1>5, <1>6, <1>7
  <2>2. QED
    BY <1>2, <1>8, <2>1 DEF Runs
<1> HIDE DEF r
<1>10. last < S.next /\ \A u \in newest : u < S.next
  <2>1. \A u \in 0 .. k : u < S.next
    BY <1>4 DEF k
  <2>2. QED
    BY <1>5, <1>6, <1>7, <2>1
<1>11. RunFact(r, folder, rows, S)
  BY <1>3, <1>4, <1>8, <1>9, <1>10 DEF RunFact, Storing
<1>12. mailFaults' = 0 => mailFaults = 0 /\ ~Storing(run[p], "saveFirst") /\ NumberFact(r, rows)
  <2>1. mailFaults = 0 => NoneStored(rows)
    BY <1>1, <1>2 DEF NumberFact
  <2>2. NoneStored(rows) => StoredAs(r.validity, rows)
    BY DEF NoneStored, StoredAs
  <2>3. QED
    BY <1>1, <1>3, <1>9, <2>1, <2>2 DEF NumberFact, Storing
<1>13. state' \in SyncStates /\ state'.identity = state.identity /\ mailFaults' \in Nat
  BY <1>3 DEF MailInv, MailTypes
<1>14. QED
  BY <1>1, <1>2, <1>3, <1>9, <1>11, <1>12, <1>13, RunWalks

\* Mail since the last run: the oldest of it, or all.
LEMMA NewKeeps == ASSUME MailInv, NEW p \in Mailers, Mail!New(p) PROVE MailInv'
<1> DEFINE S == server[cred.box]
           k == S.next - 1
           since == {u \in Mail!Found(p, {"new", "old"}) : u > run[p].last}
           fresh == Mail!Oldest(Chunk, since)
           all == IF Cardinality(fresh) < Chunk THEN {run[p].next - 1} ELSE {}
           seen == {run[p].last} \union fresh \union all
           last == Mail!Max(seen)
           r == [run[p] EXCEPT !.pc = "store", !.then = "saveNew", !.todo = fresh, !.last = last]
           s == [run[p] EXCEPT !.pc = "expunge"]
<1>1. run[p].pc = "new" /\ Under(run[p])
  BY DEF Mail!New, Mail!At, Under
<1>2. /\ run[p] \in Runs /\ run[p].cred = cred /\ state.leased /\ Mail!Box(p) = S /\ S \in Servers
      /\ state.identity = cred.box /\ RunFact(run[p], folder, rows, S) /\ FolderFact(folder, rows, S)
  BY <1>1, RunIs
<1>3. /\ UNCHANGED <<world, server, cred, patch, state, folder, rows, mailFaults>>
      /\ run[p].validity = S.validity
      /\ run' = [run EXCEPT ![p] = r] \/ run' = [run EXCEPT ![p] = s]
  <2>1. all = IF Mail!Cardinality(fresh) < Chunk THEN {run[p].next - 1} ELSE {}
    BY MailCounts
  <2> HIDE DEF all
  <2>2. QED
    BY <1>2, <2>1 DEF Mail!New, Mail!Go, Mail!Connected
<1>4. /\ folder.there /\ folder.oldest # 0 /\ run[p].validity >= 1 /\ run[p].validity <= S.validity
      /\ run[p].next >= 1 /\ run[p].next <= S.next /\ run[p].next \in Nat /\ S.next \in Nat
      /\ folder.validity = run[p].validity /\ run[p].last = folder.last /\ run[p].oldest = folder.oldest
      /\ run[p].last \in Nat /\ run[p].oldest \in Nat
  BY <1>1, <1>2, <1>3 DEF RunFact, Servers, Runs
<1>5. folder.last < S.next
  BY <1>2, <1>3, <1>4 DEF FolderFact
<1>6. state' \in SyncStates /\ state'.identity = state.identity /\ mailFaults' \in Nat
  BY <1>3 DEF MailInv, MailTypes
<1>7. ~Storing(run[p], "saveFirst") /\ mailFaults' = mailFaults
  BY <1>1, <1>3 DEF Storing
<1>8. CASE run' = [run EXCEPT ![p] = s]
  <2>1. /\ s \in Runs /\ s.pc = "expunge" /\ s.cred = cred /\ s.validity = run[p].validity /\ s.next = run[p].next
        /\ s.last = run[p].last /\ s.oldest = run[p].oldest
    BY <1>2 DEF Runs
  <2> HIDE DEF s
  <2>2. RunFact(s, folder, rows, S) /\ NumberFact(s, rows)
    BY <1>3, <1>4, <2>1 DEF RunFact, NumberFact, Storing
  <2>3. QED
    BY <1>1, <1>2, <1>3, <1>6, <1>7, <1>8, <2>1, <2>2, RunWalks
<1>9. CASE run' = [run EXCEPT ![p] = r]
  <2>1. /\ since \in SUBSET (0 .. k) /\ k \in Nat /\ since \subseteq Mail!Uids
        /\ \A u \in Mail!Uids : u > run[p].last /\ S.date[u] # "none" => u \in since
    <3>1. {"new", "old"} \in SUBSET {"new", "old"}
      OBVIOUS
    <3>2. /\ Mail!Found(p, {"new", "old"}) \subseteq 0 .. k /\ k \in Nat
          /\ \A u : u \in Mail!Found(p, {"new", "old"}) <=> u \in Mail!Uids /\ S.date[u] \in {"new", "old"}
      BY <1>1, <3>1, FoundIs
    <3>3. \A u \in Mail!Uids : S.date[u] # "none" => S.date[u] \in {"new", "old"}
      BY <1>2 DEF Servers, Dates
    <3>4. QED
      BY <3>2, <3>3
  <2>2. /\ fresh \subseteq since
        /\ \A x \in fresh : \A y \in since : y <= x => y \in fresh
        /\ Cardinality(fresh) < Chunk => fresh = since
    <3>1. Chunk \in Nat
      BY MailCounts
    <3> HIDE DEF since, k
    <3>2. QED
      BY <2>1, <3>1, OldestIs
  <2> HIDE DEF since, fresh
  <2>3. seen \in SUBSET (0 .. k) /\ seen # {}
    <3>1. run[p].last \in 0 .. k /\ run[p].next - 1 \in 0 .. k
      BY <1>4, <1>5, <2>1
    <3>2. fresh \subseteq 0 .. k
      BY <2>1, <2>2
    <3>3. QED
      BY <3>1, <3>2
  <2>4. last \in seen /\ last \in 0 .. k
    <3> HIDE DEF seen, k
    <3>1. last \in seen
      BY <2>1, <2>3, GreatestIs
    <3>2. QED
      BY <2>3, <3>1
  <2>5. last \in Nat /\ last < S.next /\ \A u \in fresh : u < S.next
    <3>1. \A u \in 0 .. k : u < S.next /\ u \in Nat
      BY <1>4
    <3>2. \A u \in fresh : u \in 0 .. k
      BY <2>1, <2>2
    <3> HIDE DEF k
    <3>3. QED
      BY <2>4, <3>1, <3>2
  <2> HIDE DEF last
  <2>6. ASSUME NEW u \in Mail!Uids, folder.last < u, u <= last, S.date[u] # "none" PROVE u \in fresh
    <3>1. u \in since /\ u \in Nat
      BY <1>4, <2>1, <2>6, MailCounts
    <3>2. CASE Cardinality(fresh) < Chunk
      BY <2>2, <3>1, <3>2
    <3>3. CASE ~(Cardinality(fresh) < Chunk)
      <4>1. last = run[p].last \/ last \in fresh
        BY <2>4, <3>3
      <4>2. last # run[p].last
        BY <1>4, <2>5, <2>6, <3>1
      <4>3. QED
        BY <2>2, <2>6, <3>1, <4>1, <4>2
    <3>4. QED
      BY <3>2, <3>3
  <2>7. /\ r \in Runs /\ r.pc = "store" /\ r.then = "saveNew" /\ r.cred = cred /\ r.validity = run[p].validity
        /\ r.next = run[p].next /\ r.todo = fresh /\ r.last = last /\ r.oldest = run[p].oldest
    <3>1. fresh \in SUBSET Mail!Uids
      BY <2>1, <2>2
    <3>2. QED
      BY <1>2, <2>5, <3>1 DEF Runs
  <2> HIDE DEF r
  <2>8. RunFact(r, folder, rows, S)
    BY <1>3, <1>4, <2>5, <2>6, <2>7 DEF RunFact, Storing
  <2>9. NumberFact(r, rows)
    BY <2>7 DEF NumberFact, Storing
  <2>10. QED
    BY <1>1, <1>2, <1>3, <1>6, <1>7, <1>9, <2>7, <2>8, <2>9, RunWalks
<1>10. QED
  BY <1>3, <1>8, <1>9

\* A message is stored, if it is still there.
LEMMA StoreKeeps == ASSUME MailInv, NEW p \in Mailers, Mail!Store(p) PROVE MailInv'
<1> DEFINE S == server[cred.box]
           u == IF run[p].then = "saveNew" THEN Mail!Min(run[p].todo) ELSE Mail!Max(run[p].todo)
           row == [box |-> cred.box, validity |-> run[p].validity]
           r == [run[p] EXCEPT !.todo = @ \ {u}]
<1>1. run[p].pc = "store" /\ Under(run[p]) /\ run[p].todo # {}
  BY DEF Mail!Store, Mail!At, Under
<1>2. /\ run[p] \in Runs /\ run[p].cred = cred /\ state.leased /\ Mail!Box(p) = S /\ S \in Servers
      /\ state.identity = cred.box /\ RunFact(run[p], folder, rows, S) /\ FolderFact(folder, rows, S)
      /\ S.next >= 1
  BY <1>1, RunIs
<1>3. run[p].validity = S.validity
  BY <1>2 DEF Mail!Store, Mail!Connected
<1>4. /\ folder.there /\ run[p].validity >= 1 /\ run[p].validity <= S.validity
      /\ run[p].next >= 1 /\ run[p].next <= S.next /\ run[p].then # "" /\ run[p].oldest # 0
  BY <1>1, <1>2, <1>3 DEF RunFact
<1>5. /\ run[p].then \in {"saveFirst", "saveNew", "saveOld"} /\ run[p].todo \subseteq Mail!Uids
      /\ S.next \in Nat /\ S.validity \in Nat
  BY <1>2, <1>4 DEF Runs, Servers
<1>6. \A x \in run[p].todo : x < S.next /\ x \in Nat
  BY <1>1, <1>2, <1>3, <1>5, MailCounts DEF RunFact
<1>7. u \in run[p].todo
  <2>1. run[p].todo \in SUBSET (0 .. S.next - 1) /\ S.next - 1 \in Nat /\ run[p].todo \in SUBSET Nat
    BY <1>2, <1>5, <1>6
  <2>2. Mail!Min(run[p].todo) \in run[p].todo
    BY <1>1, <2>1, LeastIs
  <2>3. Mail!Max(run[p].todo) \in run[p].todo
    BY <1>1, <2>1, GreatestIs
  <2>4. QED
    BY <2>2, <2>3
<1> HIDE DEF S
<1>8. /\ rows' = IF S.date[u] # "none" THEN [rows EXCEPT ![u] = row] ELSE rows
      /\ run' = [run EXCEPT ![p] = r]
      /\ UNCHANGED <<world, server, cred, patch, state, folder, mailFaults>>
  <2>1. /\ rows' = IF Mail!Box(p).date[u] # "none" /\ folder.there
                   THEN [rows EXCEPT ![u] = [box |-> run[p].cred.box, validity |-> run[p].validity]] ELSE rows
        /\ run' = [run EXCEPT ![p] = IF Mail!Box(p).date[u] # "none" /\ ~folder.there THEN [run[p] EXCEPT !.pc = "end"]
                                     ELSE [run[p] EXCEPT !.todo = @ \ {u}]]
        /\ UNCHANGED <<world, server, cred, patch, state, folder, mailFaults>>
    BY DEF Mail!Store, Mail!Go
  <2> HIDE DEF u
  <2>2. QED
    BY <1>2, <1>4, <2>1
<1> HIDE DEF u
<1>9. PICK m \in run[p].todo : m = u
  BY <1>7
<1>10. /\ r \in Runs /\ r.pc = "store" /\ r.then = run[p].then /\ r.cred = cred /\ r.validity = run[p].validity
       /\ r.next = run[p].next /\ r.todo = run[p].todo \ {m} /\ r.last = run[p].last /\ r.oldest = run[p].oldest
  BY <1>1, <1>2, <1>9 DEF Runs
<1> HIDE DEF r
<1>11. /\ row \in Rows /\ row # Mail!NoRow /\ row.box = cred.box /\ row.validity = run[p].validity /\ m \in Mail!Uids
  <2>1. cred.box \in Mail!Boxes /\ run[p].validity \in Nat
    BY <1>3, <1>5, MailBasics DEF MailInv
  <2>2. Mail!NoRow.validity = 0
    BY DEF Mail!NoRow
  <2>3. row.validity = run[p].validity /\ row.box = cred.box
    OBVIOUS
  <2>4. row \in Rows
    BY <2>1 DEF Rows
  <2> HIDE DEF row
  <2>5. row # Mail!NoRow
    <3>1. run[p].validity >= 1 /\ run[p].validity \in Nat
      BY <1>4, <2>1
    <3>2. run[p].validity # 0
      BY <3>1
    <3>3. QED
      BY <2>2, <2>3, <3>2
  <2>6. QED
    BY <1>5, <1>9, <2>3, <2>4, <2>5
<1> HIDE DEF row
<1>12. /\ rows' \in [Mail!Uids -> Rows \union {Mail!NoRow}]
       /\ \A x \in Mail!Uids : rows'[x] = IF x = m /\ S.date[m] # "none" THEN row ELSE rows[x]
  <2>1. rows \in [Mail!Uids -> Rows \union {Mail!NoRow}]
    BY DEF MailInv, MailTypes
  <2>2. QED
    BY <1>8, <1>9, <1>11, <2>1
<1>13. /\ \A x \in Mail!Uids : Missing(x, rows') => Missing(x, rows)
       /\ S.date[m] # "none" => ~Missing(m, rows')
       /\ \A x \in Mail!Uids : ~Missing(x, rows') => ~Missing(x, rows) \/ rows'[x] = row
  BY <1>11, <1>12 DEF Missing
<1>14. IsFiniteSet(Mail!Stored')
  <2>1. Mail!Stored' \subseteq Mail!Stored \union {m}
    BY <1>12 DEF Mail!Stored
  <2>2. IsFiniteSet(Mail!Stored \union {m})
    BY FS_AddElement DEF MailInv, MailTypes
  <2>3. QED
    BY <2>1, <2>2, FS_Subset
<1>15. IdentityInv'
  <2>1. \A x \in Mail!Stored' : rows'[x].box = state.identity
    BY <1>2, <1>11, <1>12 DEF MailInv, IdentityInv, Mail!Stored
  <2>2. QED
    BY <1>2, <1>4, <1>8, <2>1 DEF IdentityInv
<1>16. FolderInv'
  <2>1. FolderFact(folder, rows', S)
    BY <1>2, <1>13 DEF FolderFact
  <2>2. QED
    BY <1>8, <2>1 DEF MailInv, FolderInv, S
<1>17. RunFact(r, folder, rows', S)
  <2>1. \A x \in Mail!Uids : S.date[x] # "none" /\ (~Missing(x, rows) \/ x \in run[p].todo)
                              => ~Missing(x, rows') \/ x \in r.todo
    BY <1>10, <1>13
  <2>2. /\ Storing(r, "saveFirst") <=> Storing(run[p], "saveFirst")
        /\ Storing(r, "saveNew") <=> Storing(run[p], "saveNew")
        /\ Storing(r, "saveOld") <=> Storing(run[p], "saveOld")
    BY <1>1, <1>10 DEF Storing
  <2>3. \A x \in Mail!Uids : S.date[x] = "new" => S.date[x] # "none"
    OBVIOUS
  <2>4. \A x \in r.todo : x < S.next
    BY <1>6, <1>10
  <2>5. Storing(r, "saveFirst") =>
          /\ folder.oldest = 0 /\ r.last < S.next
          /\ \A x \in Mail!Uids :
              r.oldest <= x /\ x <= r.last /\ S.date[x] = "new" => ~Missing(x, rows') \/ x \in r.todo
    BY <1>2, <1>3, <1>10, <2>1, <2>2, <2>3 DEF RunFact
  <2>6. Storing(r, "saveNew") =>
          /\ folder.validity = r.validity /\ folder.oldest # 0 /\ r.oldest = folder.oldest /\ r.last < S.next
          /\ \A x \in Mail!Uids :
              folder.last < x /\ x <= r.last /\ S.date[x] # "none" => ~Missing(x, rows') \/ x \in r.todo
    BY <1>2, <1>3, <1>10, <2>1, <2>2 DEF RunFact
  <2>7. Storing(r, "saveOld") =>
          /\ folder.validity = r.validity /\ folder.oldest # 0 /\ folder.last < S.next
          /\ \A x \in Mail!Uids :
              r.oldest <= x /\ x <= folder.last /\ S.date[x] = "new" => ~Missing(x, rows') \/ x \in r.todo
    BY <1>2, <1>3, <1>10, <2>1, <2>2, <2>3 DEF RunFact
  <2>8. QED
    BY <1>3, <1>4, <1>10, <2>4, <2>5, <2>6, <2>7 DEF RunFact
<1>18. mailFaults' = 0 =>
         /\ folder'.oldest # 0 => StoredAs(folder'.validity, rows')
         /\ folder'.oldest = 0 => NoneStored(rows') \/ Storing(r, "saveFirst")
         /\ NumberFact(r, rows')
  <2>1. SUFFICES ASSUME mailFaults = 0
                 PROVE  /\ folder.oldest # 0 => StoredAs(folder.validity, rows')
                        /\ folder.oldest = 0 => Storing(r, "saveFirst")
                        /\ NumberFact(r, rows')
    BY <1>8
  <2>2. /\ folder.oldest # 0 => StoredAs(folder.validity, rows)
        /\ Storing(run[p], "saveFirst") => StoredAs(run[p].validity, rows)
    BY <1>1, <2>1, RunIs DEF NumberFact
  <2>3. \A v : StoredAs(v, rows) /\ v = run[p].validity => StoredAs(v, rows')
    BY <1>11, <1>12 DEF StoredAs, Missing
  <2>4. /\ run[p].then = "saveFirst" => folder.oldest = 0
        /\ run[p].then # "saveFirst" => folder.oldest # 0 /\ folder.validity = run[p].validity
    BY <1>1, <1>2, <1>5 DEF RunFact, Storing
  <2>5. NumberFact(r, rows')
    BY <1>1, <1>10, <2>2, <2>3 DEF NumberFact, Storing
  <2>6. QED
    BY <1>1, <1>10, <2>2, <2>3, <2>4, <2>5 DEF Storing
<1>19. /\ state' \in SyncStates /\ mailFaults' \in Nat /\ folder' \in Folders
  BY <1>8 DEF MailInv, MailTypes
<1>20. QED
  BY <1>1, <1>2, <1>8, <1>10, <1>12, <1>14, <1>15, <1>16, <1>17, <1>18, <1>19, RunActs DEF S

\* How far it came is saved once all is stored.
LEMMA SaveKeeps == ASSUME MailInv, NEW p \in Mailers, Mail!Save(p) PROVE MailInv'
<1> DEFINE S == server[cred.box]
           f == [folder EXCEPT !.validity = run[p].validity, !.last = run[p].last, !.oldest = run[p].oldest]
           g == [folder EXCEPT !.validity = run[p].validity, !.last = run[p].last]
           h == [folder EXCEPT !.oldest = run[p].oldest]
           r == [run[p] EXCEPT !.pc = IF run[p].then = "saveOld" THEN "end" ELSE "expunge"]
<1>1. run[p].pc = "store" /\ Under(run[p]) /\ run[p].todo = {}
  BY DEF Mail!Save, Mail!At, Under
<1>2. /\ run[p] \in Runs /\ run[p].cred = cred /\ state.leased /\ S \in Servers
      /\ state.identity = cred.box /\ RunFact(run[p], folder, rows, S) /\ FolderFact(folder, rows, S)
      /\ folder \in Folders
  BY <1>1, RunIs, MailBasics DEF MailInv
<1>3. /\ folder.there /\ run[p].validity >= 1 /\ run[p].validity <= S.validity /\ run[p].next >= 1
      /\ run[p].validity = S.validity => run[p].next <= S.next
      /\ run[p].oldest # 0 /\ run[p].then # ""
  BY <1>1, <1>2 DEF RunFact
<1>4. run[p].then \in {"saveFirst", "saveNew", "saveOld"}
  BY <1>2, <1>3 DEF Runs
<1>5. /\ run' = [run EXCEPT ![p] = r]
      /\ folder' = (IF run[p].then = "saveFirst" THEN f ELSE IF run[p].then = "saveNew" THEN g ELSE h)
      /\ UNCHANGED <<world, server, cred, patch, state, rows, mailFaults>>
  BY <1>1, <1>3, <1>4 DEF Mail!Save, Mail!Go
<1>6. /\ r \in Runs /\ r.pc = (IF run[p].then = "saveOld" THEN "end" ELSE "expunge") /\ r.cred = cred
      /\ r.validity = run[p].validity /\ r.next = run[p].next /\ r.last = run[p].last /\ r.oldest = run[p].oldest
  BY <1>1, <1>2 DEF Runs
<1>7. /\ folder' \in Folders /\ folder'.there /\ folder'.complete = folder.complete /\ folder'.stopped = folder.stopped
      /\ folder'.validity = (IF run[p].then = "saveOld" THEN folder.validity ELSE run[p].validity)
      /\ folder'.last = (IF run[p].then = "saveOld" THEN folder.last ELSE run[p].last)
      /\ folder'.oldest = (IF run[p].then = "saveNew" THEN folder.oldest ELSE run[p].oldest)
  <2>1. /\ run[p].validity \in Nat /\ run[p].last \in Nat /\ run[p].oldest \in Nat
    BY <1>2 DEF Runs
  <2>2. /\ f \in Folders /\ f.there /\ f.complete = folder.complete /\ f.stopped = folder.stopped
        /\ f.validity = run[p].validity /\ f.last = run[p].last /\ f.oldest = run[p].oldest
    BY <1>2, <1>3, <2>1 DEF Folders
  <2>3. /\ g \in Folders /\ g.there /\ g.complete = folder.complete /\ g.stopped = folder.stopped
        /\ g.validity = run[p].validity /\ g.last = run[p].last /\ g.oldest = folder.oldest
    BY <1>2, <1>3, <2>1 DEF Folders
  <2>4. /\ h \in Folders /\ h.there /\ h.complete = folder.complete /\ h.stopped = folder.stopped
        /\ h.validity = folder.validity /\ h.last = folder.last /\ h.oldest = run[p].oldest
    BY <1>2, <1>3, <2>1 DEF Folders
  <2> HIDE DEF f, g, h
  <2>5. QED
    BY <1>4, <1>5, <2>2, <2>3, <2>4
<1> HIDE DEF f, g, h, r, S
<1>8. /\ run[p].then = "saveFirst" => folder.oldest = 0
      /\ run[p].then \in {"saveNew", "saveOld"} => folder.validity = run[p].validity /\ folder.oldest # 0
      /\ run[p].then = "saveNew" => run[p].oldest = folder.oldest
  BY <1>1, <1>2 DEF RunFact, Storing
<1>9. folder'.oldest # 0 /\ folder'.validity = run[p].validity /\ folder'.oldest = run[p].oldest
  BY <1>3, <1>4, <1>7, <1>8
<1>10. FolderFact(folder', rows, S)
  <2>1. folder'.validity <= S.validity
    BY <1>3, <1>9
  <2>2. SUFFICES ASSUME run[p].validity = S.validity
                 PROVE  /\ folder'.last < S.next
                        /\ \A u \in Mail!Uids :
                             folder'.oldest <= u /\ u <= folder'.last /\ S.date[u] = "new" => ~Missing(u, rows)
                        /\ folder'.complete =>
                             \A u \in Mail!Uids : u <= folder'.last /\ S.date[u] # "none" => ~Missing(u, rows)
    BY <1>9, <2>1 DEF FolderFact
  <2>3. CASE run[p].then = "saveFirst"
    <3>1. ~folder.complete
      BY <1>8, <2>3 DEF MailInv, FolderInv
    <3>2. run[p].last < S.next /\ \A u \in Mail!Uids :
             run[p].oldest <= u /\ u <= run[p].last /\ S.date[u] = "new" => ~Missing(u, rows)
      BY <1>1, <1>2, <2>2, <2>3 DEF RunFact, Storing
    <3>3. QED
      BY <1>7, <2>3, <3>1, <3>2
  <2>4. CASE run[p].then = "saveNew"
    <3>1. run[p].last < S.next /\ \A u \in Mail!Uids :
             folder.last < u /\ u <= run[p].last /\ S.date[u] # "none" => ~Missing(u, rows)
      BY <1>1, <1>2, <2>2, <2>4 DEF RunFact, Storing
    <3>2. /\ \A u \in Mail!Uids : folder.oldest <= u /\ u <= folder.last /\ S.date[u] = "new" => ~Missing(u, rows)
          /\ folder.complete => \A u \in Mail!Uids : u <= folder.last /\ S.date[u] # "none" => ~Missing(u, rows)
      BY <1>2, <1>8, <2>2, <2>4 DEF FolderFact
    <3>3. \A u \in Mail!Uids : u <= folder.last \/ folder.last < u
      <4>1. folder.last \in Nat /\ Mail!Uids \subseteq Nat
        BY <1>2, MailCounts DEF Folders
      <4>2. QED
        BY <4>1
    <3>4. \A u \in Mail!Uids : S.date[u] = "new" => S.date[u] # "none"
      OBVIOUS
    <3>5. folder'.last = run[p].last /\ folder'.oldest = folder.oldest /\ folder'.complete = folder.complete
      BY <1>7, <2>4
    <3>6. QED
      BY <3>1, <3>2, <3>3, <3>4, <3>5
  <2>5. CASE run[p].then = "saveOld"
    <3>1. folder.last < S.next /\ \A u \in Mail!Uids :
             run[p].oldest <= u /\ u <= folder.last /\ S.date[u] = "new" => ~Missing(u, rows)
      BY <1>1, <1>2, <2>2, <2>5 DEF RunFact, Storing
    <3>2. folder.complete => \A u \in Mail!Uids : u <= folder.last /\ S.date[u] # "none" => ~Missing(u, rows)
      BY <1>2, <1>8, <2>2, <2>5 DEF FolderFact
    <3>3. folder'.last = folder.last /\ folder'.oldest = run[p].oldest /\ folder'.complete = folder.complete
      BY <1>7, <2>5
    <3>4. QED
      BY <3>1, <3>2, <3>3
  <2>6. QED
    BY <1>4, <2>3, <2>4, <2>5
<1>11. Mail!Stored' = Mail!Stored /\ IsFiniteSet(Mail!Stored') /\ rows' \in [Mail!Uids -> Rows \union {Mail!NoRow}]
       /\ state' \in SyncStates /\ mailFaults' \in Nat
  BY <1>5 DEF MailInv, MailTypes, Mail!Stored
<1>12. IdentityInv'
  BY <1>2, <1>5, <1>7, <1>11 DEF MailInv, IdentityInv
<1>13. FolderInv'
  <2>1. run[p].validity # 0
    <3>1. run[p].validity >= 1 /\ run[p].validity \in Nat
      BY <1>2, <1>3 DEF Runs
    <3>2. QED
      BY <3>1
  <2>2. folder'.complete => folder'.stopped = ""
    BY <1>7 DEF MailInv, FolderInv
  <2>3. QED
    BY <1>5, <1>9, <1>10, <2>1, <2>2 DEF FolderInv, S
<1>14. RunFact(r, folder', rows', S)
  <2>1. r.pc = "end" \/ r.pc = "expunge"
    BY <1>6
  <2>2. r.pc = "expunge" => r.last = folder'.last
    BY <1>4, <1>6, <1>7
  <2>3. QED
    BY <1>3, <1>6, <1>7, <1>9, <2>1, <2>2 DEF RunFact, Storing
<1>15. mailFaults' = 0 =>
         /\ folder'.oldest # 0 => StoredAs(folder'.validity, rows')
         /\ folder'.oldest = 0 => NoneStored(rows') \/ Storing(r, "saveFirst")
         /\ NumberFact(r, rows')
  <2>1. SUFFICES ASSUME mailFaults = 0 PROVE StoredAs(run[p].validity, rows) /\ NumberFact(r, rows)
    BY <1>5, <1>9
  <2>2. /\ folder.oldest # 0 => StoredAs(folder.validity, rows)
        /\ run[p].then = "saveFirst" => StoredAs(run[p].validity, rows)
    BY <1>1, <2>1, RunIs DEF NumberFact, Storing
  <2>3. NumberFact(r, rows)
    BY <1>6 DEF NumberFact, Storing
  <2>4. QED
    BY <1>4, <1>8, <2>2, <2>3
<1>16. QED
  BY <1>1, <1>2, <1>5, <1>6, <1>7, <1>11, <1>12, <1>13, <1>14, <1>15, RunActs DEF S

\* What is no longer there is forgotten.
LEMMA ExpungeRowsKeeps ==
    ASSUME MailInv, NEW p \in Mailers, NEW due \in BOOLEAN, Mail!ExpungeRows(p, due) PROVE MailInv'
<1> DEFINE S == server[cred.box]
           present == Mail!Found(p, {"new", "old"})
           r == [run[p] EXCEPT !.pc = "backfill"]
<1>1. run[p].pc = "expunge" /\ Under(run[p])
  BY DEF Mail!ExpungeRows, Mail!At, Under
<1>2. /\ run[p] \in Runs /\ run[p].cred = cred /\ state.leased /\ Mail!Box(p) = S /\ S \in Servers
      /\ state.identity = cred.box /\ RunFact(run[p], folder, rows, S) /\ FolderFact(folder, rows, S)
  BY <1>1, RunIs
<1>3. /\ rows' = IF due THEN [u \in Mail!Uids |-> IF u \in present THEN rows[u] ELSE Mail!NoRow] ELSE rows
      /\ run' = [run EXCEPT ![p] = r]
      /\ UNCHANGED <<world, server, cred, patch, state, folder, mailFaults>>
  BY DEF Mail!ExpungeRows, Mail!Go
<1>4. \A u \in Mail!Uids : S.date[u] # "none" => u \in present
  <2>1. {"new", "old"} \in SUBSET {"new", "old"}
    OBVIOUS
  <2>2. \A u \in Mail!Uids : S.date[u] \in {"new", "old"} => u \in present
    BY <1>1, <2>1, FoundIs
  <2>3. QED
    BY <1>2, <2>2 DEF Servers, Dates
<1>5. rows \in [Mail!Uids -> Rows \union {Mail!NoRow}] /\ folder \in Folders
  BY DEF MailInv, MailTypes
<1> HIDE DEF present
<1>6. /\ rows' \in [Mail!Uids -> Rows \union {Mail!NoRow}]
      /\ \A u \in Mail!Uids : rows'[u] = rows[u] \/ (rows'[u] = Mail!NoRow /\ u \notin present)
  <2>1. CASE ~due
    BY <1>3, <1>5, <2>1
  <2>2. CASE due
    BY <1>3, <1>5, <2>2
  <2>3. QED
    BY <2>1, <2>2
<1>7. /\ \A u \in Mail!Uids : S.date[u] # "none" /\ ~Missing(u, rows) => ~Missing(u, rows')
      /\ \A u \in Mail!Uids : ~Missing(u, rows') => ~Missing(u, rows) /\ rows'[u] = rows[u]
  BY <1>4, <1>6 DEF Missing
<1>8. /\ r \in Runs /\ r.pc = "backfill" /\ r.cred = cred /\ r.validity = run[p].validity /\ r.next = run[p].next
      /\ r.last = run[p].last /\ r.oldest = run[p].oldest
  BY <1>2 DEF Runs
<1> HIDE DEF r, S
<1>9. Mail!Stored' \subseteq Mail!Stored /\ IsFiniteSet(Mail!Stored')
  <2>1. Mail!Stored' \subseteq Mail!Stored
    BY <1>7 DEF Mail!Stored, Missing
  <2>2. QED
    BY <2>1, FS_Subset DEF MailInv, MailTypes
<1>10. folder.there
  BY <1>1, <1>2 DEF RunFact
<1>11. IdentityInv'
  <2>1. \A u \in Mail!Stored' : rows'[u].box = state.identity
    BY <1>7 DEF MailInv, IdentityInv, Mail!Stored, Missing
  <2>2. QED
    BY <1>2, <1>3, <1>10, <2>1 DEF IdentityInv
<1>12. FolderInv'
  <2>1. FolderFact(folder, rows', S)
    <3>1. \A u \in Mail!Uids : S.date[u] = "new" => S.date[u] # "none"
      OBVIOUS
    <3>2. QED
      BY <1>2, <1>7, <3>1 DEF FolderFact
  <2>2. QED
    BY <1>3, <2>1 DEF MailInv, FolderInv, S
<1>13. RunFact(r, folder, rows', S)
  BY <1>1, <1>2, <1>8 DEF RunFact, Storing
<1>14. mailFaults' = 0 =>
         /\ folder'.oldest # 0 => StoredAs(folder'.validity, rows')
         /\ folder'.oldest = 0 => NoneStored(rows') \/ Storing(r, "saveFirst")
         /\ NumberFact(r, rows')
  <2>1. mailFaults = 0 /\ folder.oldest # 0 => StoredAs(folder.validity, rows)
    BY <1>1, RunIs
  <2>2. \A v : StoredAs(v, rows) => StoredAs(v, rows')
    BY <1>7 DEF StoredAs
  <2>3. folder.oldest # 0
    BY <1>1, <1>2 DEF RunFact
  <2>4. NumberFact(r, rows')
    BY <1>8 DEF NumberFact, Storing
  <2>5. QED
    BY <1>3, <2>1, <2>2, <2>3, <2>4
<1>15. state' \in SyncStates /\ mailFaults' \in Nat /\ folder' \in Folders
  BY <1>3 DEF MailInv, MailTypes
<1>16. QED
  BY <1>1, <1>2, <1>3, <1>6, <1>8, <1>9, <1>11, <1>12, <1>13, <1>14, <1>15, RunActs DEF S

\* The run ends with what the folder is said to be.
LEMMA EndsKeeps ==
    ASSUME MailInv, NEW p \in Mailers, run[p].pc = "backfill", NEW complete \in BOOLEAN, NEW stopped \in {"", "days", "count"},
           Mail!Ends(p, [complete |-> complete, stopped |-> stopped]),
           UNCHANGED <<world, server, cred, patch, state, rows, mailFaults>>,
           complete => /\ stopped = ""
                       /\ folder.validity = server[cred.box].validity =>
                            \A u \in Mail!Uids : u <= folder.last /\ server[cred.box].date[u] # "none" => ~Missing(u, rows)
    PROVE  MailInv'
<1> DEFINE S == server[cred.box]
           r == [run[p] EXCEPT !.pc = "end"]
           f == [folder EXCEPT !.complete = complete, !.stopped = stopped]
<1>1. Under(run[p])
  BY DEF Under
<1>2. /\ run[p] \in Runs /\ run[p].cred = cred /\ state.leased /\ S \in Servers
      /\ state.identity = cred.box /\ RunFact(run[p], folder, rows, S) /\ FolderFact(folder, rows, S)
  BY <1>1, RunIs
<1>3. folder.there /\ folder.oldest # 0
  BY <1>2 DEF RunFact
<1>4. folder' = f /\ run' = [run EXCEPT ![p] = r]
  BY <1>3 DEF Mail!Ends, Mail!Go
<1>5. r \in Runs /\ r.pc = "end" /\ r.cred = cred
  BY <1>2 DEF Runs
<1>6. /\ folder' \in Folders /\ folder'.validity = folder.validity /\ folder'.last = folder.last
      /\ folder'.oldest = folder.oldest /\ folder'.there /\ folder'.complete = complete /\ folder'.stopped = stopped
  BY <1>3, <1>4, MailBasics DEF MailInv, Folders
<1> HIDE DEF r, f, S
<1>7. Mail!Stored' = Mail!Stored /\ IsFiniteSet(Mail!Stored') /\ rows' \in [Mail!Uids -> Rows \union {Mail!NoRow}]
      /\ state' \in SyncStates /\ mailFaults' \in Nat
  BY DEF MailInv, MailTypes, Mail!Stored
<1>8. IdentityInv'
  BY <1>2, <1>6, <1>7 DEF MailInv, IdentityInv
<1>9. FolderInv'
  <2>1. FolderFact(folder', rows, S)
    BY <1>2, <1>6 DEF FolderFact, S
  <2>2. QED
    BY <1>3, <1>6, <2>1 DEF MailInv, FolderInv, S
<1>10. RunFact(r, folder', rows', S)
  BY <1>5, <1>6 DEF RunFact, Storing
<1>11. mailFaults' = 0 =>
         /\ folder'.oldest # 0 => StoredAs(folder'.validity, rows')
         /\ folder'.oldest = 0 => NoneStored(rows') \/ Storing(r, "saveFirst")
         /\ NumberFact(r, rows')
  <2>1. mailFaults = 0 => StoredAs(folder.validity, rows)
    BY <1>1, <1>3, RunIs
  <2>2. NumberFact(r, rows)
    BY <1>5 DEF NumberFact, Storing
  <2>3. QED
    BY <1>3, <1>6, <2>1, <2>2
<1>12. QED
  BY <1>1, <1>2, <1>4, <1>5, <1>6, <1>7, <1>8, <1>9, <1>10, <1>11, RunActs DEF S

\* Older mail, the newest of it first.
LEMMA BackfillKeeps == ASSUME MailInv, NEW p \in Mailers, Mail!Backfill(p) PROVE MailInv'
<1> DEFINE S == server[cred.box]
           k == S.next - 1
           new == Mail!Found(p, {"new"})
           older == {u \in new : u < run[p].oldest}
           room == IF Limit > Cardinality(Mail!Stored) THEN Limit - Cardinality(Mail!Stored) ELSE 0
           n == IF Chunk < room THEN Chunk ELSE room
           chunk == Mail!Newest(n, older)
           r == [run[p] EXCEPT !.pc = "store", !.then = "saveOld", !.todo = chunk, !.oldest = Mail!Min(chunk)]
<1>1. run[p].pc = "backfill" /\ Under(run[p])
  BY DEF Mail!Backfill, Mail!At, Under
<1>2. /\ run[p] \in Runs /\ run[p].cred = cred /\ state.leased /\ Mail!Box(p) = S /\ S \in Servers
      /\ state.identity = cred.box /\ RunFact(run[p], folder, rows, S) /\ FolderFact(folder, rows, S)
  BY <1>1, RunIs
<1>3. /\ UNCHANGED <<world, server, cred, patch, state, rows, mailFaults>> /\ run[p].validity = S.validity
      /\ IF run[p].oldest <= 1 \/ older = {} THEN Mail!Ends(p, Mail!Finished(p))
         ELSE IF room = 0 THEN Mail!Ends(p, [complete |-> FALSE, stopped |-> "count"])
         ELSE run' = [run EXCEPT ![p] = r] /\ UNCHANGED folder
  <2>1. room = IF Limit > Mail!Cardinality(Mail!Stored) THEN Limit - Mail!Cardinality(Mail!Stored) ELSE 0
    BY MailCounts
  <2> HIDE DEF room
  <2>2. QED
    BY <1>2, <2>1 DEF Mail!Backfill, Mail!Go, Mail!Connected
<1>4. /\ folder.there /\ folder.oldest # 0 /\ run[p].validity >= 1 /\ run[p].validity <= S.validity
      /\ run[p].next >= 1 /\ run[p].next <= S.next /\ folder.validity = run[p].validity
      /\ run[p].last = folder.last /\ run[p].oldest = folder.oldest
  BY <1>1, <1>2, <1>3 DEF RunFact
<1>5. /\ run[p].last \in Nat /\ run[p].oldest \in Nat /\ S.next \in Nat /\ S.validity \in Nat
      /\ folder.last \in Nat /\ folder.oldest \in Nat
  BY <1>2, <1>4 DEF Runs, Servers
<1>6. /\ folder.last < S.next
      /\ \A u \in Mail!Uids : folder.oldest <= u /\ u <= folder.last /\ S.date[u] = "new" => ~Missing(u, rows)
  BY <1>2, <1>3, <1>4 DEF FolderFact
<1>7. /\ new \subseteq 0 .. k /\ k \in Nat
      /\ \A u : u \in new <=> u \in Mail!Uids /\ S.date[u] = "new"
      /\ \A u \in new : u >= 1
  <2>1. {"new"} \in SUBSET {"new", "old"}
    OBVIOUS
  <2>2. QED
    BY <1>1, <2>1, FoundIs
<1> HIDE DEF new
<1>8. CASE run[p].oldest <= 1 \/ older = {}
  <2>1. Mail!Ends(p, Mail!Finished(p))
    BY <1>3, <1>8
  <2>2. CASE Mail!Found(p, {"old"}) = {}
    <3>1. Mail!Ends(p, [complete |-> TRUE, stopped |-> ""])
      BY <2>1, <2>2 DEF Mail!Finished
    <3>2. \A u \in Mail!Uids : S.date[u] # "none" => S.date[u] = "new" /\ u >= 1 /\ u \in new
      <4>1. \A u \in Mail!Uids : S.date[u] # "old"
        BY <1>2, <2>2 DEF Mail!Found
      <4>2. QED
        BY <1>2, <1>7, <4>1 DEF Servers, Dates
    <3>3. \A u \in new : folder.oldest <= u
      <4>1. \A u \in new : u \in Nat /\ u >= 1
        BY <1>7, MailCounts
      <4>2. \A u \in new : run[p].oldest <= u
        BY <1>5, <1>8, <4>1
      <4>3. QED
        BY <1>4, <4>2
    <3>4. \A u \in Mail!Uids : u <= folder.last /\ S.date[u] # "none" => ~Missing(u, rows)
      BY <1>6, <3>2, <3>3
    <3>5. QED
      BY <1>1, <1>3, <3>1, <3>4, EndsKeeps
  <2>3. CASE Mail!Found(p, {"old"}) # {}
    <3>1. Mail!Ends(p, [complete |-> FALSE, stopped |-> "days"])
      BY <2>1, <2>3 DEF Mail!Finished
    <3>2. QED
      BY <1>1, <1>3, <3>1, EndsKeeps
  <2>4. QED
    BY <2>2, <2>3
<1>9. CASE ~(run[p].oldest <= 1 \/ older = {}) /\ room = 0
  <2>1. Mail!Ends(p, [complete |-> FALSE, stopped |-> "count"])
    BY <1>3, <1>9
  <2>2. QED
    BY <1>1, <1>3, <2>1, EndsKeeps
<1>10. CASE ~(run[p].oldest <= 1 \/ older = {}) /\ room # 0
  <2>1. run' = [run EXCEPT ![p] = r] /\ UNCHANGED folder
    BY <1>3, <1>10
  <2>2. n \in Nat /\ n # 0
    <3>1. Cardinality(Mail!Stored) \in Nat
      BY FS_CardinalityType DEF MailInv, MailTypes
    <3>2. room \in Nat
      BY <3>1, MailCounts
    <3> HIDE DEF room
    <3>3. QED
      BY <1>10, <3>2, MailCounts
  <2> HIDE DEF n, room
  <2>3. older \in SUBSET (0 .. k) /\ older # {}
    BY <1>7, <1>10
  <2>4. /\ chunk \subseteq older /\ chunk # {}
        /\ \A x \in chunk : \A y \in older : x <= y => y \in chunk
    <3> HIDE DEF older, k
    <3>1. QED
      BY <1>7, <2>2, <2>3, NewestIs
  <2> HIDE DEF chunk
  <2>5. /\ chunk \in SUBSET Mail!Uids /\ chunk \in SUBSET Nat
        /\ \A u \in chunk : u >= 1 /\ u < S.next
    <3>1. \A u \in 0 .. k : u < S.next
      BY <1>5
    <3>2. QED
      BY <1>7, <2>3, <2>4, <3>1, MailCounts
  <2>6. PICK m \in chunk : m = Mail!Min(chunk)
    BY <2>4, <2>5, LeastIs
  <2>7. m \in Nat /\ m >= 1
    BY <2>5
  <2>8. /\ r \in Runs /\ r.pc = "store" /\ r.then = "saveOld" /\ r.cred = cred /\ r.validity = run[p].validity
        /\ r.next = run[p].next /\ r.todo = chunk /\ r.oldest = m
    BY <1>2, <2>5, <2>6, <2>7 DEF Runs
  <2> HIDE DEF r
  <2>9. ASSUME NEW u \in Mail!Uids, m <= u, u <= folder.last, S.date[u] = "new"
        PROVE  ~Missing(u, rows) \/ u \in chunk
    <3>1. u \in Nat
      BY MailCounts
    <3>2. CASE folder.oldest <= u
      BY <1>6, <2>9, <3>2
    <3>3. CASE ~(folder.oldest <= u)
      <4>1. u \in older
        BY <1>4, <1>5, <1>7, <2>9, <3>1, <3>3
      <4>2. QED
        BY <2>4, <2>6, <2>9, <4>1
    <3>4. QED
      BY <3>2, <3>3
  <2>10. RunFact(r, folder, rows, S)
    <3>1. r.oldest # 0
      BY <2>7, <2>8
    <3>2. \A u \in r.todo : u < S.next
      BY <2>5, <2>8
    <3> HIDE DEF S
    <3>3. QED
      BY <1>3, <1>4, <1>6, <2>8, <2>9, <3>1, <3>2 DEF RunFact, Storing
  <2>11. mailFaults' = 0 => mailFaults = 0 /\ ~Storing(run[p], "saveFirst") /\ NumberFact(r, rows)
    BY <1>1, <1>3, <2>8 DEF NumberFact, Storing
  <2>12. state' \in SyncStates /\ state'.identity = state.identity /\ mailFaults' \in Nat
    BY <1>3 DEF MailInv, MailTypes
  <2>13. QED
    BY <1>1, <1>2, <1>3, <2>1, <2>8, <2>10, <2>11, <2>12, RunWalks
<1>11. QED
  BY <1>8, <1>9, <1>10

-----------------------------------------------------------------------------
\* At first nothing is known, and no run is under way.
LEMMA MailStart == ASSUME Mail!Init PROVE MailInv
<1>1. /\ world \in MailWorlds /\ patch = "idle" /\ state = [identity |-> "", leased |-> FALSE, auth |-> FALSE]
      /\ folder = Mail!NoFolder /\ rows = [u \in Mail!Uids |-> Mail!NoRow] /\ run = [p \in Mailers |-> Mail!Idle]
      /\ mailFaults = 0
      /\ server = [b \in Mail!Boxes |->
                      [validity |-> 1, next |-> 1, junk |-> FALSE, date |-> [u \in Mail!Uids |-> "none"]]]
  BY DEF Mail!Init
<1>2. PICK b \in world.boxes : cred = [box |-> b, n |-> 1]
  BY DEF Mail!Init
<1>3. cred \in Creds /\ cred.box \in Mail!Boxes
  <2>1. b \in Mail!Boxes
    BY <1>1, <1>2 DEF Mail!Boxes
  <2>2. QED
    BY <1>2, <2>1 DEF Creds
<1>4. /\ Mail!NoFolder \in Folders /\ Mail!NoFolder.oldest = 0 /\ Mail!NoFolder.validity = 0
      /\ ~Mail!NoFolder.complete /\ ~Mail!NoFolder.there /\ Mail!Idle \in Runs /\ Mail!Idle.pc = "idle"
  BY DEF Mail!NoFolder, Folders, Mail!Idle, Runs
<1>5. Mail!Stored = {} /\ IsFiniteSet(Mail!Stored) /\ NoneStored(rows)
  <2>1. \A u \in Mail!Uids : rows[u] = Mail!NoRow
    BY <1>1
  <2>2. Mail!Stored = {}
    BY <2>1 DEF Mail!Stored
  <2>3. QED
    BY <2>1, <2>2, FS_EmptySet DEF NoneStored, Missing
<1>6. \A x \in Mail!Boxes : /\ server[x] \in Servers /\ server[x].validity >= 1 /\ server[x].next >= 1
                            /\ \A u \in Mail!Uids : server[x].date[u] = "none"
  <2> DEFINE d == [u \in Mail!Uids |-> "none"]
  <2>1. d \in [Mail!Uids -> Dates] /\ \A u \in Mail!Uids : d[u] = "none"
    BY DEF Dates
  <2>2. \A x \in Mail!Boxes : server[x] = [validity |-> 1, next |-> 1, junk |-> FALSE, date |-> d]
    BY <1>1
  <2> DEFINE s == [validity |-> 1, next |-> 1, junk |-> FALSE, date |-> d]
  <2> HIDE DEF d
  <2>3. /\ s \in Servers /\ s.validity = 1 /\ s.next = 1 /\ s.date = d
    BY <2>1 DEF Servers
  <2>4. \A x \in Mail!Boxes : server[x] = s
    BY <2>2
  <2> HIDE DEF s
  <2>5. QED
    BY <2>1, <2>3, <2>4
<1>7. MailTypes
  <2>1. server \in [Mail!Boxes -> Servers]
    BY <1>1, <1>6
  <2>2. rows \in [Mail!Uids -> Rows \union {Mail!NoRow}] /\ run \in [Mailers -> Runs]
    BY <1>1, <1>4
  <2>3. state \in SyncStates
    BY <1>1 DEF SyncStates
  <2>4. QED
    BY <1>1, <1>3, <1>4, <1>5, <2>1, <2>2, <2>3 DEF MailTypes
<1>8. ServerInv
  BY <1>6 DEF ServerInv
<1>9. IdentityInv
  BY <1>1, <1>5 DEF IdentityInv, NothingKnown
<1>10. FolderInv
  <2>1. FolderFact(folder, rows, server[cred.box])
    BY <1>1, <1>3, <1>6, NothingFact
  <2>2. QED
    BY <1>1, <1>4, <2>1 DEF FolderInv
<1>11. \A p \in Mailers : run[p] = Mail!Idle
  BY <1>1
<1>12. RunInv
  BY <1>4, <1>11 DEF RunInv, Under
<1>13. NumberInv
  BY <1>1, <1>4, <1>5, <1>11 DEF NumberInv, NumberFact, Storing
<1>14. QED
  BY <1>7, <1>8, <1>9, <1>10, <1>12, <1>13 DEF MailInv

LEMMA MailSteps == ASSUME Calm, MailInv, [Mail!Next]_(Mail!vars) PROVE MailInv'
<1>1. ASSUME NEW p \in Mailers, Mail!Steps(p) PROVE MailInv'
  <2>1. CASE Mail!Load(p)
    BY <2>1, LoadKeeps
  <2>2. CASE Mail!Claim(p, FALSE)
    BY <2>2, ClaimMailKeeps
  <2>3. CASE Mail!CheckIdentity(p)
    BY <2>3, CheckIdentityKeeps
  <2>4. CASE Mail!List(p)
    BY <2>4, ListKeeps
  <2>5. CASE Mail!Select(p)
    BY <2>5, SelectKeeps
  <2>6. CASE Mail!Renumbered(p)
    BY <2>6, RenumberedKeeps
  <2>7. CASE Mail!First(p)
    BY <2>7, FirstKeeps
  <2>8. CASE Mail!New(p)
    BY <2>8, NewKeeps
  <2>9. CASE Mail!Store(p)
    BY <2>9, StoreKeeps
  <2>10. CASE Mail!Save(p)
    BY <2>10, SaveKeeps
  <2>11. ASSUME NEW due \in BOOLEAN, Mail!ExpungeRows(p, due) PROVE MailInv'
    BY <2>11, ExpungeRowsKeeps
  <2>12. CASE Mail!Backfill(p)
    BY <2>12, BackfillKeeps
  <2>13. CASE Mail!Succeed(p)
    BY <2>13, EndsKeep
  <2>14. QED
    BY <1>1, <2>1, <2>2, <2>3, <2>4, <2>5, <2>6, <2>7, <2>8, <2>9, <2>10, <2>11, <2>12, <2>13 DEF Mail!Steps
<1>2. ASSUME NEW p \in Mailers, Mail!Claim(p, TRUE) PROVE MailInv'
  BY <1>2, ClaimMailKeeps
<1>3. ASSUME NEW p \in Mailers, Mail!Busy(p) PROVE MailInv'
  BY <1>3, BusyKeeps
<1>4. ASSUME NEW p \in Mailers, Mail!OutOfTime(p) PROVE MailInv'
  BY <1>4, OutOfTimeKeeps
<1>5. ASSUME NEW p \in Mailers, Mail!Drops(p) \/ Mail!Refused(p) PROVE MailInv'
  BY <1>5, EndsKeep
<1>6. ASSUME NEW p \in Mailers, Mail!Crash(p) PROVE MailInv'
  BY <1>6, CrashKeeps
<1>7. CASE Mail!LeaseEnds
  BY <1>7, MailLeaseEndsKeeps
<1>8. ASSUME NEW b \in Mail!Boxes, NEW d \in {"new", "old"}, Mail!Arrive(b, d) PROVE MailInv'
  BY <1>8, ArriveKeeps
<1>9. ASSUME NEW b \in Mail!Boxes, NEW u \in Mail!Uids, Mail!Expunge(b, u) PROVE MailInv'
  BY <1>9, DateKeeps DEF Mail!Expunge
<1>10. ASSUME NEW b \in Mail!Boxes, NEW u \in Mail!Uids, Mail!Age(b, u) PROVE MailInv'
  BY <1>10, DateKeeps DEF Mail!Age
<1>11. ASSUME NEW b \in Mail!Boxes, Mail!Renumber(b) PROVE MailInv'
  BY <1>11, RenumberKeeps
<1>12. ASSUME NEW b \in Mail!Boxes, Mail!Mark(b) PROVE MailInv'
  BY <1>12, MarkRests
<1>13. ASSUME NEW b \in Mail!Boxes, Mail!Patch(b) PROVE MailInv'
  BY <1>13, PatchKeeps
<1>14. CASE Mail!PatchReset
  BY <1>14, PatchResetKeeps
<1>15. CASE Mail!PatchAuth
  BY <1>15, PatchAuthKeeps
<1>16. CASE UNCHANGED Mail!vars
  <2>1. UNCHANGED <<world, server, cred, patch, state, folder, rows, run, mailFaults>>
    BY <1>16 DEF Mail!vars
  <2>2. /\ mailFaults' \in Nat /\ run' \in [Mailers -> Runs] /\ patch' \in {"idle", "reset", "auth"} /\ state' \in SyncStates
        /\ \A q \in Mailers : Under(run[q]) => state'.leased
    BY <2>1 DEF MailInv, MailTypes, RunInv
  <2>3. QED
    BY <2>1, <2>2, Rests
<1>17. QED
  BY <1>1, <1>2, <1>3, <1>4, <1>5, <1>6, <1>7, <1>8, <1>9, <1>10, <1>11, <1>12, <1>13, <1>14, <1>15, <1>16 DEF Mail!Next

LEMMA MailIsTrue == ASSUME MailInv PROVE Mail!TypeOK /\ Mail!RowsAreTrue
<1>1. \A u \in Mail!Uids : u \in Mail!Stored <=> ~Missing(u, rows)
  BY MailBasics DEF MailInv
<1>2. Mail!TypeOK
  <2>1. \A u \in Mail!Uids : rows[u] = Mail!NoRow \/ (rows[u].box \in Mail!Boxes /\ folder.there)
    <3>1. SUFFICES ASSUME NEW u \in Mail!Uids, rows[u] # Mail!NoRow PROVE rows[u].box \in Mail!Boxes /\ folder.there
      OBVIOUS
    <3>2. rows[u] \in Rows
      BY <3>1 DEF MailInv, MailTypes
    <3>3. rows[u].box \in Mail!Boxes
      BY <3>2 DEF Rows
    <3>4. u \in Mail!Stored
      BY <3>1 DEF Mail!Stored
    <3>5. folder.there
      BY <3>4 DEF MailInv, IdentityInv, NothingKnown
    <3>6. QED
      BY <3>3, <3>5
  <2>2. \A p \in Mailers : run[p].todo \subseteq Mail!Uids
    <3>1. \A p \in Mailers : run[p] \in Runs
      BY MailBasics DEF MailInv
    <3>2. QED
      BY <3>1 DEF Runs
  <2>3. folder.stopped \in {"", "days", "count"} /\ (folder.complete => folder.stopped = "")
    <3>1. folder \in Folders
      BY DEF MailInv, MailTypes
    <3>2. QED
      BY <3>1 DEF MailInv, FolderInv, Folders
  <2>4. QED
    BY <2>1, <2>2, <2>3 DEF Mail!TypeOK
<1>3. Mail!OneMailbox
  BY DEF Mail!OneMailbox, MailInv, IdentityInv, NothingKnown
<1>4. Mail!OneNumbering
  <2>1. mailFaults = 0 /\ folder.oldest # 0 => StoredAs(folder.validity, rows)
    BY DEF MailInv, NumberInv
  <2>2. Mail!Stored \subseteq Mail!Uids
    BY DEF Mail!Stored
  <2>3. QED
    BY <1>1, <2>1, <2>2 DEF Mail!OneNumbering, StoredAs
<1>5. Mail!HistoryIsTrue
  <2>1. SUFFICES ASSUME patch = "idle", folder.complete, folder.validity = server[cred.box].validity
                 PROVE  \A u \in Mail!Uids : u <= folder.last /\ server[cred.box].date[u] # "none" => rows[u] # Mail!NoRow
    BY DEF Mail!HistoryIsTrue
  <2>2. state.identity = cred.box
    <3>1. ~Mail!NoFolder.complete
      BY DEF Mail!NoFolder
    <3>2. QED
      BY <2>1, <3>1 DEF MailInv, IdentityInv, NothingKnown
  <2>3. FolderFact(folder, rows, server[cred.box])
    BY <2>2 DEF MailInv, FolderInv
  <2>4. QED
    BY <2>1, <2>3 DEF FolderFact, Missing
<1>6. QED
  BY <1>2, <1>3, <1>4, <1>5 DEF Mail!RowsAreTrue

\* The inductive invariant holds in every reachable state of a mailbox whose credentials change
\* only between runs.
THEOREM MailInvariant == ASSUME Calm PROVE Mail!Spec => []MailInv
<1>1. Mail!Init => MailInv
  BY MailStart
<1>2. MailInv /\ [Mail!Next]_(Mail!vars) => MailInv'
  BY MailSteps
<1>3. QED
  BY <1>1, <1>2, PTL DEF Mail!Spec

\* The shape of what is stored and saved of a mailbox.
THEOREM MailTypesHold == ASSUME Calm PROVE Mail!Spec => []Mail!TypeOK
<1>1. MailInv => Mail!TypeOK
  BY MailIsTrue
<1>2. QED
  BY <1>1, MailInvariant, PTL

\* The headers that are stored are of the mailbox the credentials name, of one numbering, and
\* what is said of how far back they go is so (syncFolder() of imap-sync.ts).
THEOREM RowsStayTrue == ASSUME Calm PROVE Mail!Spec => []RowsAreTrue
<1>1. MailInv => RowsAreTrue
  BY MailIsTrue DEF RowsAreTrue
<1>2. QED
  BY <1>1, MailInvariant, PTL

-----------------------------------------------------------------------------
(* The three side by side. *)

\* Each part does what it does alone.
LEMMA WebPartsRun == MCSpec => Pools!Spec /\ Groups!Spec /\ Mail!Spec
<1>1. MCInit => Pools!Init /\ Groups!Init /\ Mail!Init
  BY DEF MCInit
<1>2. [MCNext]_<<part, poolVars, groupVars, mailVars>> =>
         [Pools!Next]_(Pools!vars) /\ [Groups!Next]_(Groups!vars) /\ [Mail!Next]_(Mail!vars)
  <2>1. /\ UNCHANGED poolVars <=> UNCHANGED Pools!vars
        /\ UNCHANGED groupVars <=> UNCHANGED Groups!vars
        /\ UNCHANGED mailVars <=> UNCHANGED Mail!vars
    BY DEF poolVars, groupVars, mailVars, Pools!vars, Groups!vars, Mail!vars
  <2>2. QED
    BY <2>1 DEF MCNext
<1>3. QED
  BY <1>1, <1>2, PTL DEF MCSpec, Pools!Spec, Groups!Spec, Mail!Spec

LEMMA GroupVersions == GroupInv => Groups!TypeOK
<1> SUFFICES ASSUME GroupInv PROVE Groups!TypeOK
  OBVIOUS
<1>1. groups \in Nat /\ stored \in Nat /\ groups >= 1 /\ groups <= MaxVersion /\ stored <= groups /\ MaxVersion \in Nat
  BY GroupsAssumed DEF GroupInv, GroupTypes, KnownInv, Groups!Assumption
<1>2. ASSUME NEW r \in Replicas PROVE {cache[r].value, seed[r].value, load[r].value, shown[r]} \subseteq 0 .. groups
  <2>1. cache[r].value \in Nat /\ seed[r].value \in Nat /\ load[r].value \in Nat /\ shown[r] \in Nat
    <3>1. cache[r] \in Entries /\ seed[r] \in SeedStates /\ load[r] \in LoadStates /\ shown[r] \in Nat
      BY DEF GroupInv, GroupTypes
    <3>2. QED
      BY <3>1 DEF Entries, SeedStates, LoadStates
  <2>2. cache[r].value <= groups /\ seed[r].value <= groups /\ load[r].value <= groups /\ shown[r] <= groups
    BY DEF GroupInv, KnownInv
  <2>3. QED
    BY <1>1, <2>1, <2>2
<1>3. groups \in 1 .. MaxVersion /\ stored \in 0 .. groups
  BY <1>1
<1>4. QED
  BY <1>2, <1>3 DEF Groups!TypeOK

\* The shape of all their states holds as they are model-checked, and with it that no replica
\* knows a version of the groups there never was.
THEOREM WebTypesHold == ASSUME Calm PROVE MCSpec => []TypeOK
<1>1. Pools!TypeOK /\ GroupInv /\ Mail!TypeOK => TypeOK
  BY GroupVersions DEF TypeOK
<1>2. QED
  BY <1>1, WebPartsRun, PoolTypesHold, GroupsInvariant, MailTypesHold, PTL
=============================================================================

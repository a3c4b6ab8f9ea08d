----------------------------- MODULE LogProofs ------------------------------
(***************************************************************************)
(* Proofs about Log, for every number of processes and blocks, every       *)
(* MAXOPBLOCKS and every size of the log.                                  *)
(***************************************************************************)
EXTENDS Log, FiniteSetTheorems, TLAPS

CommitPhases == {"log", "head", "install", "clear", "done"}

Injective1(s) == \A i, j \in 1..Len(s) : s[i] = s[j] => i = j

\* A block is in a header once; a header fits in the log.
HeadInv ==
  /\ Injective1(lh) /\ Injective1(dhead)
  /\ Len(lh) <= LogSize /\ Len(dhead) <= LogSize

\* Who may be where: a commit is alone, recovery comes before all calls, and
\* nothing is logged while no call is in progress.
CallInv ==
  /\ outstanding = Cardinality(InOp)
  /\ phase # "panic" =>
       /\ committing = 1 <=> phase \in CommitPhases
       /\ committing = 1 <=> \E p \in Procs : pc[p] = "commit"
       /\ \A p, q \in Procs : pc[p] = "commit" /\ pc[q] = "commit" => p = q
       /\ phase # "none" => InOp = {}
       /\ phase \in RecoveryPhases => \A p \in Procs : pc[p] = "idle"
       /\ phase = "none" /\ InOp = {} => lh = << >>

\* What the disk holds in each phase.
Logs(n) == \A t \in 1..n : dlog[t] = bread(lh[t])
Installed(h, n) == \A t \in 1..n : home[h[t]] = dlog[t]

DiskInv ==
  /\ phase \in {"none", "log", "head", "done"} => dhead = << >>
  /\ phase \in {"log", "head", "install", "reinstall"} => lh # << >>
  /\ phase \in {"log", "install", "reinstall"} => tail <= Len(lh)
  /\ phase \in {"clear", "done", "reclear"} => lh = << >>
  /\ phase = "log" => Logs(tail - 1)
  /\ phase \in {"head", "install"} => Logs(Len(lh))
  /\ phase \in {"install", "reinstall"} => dhead = lh /\ Installed(lh, tail - 1)
  /\ phase \in {"clear", "reclear"} => Installed(dhead, Len(dhead))

\* A buffer that is not pinned can be dropped; one that is pinned is there.
CacheInv ==
  \A b \in Blocks :
    /\ pins[b] = 0 => cache[b] \in {None, home[b]}
    /\ pins[b] = 1 => cache[b] # None

WroteInv ==
  \A p \in Procs :
    /\ Cardinality(wrote[p]) <= MaxOpBlocks
    /\ pc[p] = "op" => wrote[p] \subseteq Logged
    /\ pc[p] # "op" => wrote[p] = {}

LogInv ==
  /\ TypeOK /\ HeadInv /\ CallInv /\ DiskInv /\ CacheInv
  /\ PinnedWhileLogged /\ WroteInv /\ ReservationKept /\ SleeperHasWaker

-----------------------------------------------------------------------------
\* Counting.

\* What the invariant says of finiteness.
LEMMA FiniteFacts ==
  ASSUME TypeOK
  PROVE  /\ IsFiniteSet(InOp) /\ Cardinality(InOp) \in Nat
         /\ \A p \in Procs : IsFiniteSet(wrote[p]) /\ Cardinality(wrote[p]) \in Nat
         /\ IsFiniteSet(Reserved) /\ Cardinality(Reserved) \in Nat
<1>1. IsFiniteSet(InOp) /\ Cardinality(InOp) \in Nat
  BY LogAssumption, FS_Subset, FS_CardinalityType, Zenon DEF InOp
<1>2. ASSUME NEW p \in Procs PROVE IsFiniteSet(wrote[p]) /\ Cardinality(wrote[p]) \in Nat
  <2>1. wrote[p] \in SUBSET Blocks
    BY Zenon DEF TypeOK
  <2>2. IsFiniteSet(wrote[p])
    BY <2>1, LogAssumption, FS_Subset, Zenon
  <2> QED
    BY <2>2, FS_CardinalityType, Zenon
<1>3. IsFiniteSet(Reserved) /\ Cardinality(Reserved) \in Nat
  <2>1. IsFiniteSet(1..MaxOpBlocks)
    BY LogAssumption, FS_Interval
  <2>2. IsFiniteSet(Procs \X (1..MaxOpBlocks))
    BY <2>1, LogAssumption, FS_Product, Zenon
  <2>3. Reserved \in SUBSET (Procs \X (1..MaxOpBlocks))
    BY Zenon DEF Reserved
  <2>4. IsFiniteSet(Reserved)
    BY <2>2, <2>3, FS_Subset, Zenon
  <2> QED
    BY <2>4, FS_CardinalityType, Zenon
<1> QED
  BY <1>1, <1>2, <1>3, Zenon

\* The reservations of k calls are at most k * MAXOPBLOCKS.
LEMMA ReservedBound ==
  ASSUME TypeOK
  PROVE  Cardinality(Reserved) <= Cardinality(InOp) * MaxOpBlocks
<1>1. IsFiniteSet(1..MaxOpBlocks) /\ Cardinality(1..MaxOpBlocks) = MaxOpBlocks
  BY LogAssumption, FS_Interval
<1>2. /\ IsFiniteSet(InOp \X (1..MaxOpBlocks))
      /\ Cardinality(InOp \X (1..MaxOpBlocks)) = Cardinality(InOp) * MaxOpBlocks
  BY <1>1, FiniteFacts, FS_Product, Zenon
<1>3. Reserved \in SUBSET (InOp \X (1..MaxOpBlocks))
  BY Zenon DEF Reserved, InOp
<1> QED
  BY <1>2, <1>3, FS_Subset, Zenon

-----------------------------------------------------------------------------
\* The steps, one lemma for each, preserve LogInv.

\* Steps that only move processes between "idle", "begin" and "asleep".
LEMMA MoveInv ==
  ASSUME LogInv, NEW p \in Procs, phase # "panic", BeginCall(p) \/ BeginSleeps(p)
  PROVE  LogInv'
<1> USE DEF LogInv
<1>0. /\ UNCHANGED <<home, dlog, dhead, cache, pins, outstanding, committing, lh, wrote, phase, tail>>
      /\ pc' = [pc EXCEPT ![p] = IF pc[p] = "idle" THEN "begin" ELSE "asleep"]
      /\ pc[p] \in {"idle", "begin"}
  BY Zenon DEF BeginCall, BeginSleeps, disk, bufs, log
<1>1. TypeOK'
  BY <1>0, Zenon DEF TypeOK, PCs
<1>2. InOp' = InOp
  BY <1>0, Zenon DEF TypeOK, InOp
<1>3. HeadInv' /\ DiskInv' /\ CacheInv' /\ PinnedWhileLogged'
  BY <1>0 DEF HeadInv, DiskInv, CacheInv, PinnedWhileLogged, Injective1, Logs, Installed, bread
<1>4. CallInv'
  <2>1. \A q \in Procs : pc'[q] = "commit" <=> pc[q] = "commit"
    BY <1>0, Zenon DEF TypeOK
  <2>2. phase \notin RecoveryPhases
    BY Zenon DEF BeginCall, BeginSleeps, CallInv, RecoveryPhases
  <2> QED
    BY <1>0, <1>2, <2>1, <2>2, Zenon DEF CallInv, RecoveryPhases
<1>5. WroteInv'
  BY <1>0 DEF WroteInv, Logged, TypeOK
<1>6. ReservationKept'
  <2>1. Reserved' = Reserved
    BY <1>0, Zenon DEF Reserved, TypeOK
  <2> QED
    BY <1>0, <2>1, Zenon DEF ReservationKept
<1>7. SleeperHasWaker'
  <2>1. CASE BeginCall(p)
    BY <1>0, <1>2, <2>1, Zenon DEF SleeperHasWaker, TypeOK, BeginCall
  <2>2. CASE BeginSleeps(p)
    <3>1. InOp # {} \/ \E q \in Procs : pc[q] = "commit"
      <4>1. CASE committing = 1
        BY <4>1, Zenon DEF CallInv
      <4>2. CASE committing = 0 /\ InOp = {}
        <5>1. outstanding = 0
          BY <4>2, FS_EmptySet, Zenon DEF CallInv
        <5>2. phase = "none"
          BY <2>2, <4>2 DEF CallInv, BeginSleeps, TypeOK, Phases, CommitPhases, RecoveryPhases
        <5>3. lh = << >>
          BY <4>2, <5>2, Zenon DEF CallInv
        <5>4. Len(lh) + (outstanding + 1) * MaxOpBlocks <= LogSize
          BY <5>1, <5>3, LogAssumption
        <5> QED
          BY <2>2, <4>2, <5>1, <5>3, <5>4, LogAssumption DEF BeginSleeps, MustWait
      <4> QED
        BY <4>1, <4>2, Zenon DEF TypeOK
    <3>2. \A q \in Procs : pc[q] = "commit" => pc'[q] = "commit"
      BY <1>0, Zenon DEF TypeOK
    <3> QED
      BY <1>2, <3>1, <3>2, Zenon DEF SleeperHasWaker
  <2> QED
    BY <2>1, <2>2, Zenon
<1> QED
  BY <1>1, <1>3, <1>4, <1>5, <1>6, <1>7, Zenon

\* While a call is in progress nothing else is.
LEMMA InOpPhase ==
  ASSUME LogInv, NEW p \in Procs, phase # "panic", pc[p] = "op"
  PROVE  phase = "none" /\ committing = 0 /\ p \in InOp /\ dhead = << >>
<1>1. p \in InOp
  BY Zenon DEF InOp
<1>2. phase = "none"
  BY <1>1, Zenon DEF LogInv, CallInv
<1> QED
  BY <1>1, <1>2, Zenon DEF LogInv, CallInv, DiskInv, TypeOK, CommitPhases

\* begin_op keeps the invariant.
LEMMA BeginOpInv ==
  ASSUME LogInv, NEW p \in Procs, phase # "panic", BeginOp(p)
  PROVE  LogInv'
<1> USE DEF LogInv
<1>0. /\ UNCHANGED <<home, dlog, dhead, cache, pins, committing, lh, wrote, phase, tail>>
      /\ pc' = [pc EXCEPT ![p] = "op"] /\ outstanding' = outstanding + 1
      /\ pc[p] = "begin" /\ committing = 0
      /\ Len(lh) + (outstanding + 1) * MaxOpBlocks <= LogSize
  BY LogAssumption DEF BeginOp, disk, bufs, MustWait, TypeOK
<1>1. TypeOK'
  BY <1>0 DEF TypeOK, PCs
<1>2. InOp' = InOp \cup {p} /\ p \notin InOp
  BY <1>0, Zenon DEF TypeOK, InOp
<1>3. phase = "none"
  BY <1>0 DEF CallInv, TypeOK, Phases, CommitPhases, RecoveryPhases
<1>4. HeadInv' /\ DiskInv' /\ CacheInv' /\ PinnedWhileLogged'
  BY <1>0 DEF HeadInv, DiskInv, CacheInv, PinnedWhileLogged, Injective1, Logs, Installed, bread
<1>5. CallInv'
  <2>1. \A q \in Procs : pc'[q] = "commit" <=> pc[q] = "commit"
    BY <1>0, Zenon DEF TypeOK
  <2>2. outstanding' = Cardinality(InOp')
    BY <1>0, <1>2, FiniteFacts, FS_AddElement, Zenon DEF CallInv
  <2> QED
    BY <1>0, <1>2, <1>3, <2>1, <2>2, Zenon DEF CallInv, RecoveryPhases
<1>6. WroteInv'
  BY <1>0 DEF WroteInv, Logged, TypeOK
<1>7. ReservationKept'
  <2>1. (Cardinality(Reserved) <= Cardinality(InOp) * MaxOpBlocks)'
    BY <1>1, ReservedBound, PTL
  <2>2. (Cardinality(Reserved) \in Nat)'
    BY <1>1, FiniteFacts, PTL
  <2>3. Cardinality(InOp') = outstanding + 1
    BY <1>0, <1>5, Zenon DEF CallInv
  <2>4. Cardinality(Reserved') <= (outstanding + 1) * MaxOpBlocks /\ Cardinality(Reserved') \in Nat
    BY <2>1, <2>2, <2>3, Zenon
  <2> HIDE DEF LogInv
  <2>5. Len(lh) \in Nat /\ (outstanding + 1) * MaxOpBlocks \in Nat
    BY LogAssumption DEF LogInv, TypeOK
  <2>6. Len(lh) + Cardinality(Reserved') <= LogSize
    <3> DEFINE A == (outstanding + 1) * MaxOpBlocks
               C == Cardinality(Reserved')
    <3>1. A \in Nat /\ C \in Nat /\ C <= A /\ Len(lh) + A <= LogSize
      BY <1>0, <2>4, <2>5, Zenon
    <3> HIDE DEF A, C
    <3>2. Len(lh) + C <= LogSize
      BY <2>5, <3>1, LogAssumption
    <3> QED
      BY <3>2, Zenon DEF C
  <2> QED
    BY <1>0, <2>6, Zenon DEF ReservationKept
<1>8. SleeperHasWaker'
  BY <1>2, Zenon DEF SleeperHasWaker
<1> QED
  BY <1>1, <1>4, <1>5, <1>6, <1>7, <1>8, Zenon

\* log_write keeps the invariant: a new block, or one the transaction has already.
LEMMA LogWriteInv ==
  ASSUME LogInv, NEW p \in Procs, NEW b \in Blocks, NEW v \in Vals, phase # "panic", LogWrite(p, b, v)
  PROVE  LogInv'
<1> USE DEF LogInv
<1>0. /\ UNCHANGED <<home, dlog, dhead, outstanding, committing, pc, phase, tail>>
      /\ cache' = [cache EXCEPT ![b] = v]
      /\ lh' = IF b \in Logged THEN lh ELSE Append(lh, b)
      /\ pins' = IF b \in Logged THEN pins ELSE [pins EXCEPT ![b] = @ + 1]
      /\ wrote' = [wrote EXCEPT ![p] = @ \cup {b}]
      /\ pc[p] = "op" /\ Len(lh) < LogSize
      /\ b \in wrote[p] \/ Cardinality(wrote[p]) < MaxOpBlocks
  BY LogAssumption DEF LogWrite, MayWrite, Panics, disk, TypeOK
<1>1. phase = "none" /\ committing = 0 /\ p \in InOp /\ dhead = << >>
  BY <1>0, InOpPhase, Zenon
<1>2. \A c \in Blocks : pins[c] = 1 <=> c \in Logged
  BY <1>1, Zenon DEF PinnedWhileLogged, Logged, RecoveryPhases
<1>3. lh \in Seq(Blocks) /\ lh' \in Seq(Blocks)
  BY <1>0 DEF TypeOK
<1>4. Logged' = Logged \cup {b}
  <2>1. CASE b \in Logged
    BY <1>0, <2>1, Zenon DEF Logged
  <2>2. CASE b \notin Logged
    <3>1. Len(lh') = Len(lh) + 1 /\ lh'[Len(lh) + 1] = b
      BY <1>0, <1>3, <2>2
    <3>2. \A t \in 1..Len(lh) : lh'[t] = lh[t]
      BY <1>0, <1>3, <2>2
    <3>3. Len(lh) \in Nat
      BY <1>3
    <3> QED
      BY <3>1, <3>2, <3>3 DEF Logged
  <2> QED
    BY <2>1, <2>2, Zenon
<1>5. TypeOK'
  <2>1. pins' \in [Blocks -> {0, 1}]
    BY <1>0, <1>2 DEF TypeOK
  <2>2. cache' \in [Blocks -> Vals \cup {None}] /\ wrote' \in [Procs -> SUBSET Blocks]
    BY <1>0, Zenon DEF TypeOK
  <2> QED
    BY <1>0, <1>3, <2>1, <2>2, Zenon DEF TypeOK
<1>6. InOp' = InOp
  BY <1>0, Zenon DEF InOp
<1>7. HeadInv'
  <2>1. CASE b \in Logged
    BY <1>0, <2>1, Zenon DEF HeadInv, Injective1
  <2>2. CASE b \notin Logged
    <3>1. Len(lh') = Len(lh) + 1 /\ lh'[Len(lh) + 1] = b /\ Len(lh) \in Nat
      BY <1>0, <1>3, <2>2
    <3>2. \A t \in 1..Len(lh) : lh'[t] = lh[t]
      BY <1>0, <1>3, <2>2
    <3>3. \A t \in 1..Len(lh) : lh[t] # b
      BY <2>2, Zenon DEF Logged
    <3>4. Injective1(lh')
      BY <3>1, <3>2, <3>3 DEF HeadInv, Injective1
    <3> QED
      BY <1>0, <3>1, <3>4, LogAssumption DEF HeadInv, Injective1
  <2> QED
    BY <2>1, <2>2, Zenon
<1>8. CallInv'
  BY <1>0, <1>1, <1>6, Zenon DEF CallInv, RecoveryPhases
<1>9. DiskInv'
  BY <1>0, <1>1, Zenon DEF DiskInv
<1>10. PinnedWhileLogged'
  <2>1. \A c \in Blocks : pins'[c] = 1 <=> c \in Logged'
    BY <1>0, <1>2, <1>4 DEF TypeOK
  <2> QED
    BY <1>0, <1>1, <2>1 DEF PinnedWhileLogged, Logged, RecoveryPhases
<1>11. CacheInv'
  <2>1. pins'[b] = 1 /\ cache'[b] = v /\ v # None
    BY <1>0, <1>2, LogAssumption DEF TypeOK
  <2>2. \A c \in Blocks \ {b} : pins'[c] = pins[c] /\ cache'[c] = cache[c]
    BY <1>0, Zenon DEF TypeOK
  <2> QED
    BY <1>0, <2>1, <2>2 DEF CacheInv
<1>12. /\ \A q \in Procs \ {p} : wrote'[q] = wrote[q]
       /\ wrote'[p] = wrote[p] \cup {b}
       /\ IsFiniteSet(wrote[p]) /\ Cardinality(wrote[p]) \in Nat
       /\ wrote[p] \subseteq Logged
  BY <1>0, FiniteFacts, Zenon DEF TypeOK, WroteInv
<1>13. Cardinality(wrote'[p]) = IF b \in wrote[p] THEN Cardinality(wrote[p]) ELSE Cardinality(wrote[p]) + 1
  <2>1. wrote'[p] = wrote[p] \cup {b} /\ IsFiniteSet(wrote[p])
    BY <1>12, Zenon
  <2> HIDE DEF LogInv
  <2> QED
    BY <2>1, FS_AddElement, Zenon
<1>14. WroteInv'
  <2>1. Cardinality(wrote'[p]) <= MaxOpBlocks
    BY <1>0, <1>12, <1>13, LogAssumption DEF WroteInv
  <2>2. wrote'[p] \subseteq Logged'
    BY <1>4, <1>12, Zenon
  <2>3. ASSUME NEW q \in Procs, q # p
        PROVE  /\ Cardinality(wrote'[q]) <= MaxOpBlocks
               /\ pc[q] = "op" => wrote'[q] \subseteq Logged'
               /\ pc[q] # "op" => wrote'[q] = {}
    BY <1>4, <1>12, <2>3, Zenon DEF WroteInv
  <2> QED
    BY <1>0, <2>1, <2>2, <2>3, Zenon DEF WroteInv
<1>15. ReservationKept'
  <2>1. IsFiniteSet(Reserved) /\ Cardinality(Reserved) \in Nat
    BY FiniteFacts, Zenon
  <2>2. \A q \in Procs : Cardinality(wrote[q]) \in Nat /\ Cardinality(wrote'[q]) \in Nat
    <3>1. \A q \in Procs : Cardinality(wrote[q]) \in Nat
      BY FiniteFacts, Zenon
    <3>2. Cardinality(wrote'[p]) \in Nat
      BY <1>12, <1>13
    <3>3. ASSUME NEW q \in Procs PROVE Cardinality(wrote'[q]) \in Nat
      <4>1. CASE q = p
        BY <3>2, <4>1, Zenon
      <4>2. CASE q # p
        <5>1. wrote'[q] = wrote[q]
          BY <1>12, <4>2, Zenon
        <5> QED
          BY <3>1, <5>1, Zenon
      <4> QED
        BY <4>1, <4>2, Zenon
    <3> QED
      BY <3>1, <3>3, Zenon
  <2>3. CASE b \in Logged
    <3>1. Reserved' \in SUBSET Reserved
      <4> SUFFICES ASSUME NEW x \in Reserved' PROVE x \in Reserved
        BY Zenon
      <4>1. x \in Procs \X (1..MaxOpBlocks) /\ pc[x[1]] = "op" /\ x[2] > Cardinality(wrote'[x[1]])
        BY <1>0, Zenon DEF Reserved
      <4>2. Cardinality(wrote'[x[1]]) >= Cardinality(wrote[x[1]])
        <5>1. CASE x[1] = p
          <6>1. Cardinality(wrote'[p]) >= Cardinality(wrote[p])
            BY <1>12, <1>13
          <6> QED
            BY <5>1, <6>1, Zenon
        <5>2. CASE x[1] # p
          <6>1. wrote'[x[1]] = wrote[x[1]] /\ Cardinality(wrote[x[1]]) \in Nat
            BY <1>12, <2>2, <4>1, <5>2, Zenon
          <6> QED
            BY <6>1
        <5> QED
          BY <5>1, <5>2, Zenon
      <4>3. x[1] \in Procs /\ x[2] \in Nat
        BY <4>1
      <4>4. x[2] > Cardinality(wrote[x[1]])
        BY <2>2, <4>1, <4>2, <4>3
      <4> QED
        BY <4>1, <4>4, Zenon DEF Reserved
    <3>2. Cardinality(Reserved') <= Cardinality(Reserved) /\ Cardinality(Reserved') \in Nat
      BY <2>1, <3>1, FS_Subset, FS_CardinalityType, Zenon
    <3>3. Len(lh') = Len(lh) /\ Len(lh) \in Nat
      BY <1>0, <1>3, <2>3
    <3> QED
      BY <2>1, <3>2, <3>3, LogAssumption DEF ReservationKept
  <2>4. CASE b \notin Logged
    <3> DEFINE r == <<p, Cardinality(wrote[p]) + 1>>
    <3>1. b \notin wrote[p] /\ Cardinality(wrote[p]) < MaxOpBlocks
      BY <1>0, <1>12, <2>4, Zenon
    <3>2. r \in Reserved
      BY <1>0, <1>12, <3>1, LogAssumption DEF Reserved
    <3>3. Reserved' \in SUBSET (Reserved \ {r})
      <4> SUFFICES ASSUME NEW x \in Reserved' PROVE x \in Reserved /\ x # r
        BY Zenon
      <4>1. x \in Procs \X (1..MaxOpBlocks) /\ pc[x[1]] = "op" /\ x[2] > Cardinality(wrote'[x[1]])
        BY <1>0, Zenon DEF Reserved
      <4>2. CASE x[1] = p
        <5>1. x[2] \in Nat /\ x[2] > Cardinality(wrote[p]) + 1
          <6>1. x[2] \in Nat
            BY <4>1
          <6>2. Cardinality(wrote'[p]) = Cardinality(wrote[p]) + 1
            BY <1>13, <3>1, Zenon
          <6>3. x[2] > Cardinality(wrote'[p])
            BY <4>1, <4>2, Zenon
          <6> QED
            BY <6>1, <6>2, <6>3, Zenon
        <5>2. x[2] > Cardinality(wrote[x[1]]) /\ x[2] # r[2]
          BY <1>12, <4>2, <5>1
        <5> QED
          BY <4>1, <5>2, Zenon DEF Reserved
      <4>3. CASE x[1] # p
        BY <1>12, <4>1, <4>3 DEF Reserved
      <4> QED
        BY <4>2, <4>3, Zenon
    <3> HIDE DEF r
    <3>4. IsFiniteSet(Reserved \ {r}) /\ Cardinality(Reserved \ {r}) = Cardinality(Reserved) - 1
      BY <2>1, <3>2, FS_RemoveElement, Zenon
    <3>5. Cardinality(Reserved') <= Cardinality(Reserved \ {r}) /\ Cardinality(Reserved') \in Nat
      BY <3>3, <3>4, FS_Subset, FS_CardinalityType, Zenon
    <3>6. Len(lh') = Len(lh) + 1 /\ Len(lh) \in Nat
      BY <1>0, <1>3, <2>4
    <3> QED
      BY <2>1, <3>4, <3>5, <3>6, LogAssumption DEF ReservationKept
  <2> QED
    BY <2>3, <2>4, Zenon
<1>16. SleeperHasWaker'
  BY <1>0, <1>6, Zenon DEF SleeperHasWaker
<1> QED
  BY <1>5, <1>7, <1>8, <1>9, <1>10, <1>11, <1>14, <1>15, <1>16, Zenon

\* A panic stops the kernel as it is.
LEMMA LogWritePanicsInv ==
  ASSUME LogInv, NEW p \in Procs, NEW b \in Blocks, phase # "panic", LogWritePanics(p, b)
  PROVE  LogInv'
<1>0. /\ UNCHANGED <<home, dlog, dhead, cache, pins, outstanding, committing, lh, pc, wrote, tail>>
      /\ phase' = "panic"
  BY Zenon DEF LogWritePanics, disk, bufs, log, procs
<1>1. TypeOK'
  BY <1>0, Zenon DEF LogInv, TypeOK, Phases
<1>2. HeadInv' /\ CallInv' /\ DiskInv' /\ CacheInv' /\ PinnedWhileLogged'
  BY <1>0 DEF LogInv, HeadInv, Injective1, CallInv, InOp, DiskInv, CacheInv, PinnedWhileLogged
<1>3. WroteInv' /\ ReservationKept' /\ SleeperHasWaker'
  BY <1>0, Zenon DEF LogInv, WroteInv, Logged, ReservationKept, Reserved, SleeperHasWaker, InOp
<1> QED
  BY <1>1, <1>2, <1>3, Zenon DEF LogInv

\* end_op keeps the invariant, of the last call too, which starts the commit.
LEMMA EndOpInv ==
  ASSUME LogInv, NEW p \in Procs, phase # "panic", EndOp(p)
  PROVE  LogInv'
<1> USE DEF LogInv
<1>1. pc[p] = "op" /\ phase = "none" /\ committing = 0 /\ p \in InOp /\ dhead = << >>
  BY InOpPhase, Zenon DEF EndOp
<1>2. /\ UNCHANGED <<home, dlog, dhead, cache, pins, lh>>
      /\ outstanding' = outstanding - 1 /\ tail' = 1
      /\ wrote' = [wrote EXCEPT ![p] = {}]
  BY Zenon DEF EndOp, disk, bufs
<1>3. IsFiniteSet(InOp) /\ outstanding = Cardinality(InOp) /\ outstanding \in Nat
  BY FiniteFacts, Zenon DEF CallInv
<1>4. outstanding - 1 = Cardinality(InOp \ {p}) /\ IsFiniteSet(InOp \ {p}) /\ outstanding - 1 \in Nat
  <2>1. IsFiniteSet(InOp \ {p}) /\ outstanding - 1 = Cardinality(InOp \ {p})
    BY <1>1, <1>3, FS_RemoveElement, Zenon
  <2>2. Cardinality(InOp \ {p}) \in Nat
    BY <2>1, FS_CardinalityType, Zenon
  <2> QED
    BY <2>1, <2>2, Zenon
<1>5. outstanding = 1 <=> InOp \ {p} = {}
  <2> DEFINE S == InOp \ {p}
  <2>1. IsFiniteSet(S) /\ outstanding - 1 = Cardinality(S)
    BY <1>4, Zenon
  <2> HIDE DEF S
  <2>2. Cardinality(S) = 0 <=> S = {}
    BY <2>1, FS_EmptySet, Zenon
  <2>3. outstanding = 1 <=> S = {}
    BY <1>3, <2>1, <2>2
  <2> QED
    BY <2>3, Zenon DEF S
<1>6. pc' \in [Procs -> PCs] /\ InOp' = InOp \ {p} /\ phase' \in {"none", "log", "done"} /\ committing' \in {0, 1}
  <2>1. CASE outstanding = 1
    BY <1>1, <2>1 DEF EndOp, InOp, TypeOK, PCs
  <2>2. CASE outstanding # 1
    <3>1. pc' = [wakeup EXCEPT ![p] = "idle"] /\ phase' = phase /\ committing' = committing
      BY <1>1, <2>2 DEF EndOp
    <3>2. wakeup \in [Procs -> PCs] /\ \A q \in Procs : wakeup[q] = "op" <=> pc[q] = "op"
      BY Zenon DEF wakeup, TypeOK, PCs
    <3>3. pc' \in [Procs -> PCs] /\ \A q \in Procs : pc'[q] = "op" <=> q # p /\ pc[q] = "op"
      BY <3>1, <3>2, Zenon DEF PCs
    <3> QED
      BY <1>1, <3>1, <3>3, Zenon DEF InOp
  <2> QED
    BY <2>1, <2>2, Zenon
<1>7. TypeOK'
  <2>1. wrote' \in [Procs -> SUBSET Blocks] /\ outstanding' \in Nat
    BY <1>2, <1>4, Zenon DEF TypeOK
  <2> QED
    BY <1>2, <1>6, <2>1 DEF TypeOK, Phases, RecoveryPhases
<1>8. HeadInv' /\ CacheInv'
  BY <1>2, Zenon DEF HeadInv, Injective1, CacheInv
<1>9. WroteInv'
  <2>1. Cardinality({}) = 0
    BY FS_EmptySet, Zenon
  <2>2. ASSUME NEW q \in Procs, q # p
        PROVE  wrote'[q] = wrote[q] /\ (pc'[q] = "op" <=> pc[q] = "op")
    BY <1>2, <1>6, <2>2, Zenon DEF TypeOK, InOp
  <2>3. wrote'[p] = {} /\ Logged' = Logged
    BY <1>2, Zenon DEF TypeOK, Logged
  <2>4. \A q \in Procs : q # p =>
          /\ Cardinality(wrote'[q]) <= MaxOpBlocks
          /\ pc'[q] = "op" => wrote'[q] \subseteq Logged'
          /\ pc'[q] # "op" => wrote'[q] = {}
    BY <2>2, <2>3, Zenon DEF WroteInv
  <2>5. Cardinality(wrote'[p]) <= MaxOpBlocks
    BY <2>1, <2>3, LogAssumption
  <2> QED
    BY <2>3, <2>4, <2>5, Zenon DEF WroteInv
<1>10. ReservationKept'
  <2>1. Reserved' \in SUBSET Reserved
    <3> SUFFICES ASSUME NEW x \in Reserved' PROVE x \in Reserved
      BY Zenon
    <3>1. x \in Procs \X (1..MaxOpBlocks) /\ pc'[x[1]] = "op" /\ x[2] > Cardinality(wrote'[x[1]])
      BY Zenon DEF Reserved
    <3>2. x[1] \in InOp \ {p}
      BY <1>6, <3>1, Zenon DEF InOp
    <3>3. wrote'[x[1]] = wrote[x[1]] /\ pc[x[1]] = "op"
      BY <1>2, <3>2, Zenon DEF TypeOK, InOp
    <3> QED
      BY <3>1, <3>3, Zenon DEF Reserved
  <2>2. /\ IsFiniteSet(Reserved) /\ Cardinality(Reserved) \in Nat
        /\ Cardinality(Reserved') <= Cardinality(Reserved) /\ Cardinality(Reserved') \in Nat
    BY <2>1, FiniteFacts, FS_Subset, FS_CardinalityType, Zenon
  <2>3. Len(lh') = Len(lh) /\ Len(lh) \in Nat
    BY <1>2 DEF TypeOK
  <2> QED
    BY <2>2, <2>3, LogAssumption DEF ReservationKept
<1>11. \A c \in Blocks : pins[c] = 1 <=> \E t \in 1..Len(lh) : lh[t] = c
  BY <1>1, Zenon DEF PinnedWhileLogged, RecoveryPhases
<1>12. \A q \in Procs : pc[q] # "commit"
  BY <1>1 DEF CallInv
<1>13. CASE outstanding = 1
  <2>1. pc' = [pc EXCEPT ![p] = "commit"] /\ committing' = 1
        /\ phase' = (IF lh = << >> THEN "done" ELSE "log") /\ InOp' = {}
    BY <1>1, <1>5, <1>6, <1>13, Zenon DEF EndOp
  <2>2. \A q \in Procs : pc'[q] = "commit" <=> q = p
    BY <1>12, <2>1, Zenon DEF TypeOK
  <2>3. CallInv'
    BY <1>2, <1>4, <1>6, <2>1, <2>2, Zenon DEF CallInv, CommitPhases, RecoveryPhases
  <2>4. DiskInv'
    <3>1. Len(lh) \in Nat /\ (lh # << >> => 1 <= Len(lh))
      BY DEF TypeOK
    <3> QED
      BY <1>1, <1>2, <2>1, <3>1 DEF DiskInv, Logs
  <2>5. PinnedWhileLogged'
    BY <1>2, <1>11, <2>1, Zenon DEF PinnedWhileLogged, RecoveryPhases
  <2>6. SleeperHasWaker'
    BY <2>2, Zenon DEF SleeperHasWaker
  <2> QED
    BY <1>7, <1>8, <1>9, <1>10, <2>3, <2>4, <2>5, <2>6, Zenon
<1>14. CASE outstanding # 1
  <2>1. pc' = [wakeup EXCEPT ![p] = "idle"] /\ committing' = 0 /\ phase' = "none" /\ InOp' # {}
    BY <1>1, <1>5, <1>6, <1>14, Zenon DEF EndOp
  <2>2. \A q \in Procs : pc'[q] # "commit" /\ pc'[q] # "asleep"
    BY <1>12, <2>1, Zenon DEF TypeOK, wakeup
  <2>3. CallInv'
    BY <1>2, <1>4, <1>6, <2>1, <2>2 DEF CallInv, CommitPhases, RecoveryPhases
  <2>4. DiskInv'
    BY <1>1, <1>2, <2>1, Zenon DEF DiskInv
  <2>5. PinnedWhileLogged'
    BY <1>2, <1>11, <2>1, Zenon DEF PinnedWhileLogged, RecoveryPhases
  <2>6. SleeperHasWaker'
    BY <2>2, Zenon DEF SleeperHasWaker
  <2> QED
    BY <1>7, <1>8, <1>9, <1>10, <2>3, <2>4, <2>5, <2>6, Zenon
<1> QED
  BY <1>13, <1>14, Zenon

\* Facts shared by the steps that leave all processes where they are.
LEMMA StillInv ==
  ASSUME LogInv, TypeOK', pc' = pc, wrote' = wrote,
         lh' = lh \/ (InOp = {} /\ Len(lh') <= LogSize)
  PROVE  InOp' = InOp /\ WroteInv' /\ ReservationKept' /\ SleeperHasWaker'
<1> USE DEF LogInv
<1>1. InOp' = InOp
  BY Zenon DEF InOp
<1>2. WroteInv'
  <2>1. CASE lh' = lh
    BY <2>1, Zenon DEF WroteInv, Logged
  <2>2. CASE InOp = {}
    BY <2>2, Zenon DEF WroteInv, InOp
  <2> QED
    BY <2>1, <2>2, Zenon
<1>3. ReservationKept'
  <2>1. Reserved' = Reserved
    BY Zenon DEF Reserved
  <2>2. CASE lh' = lh
    BY <2>1, <2>2, Zenon DEF ReservationKept
  <2>3. CASE InOp = {} /\ Len(lh') <= LogSize
    <3>1. Reserved = {}
      BY <2>3, Zenon DEF Reserved, InOp
    <3>2. Cardinality(Reserved') = 0
      BY <2>1, <3>1, FS_EmptySet, Zenon
    <3>3. Len(lh') \in Nat
      BY DEF TypeOK
    <3> QED
      BY <2>3, <3>2, <3>3, LogAssumption DEF ReservationKept
  <2> QED
    BY <2>2, <2>3, Zenon
<1>4. SleeperHasWaker'
  BY <1>1, Zenon DEF SleeperHasWaker
<1> QED
  BY <1>1, <1>2, <1>3, <1>4, Zenon

\* write_log keeps the invariant: the log blocks are not read before the header counts them.
LEMMA WriteLogInv ==
  ASSUME LogInv, WriteLog
  PROVE  LogInv'
<1> USE DEF LogInv
<1>0. /\ UNCHANGED <<home, dhead, pins, outstanding, committing, lh, pc, wrote>>
      /\ phase = "log" /\ tail \in 1..Len(lh) /\ Len(lh) \in Nat /\ tail \in LogBlocks
      /\ dlog' = [dlog EXCEPT ![tail] = bread(lh[tail])]
      /\ cache' = [cache EXCEPT ![lh[tail]] = bread(lh[tail])]
      /\ tail' = tail + 1
      /\ phase' = IF tail = Len(lh) THEN "head" ELSE phase
      /\ lh[tail] \in Blocks
  BY LogAssumption DEF WriteLog, log, procs, TypeOK, HeadInv, LogBlocks
<1>1. \A b \in Blocks : bread(b) \in Vals /\ bread(b) # None
  BY LogAssumption DEF TypeOK, bread
<1>2. TypeOK'
  BY <1>0, <1>1 DEF TypeOK, Phases, RecoveryPhases
<1>3. InOp' = InOp /\ WroteInv' /\ ReservationKept' /\ SleeperHasWaker'
  BY <1>0, <1>2, StillInv, Zenon
<1>4. \A b \in Blocks : bread(b)' = bread(b)
  BY <1>0, <1>1, Zenon DEF bread, TypeOK
<1>5. HeadInv' /\ CallInv'
  BY <1>0, <1>3 DEF HeadInv, Injective1, CallInv, CommitPhases, RecoveryPhases
<1>6. PinnedWhileLogged'
  BY <1>0, Zenon DEF PinnedWhileLogged, RecoveryPhases
<1>7. CacheInv'
  BY <1>0, <1>1, Zenon DEF CacheInv, TypeOK, bread
<1>8. DiskInv'
  <2>1. \A t \in 1..tail : dlog'[t] = bread(lh[t])
    BY <1>0 DEF DiskInv, Logs, TypeOK
  <2>2. \A t \in 1..Len(lh) : bread(lh[t])' = bread(lh[t])
    <3>1. \A t \in 1..Len(lh) : lh[t] \in Blocks /\ lh'[t] = lh[t]
      BY <1>0 DEF TypeOK
    <3> QED
      BY <1>0, <3>1, <1>4, Zenon DEF bread
  <2>3. \A t \in 1..tail : dlog'[t] = bread(lh[t])'
    BY <1>0, <2>1, <2>2
  <2>4. CASE tail = Len(lh)
    BY <1>0, <2>3, <2>4, Zenon DEF DiskInv, Logs
  <2>5. CASE tail # Len(lh)
    <3>1. tail' - 1 = tail /\ tail' <= Len(lh) /\ phase' = "log"
      BY <1>0, <2>5
    <3> QED
      BY <1>0, <2>3, <3>1, Zenon DEF DiskInv, Logs
  <2> QED
    BY <2>4, <2>5, Zenon
<1> QED
  BY <1>2, <1>3, <1>5, <1>6, <1>7, <1>8, Zenon

\* write_head, the commit point, keeps the invariant.
LEMMA WriteHeadInv ==
  ASSUME LogInv, WriteHead
  PROVE  LogInv'
<1> USE DEF LogInv
<1>0. /\ UNCHANGED <<home, dlog, cache, pins, outstanding, committing, lh, pc, wrote>>
      /\ phase = "head" /\ phase' = "install" /\ tail' = 1 /\ dhead' = lh
  BY Zenon DEF WriteHead, bufs, log, procs
<1>1. TypeOK'
  BY <1>0 DEF TypeOK, Phases, RecoveryPhases
<1>2. InOp' = InOp /\ WroteInv' /\ ReservationKept' /\ SleeperHasWaker'
  BY <1>0, <1>1, StillInv, Zenon
<1>3. HeadInv' /\ CallInv' /\ CacheInv'
  BY <1>0, <1>2 DEF HeadInv, Injective1, CallInv, CommitPhases, RecoveryPhases, CacheInv
<1>4. PinnedWhileLogged'
  BY <1>0 DEF PinnedWhileLogged, RecoveryPhases
<1>5. DiskInv'
  <2>1. Len(lh) \in Nat /\ lh # << >> /\ 1 <= Len(lh)
    BY <1>0 DEF DiskInv, TypeOK
  <2>2. Logs(Len(lh))'
    BY <1>0, Zenon DEF DiskInv, Logs, bread
  <2>3. Installed(lh, tail - 1)'
    BY <1>0 DEF Installed
  <2> QED
    BY <1>0, <2>1, <2>2, <2>3, Zenon DEF DiskInv
<1> QED
  BY <1>1, <1>2, <1>3, <1>4, <1>5, Zenon

\* What a turn of install_trans does, in commit and in recovery.
LEMMA InstallFacts ==
  ASSUME LogInv, NEW rec \in {0, 1}, InstallBlock(rec), tail <= Len(lh), dhead = lh, Installed(lh, tail - 1),
         UNCHANGED <<dlog, dhead>>
  PROVE  /\ tail \in LogBlocks /\ tail \in 1..Len(lh) /\ Len(lh) \in Nat /\ lh[tail] \in Blocks
         /\ home' \in [Blocks -> Vals] /\ cache' \in [Blocks -> Vals \cup {None}] /\ tail' \in Nat \ {0}
         /\ home'[lh[tail]] = dlog[tail] /\ cache'[lh[tail]] = dlog[tail] /\ dlog[tail] \in Vals
         /\ \A b \in Blocks \ {lh[tail]} : home'[b] = home[b] /\ cache'[b] = cache[b]
         /\ \A t \in 1..tail : home'[lh[t]] = dlog[t]
<1> USE DEF LogInv
<1>1. tail \in LogBlocks /\ tail \in 1..Len(lh) /\ Len(lh) \in Nat /\ lh[tail] \in Blocks
  BY LogAssumption DEF TypeOK, HeadInv, LogBlocks
<1>2. /\ home' = [home EXCEPT ![lh[tail]] = dlog[tail]]
      /\ cache' = [cache EXCEPT ![lh[tail]] = dlog[tail]]
      /\ tail' = tail + 1
  BY Zenon DEF InstallBlock
<1>3. dlog[tail] \in Vals
  BY <1>1, Zenon DEF TypeOK
<1>4. /\ home' \in [Blocks -> Vals] /\ cache' \in [Blocks -> Vals \cup {None}] /\ tail' \in Nat \ {0}
      /\ home'[lh[tail]] = dlog[tail] /\ cache'[lh[tail]] = dlog[tail]
      /\ \A b \in Blocks \ {lh[tail]} : home'[b] = home[b] /\ cache'[b] = cache[b]
  BY <1>1, <1>2, <1>3 DEF TypeOK
<1>5. ASSUME NEW t \in 1..tail PROVE home'[lh[t]] = dlog[t]
  <2>1. CASE t = tail
    BY <1>4, <2>1, Zenon
  <2>2. CASE t # tail
    <3>1. t \in 1..tail-1 /\ t \in 1..Len(lh) /\ lh[t] \in Blocks /\ lh[t] # lh[tail]
      BY <1>1, <2>2 DEF HeadInv, Injective1, TypeOK
    <3> QED
      BY <1>4, <3>1, Zenon DEF Installed
  <2> QED
    BY <2>1, <2>2, Zenon
<1> QED
  BY <1>1, <1>3, <1>4, <1>5, Zenon

\* install_trans keeps the invariant: the header still names every block it has to copy.
LEMMA InstallTransInv ==
  ASSUME LogInv, InstallTrans
  PROVE  LogInv'
<1> USE DEF LogInv
<1>0. /\ UNCHANGED <<dlog, dhead, outstanding, committing, pc, wrote>>
      /\ phase = "install" /\ tail <= Len(lh) /\ InstallBlock(0)
      /\ tail' = tail + 1 /\ pins' = [pins EXCEPT ![lh[tail]] = @ - 1]
      /\ phase' = (IF tail = Len(lh) THEN "clear" ELSE "install")
      /\ lh' = (IF tail = Len(lh) THEN << >> ELSE lh)
  BY DEF InstallTrans, InstallBlock, procs
<1>1. dhead = lh /\ Installed(lh, tail - 1) /\ Logs(Len(lh)) /\ lh # << >>
  BY <1>0, Zenon DEF DiskInv
<1>2. /\ tail \in LogBlocks /\ tail \in 1..Len(lh) /\ Len(lh) \in Nat /\ lh[tail] \in Blocks
      /\ home' \in [Blocks -> Vals] /\ cache' \in [Blocks -> Vals \cup {None}] /\ tail' \in Nat \ {0}
      /\ home'[lh[tail]] = dlog[tail] /\ cache'[lh[tail]] = dlog[tail] /\ dlog[tail] \in Vals
      /\ \A b \in Blocks \ {lh[tail]} : home'[b] = home[b] /\ cache'[b] = cache[b]
      /\ \A t \in 1..tail : home'[lh[t]] = dlog[t]
  BY <1>0, <1>1, InstallFacts, Zenon
<1>3. \A b \in Blocks : pins[b] = 1 <=> \E t \in tail..Len(lh) : lh[t] = b
  <2>1. \A b \in Blocks : pins[b] = 1 <=> \E t \in 1..Len(lh) : lh[t] = b /\ t >= tail
    BY <1>0, Zenon DEF PinnedWhileLogged, RecoveryPhases
  <2>2. \A t \in tail..Len(lh) : t \in 1..Len(lh) /\ t >= tail
    BY <1>2
  <2>3. \A t \in 1..Len(lh) : t >= tail => t \in tail..Len(lh)
    BY <1>2
  <2> QED
    BY <2>1, <2>2, <2>3, Zenon
<1>4. /\ pins[lh[tail]] = 1 /\ pins'[lh[tail]] = 0
      /\ \A b \in Blocks \ {lh[tail]} : pins'[b] = pins[b]
      /\ pins' \in [Blocks -> {0, 1}]
  <2>1. pins[lh[tail]] = 1
    <3>1. tail \in tail..Len(lh) /\ lh[tail] \in Blocks
      BY <1>2
    <3> QED
      BY <1>3, <3>1, Zenon
  <2> QED
    BY <1>0, <1>2, <2>1 DEF TypeOK
<1>5. TypeOK'
  BY <1>0, <1>2, <1>4 DEF TypeOK, Phases, RecoveryPhases
<1>6. InOp = {}
  BY <1>0, Zenon DEF CallInv
<1>7. InOp' = InOp /\ WroteInv' /\ ReservationKept' /\ SleeperHasWaker'
  <2>1. lh' = lh \/ (InOp = {} /\ Len(lh') <= LogSize)
    BY <1>0, <1>6, LogAssumption
  <2> QED
    BY <1>0, <1>5, <2>1, StillInv, Zenon
<1>8. HeadInv' /\ CallInv'
  BY <1>0, <1>6, <1>7, LogAssumption DEF HeadInv, Injective1, CallInv, CommitPhases, RecoveryPhases
<1>9. CacheInv'
  <2>1. cache'[lh[tail]] = home'[lh[tail]] /\ pins'[lh[tail]] = 0
    BY <1>2, <1>4, Zenon
  <2>2. ASSUME NEW b \in Blocks \ {lh[tail]}
        PROVE  (pins'[b] = 0 => cache'[b] \in {None, home'[b]}) /\ (pins'[b] = 1 => cache'[b] # None)
    <3>1. pins'[b] = pins[b] /\ cache'[b] = cache[b] /\ home'[b] = home[b]
      BY <1>2, <1>4, Zenon
    <3>2. (pins[b] = 0 => cache[b] \in {None, home[b]}) /\ (pins[b] = 1 => cache[b] # None)
      BY Zenon DEF CacheInv
    <3> QED
      BY <3>1, <3>2, Zenon
  <2>3. ASSUME NEW b \in Blocks
        PROVE  (pins'[b] = 0 => cache'[b] \in {None, home'[b]}) /\ (pins'[b] = 1 => cache'[b] # None)
    BY <2>1, <2>2
  <2> QED
    BY <2>3, Zenon DEF CacheInv
<1>10. CASE tail = Len(lh)
  <2>1. \A b \in Blocks : pins'[b] = 0
    BY <1>2, <1>3, <1>4, <1>10 DEF TypeOK
  <2>2. PinnedWhileLogged'
    BY <1>0, <1>10, <2>1 DEF PinnedWhileLogged, RecoveryPhases
  <2>3. DiskInv'
    <3>1. Installed(dhead, Len(dhead))'
      BY <1>0, <1>1, <1>2, <1>10, Zenon DEF Installed
    <3> QED
      BY <1>0, <1>10, <3>1, Zenon DEF DiskInv
  <2> QED
    BY <1>5, <1>7, <1>8, <1>9, <2>2, <2>3, Zenon
<1>11. CASE tail # Len(lh)
  <2>1. \A b \in Blocks : pins'[b] = 1 <=> \E t \in tail+1..Len(lh) : lh[t] = b
    <3>1. \A t \in tail+1..Len(lh) : lh[t] # lh[tail]
      BY <1>2 DEF HeadInv, Injective1
    <3>2. \A t \in tail..Len(lh) : t = tail \/ t \in tail+1..Len(lh)
      BY <1>2
    <3>3. \A t \in tail+1..Len(lh) : t \in tail..Len(lh)
      BY <1>2
    <3>4. ASSUME NEW b \in Blocks \ {lh[tail]}
          PROVE  pins'[b] = 1 <=> \E t \in tail+1..Len(lh) : lh[t] = b
      BY <1>3, <1>4, <3>2, <3>3, Zenon
    <3> QED
      BY <1>4, <3>1, <3>4
  <2>2. PinnedWhileLogged'
    <3>1. phase' = "install" /\ lh' = lh /\ tail' = tail + 1
      BY <1>0, <1>11, Zenon
    <3>2. \A t \in 1..Len(lh) : t >= tail + 1 <=> t \in tail+1..Len(lh)
      BY <1>2
    <3>3. \A t \in tail+1..Len(lh) : t \in 1..Len(lh)
      BY <1>2
    <3> QED
      BY <2>1, <3>1, <3>2, <3>3, Zenon DEF PinnedWhileLogged, RecoveryPhases
  <2>3. Logs(Len(lh))'
    <3>1. lh' = lh /\ dlog' = dlog
      BY <1>0, <1>11, Zenon
    <3>2. ASSUME NEW t \in 1..Len(lh) PROVE dlog[t] = (IF cache'[lh[t]] # None THEN cache'[lh[t]] ELSE home'[lh[t]])
      <4>1. lh[t] \in Blocks
        BY DEF TypeOK
      <4>2. CASE lh[t] = lh[tail]
        <5>1. t = tail
          BY <1>2, <4>2, Zenon DEF HeadInv, Injective1
        <5> QED
          BY <1>2, <5>1, LogAssumption, Zenon
      <4>3. CASE lh[t] # lh[tail]
        BY <1>1, <1>2, <4>1, <4>3, Zenon DEF Logs, bread
      <4> QED
        BY <4>2, <4>3, Zenon
    <3> QED
      BY <3>1, <3>2, Zenon DEF Logs, bread
  <2>4. Installed(lh, tail - 1)'
    <3>1. lh' = lh /\ dlog' = dlog /\ tail' - 1 = tail
      BY <1>0, <1>2, <1>11
    <3> QED
      BY <1>2, <3>1, Zenon DEF Installed
  <2>5. phase' = "install" /\ lh' # << >> /\ tail' <= Len(lh') /\ dhead' = lh'
    BY <1>0, <1>1, <1>2, <1>11
  <2>6. DiskInv'
    BY <2>3, <2>4, <2>5, Zenon DEF DiskInv
  <2> QED
    BY <1>5, <1>7, <1>8, <1>9, <2>2, <2>6, Zenon
<1> QED
  BY <1>10, <1>11, Zenon

\* Installing again after a crash keeps the invariant.
LEMMA ReinstallInv ==
  ASSUME LogInv, Reinstall
  PROVE  LogInv'
<1> USE DEF LogInv
<1>0. /\ UNCHANGED <<dlog, dhead, pins, outstanding, committing, pc, wrote>>
      /\ phase = "reinstall" /\ tail <= Len(lh) /\ InstallBlock(1)
      /\ tail' = tail + 1
      /\ phase' = (IF tail = Len(lh) THEN "reclear" ELSE "reinstall")
      /\ lh' = (IF tail = Len(lh) THEN << >> ELSE lh)
  BY Zenon DEF Reinstall, InstallBlock, procs
<1>1. dhead = lh /\ Installed(lh, tail - 1) /\ lh # << >>
  BY <1>0, Zenon DEF DiskInv
<1>2. /\ tail \in LogBlocks /\ tail \in 1..Len(lh) /\ Len(lh) \in Nat /\ lh[tail] \in Blocks
      /\ home' \in [Blocks -> Vals] /\ cache' \in [Blocks -> Vals \cup {None}] /\ tail' \in Nat \ {0}
      /\ home'[lh[tail]] = dlog[tail] /\ cache'[lh[tail]] = dlog[tail] /\ dlog[tail] \in Vals
      /\ \A b \in Blocks \ {lh[tail]} : home'[b] = home[b] /\ cache'[b] = cache[b]
      /\ \A t \in 1..tail : home'[lh[t]] = dlog[t]
  BY <1>0, <1>1, InstallFacts, Zenon
<1>3. TypeOK'
  BY <1>0, <1>2 DEF TypeOK, Phases, RecoveryPhases
<1>4. InOp = {}
  BY <1>0, Zenon DEF CallInv
<1>5. InOp' = InOp /\ WroteInv' /\ ReservationKept' /\ SleeperHasWaker'
  <2>1. lh' = lh \/ (InOp = {} /\ Len(lh') <= LogSize)
    BY <1>0, <1>4, LogAssumption
  <2> QED
    BY <1>0, <1>3, <2>1, StillInv, Zenon
<1>6. HeadInv' /\ CallInv'
  BY <1>0, <1>4, <1>5, LogAssumption DEF HeadInv, Injective1, CallInv, CommitPhases, RecoveryPhases
<1>7. \A b \in Blocks : pins[b] # 1
  BY <1>0, Zenon DEF PinnedWhileLogged, RecoveryPhases
<1>8. PinnedWhileLogged'
  BY <1>0, <1>7, Zenon DEF PinnedWhileLogged, RecoveryPhases
<1>9. CacheInv'
  <2>1. cache'[lh[tail]] = home'[lh[tail]]
    BY <1>2, Zenon
  <2> QED
    BY <1>0, <1>2, <1>7, <2>1, Zenon DEF CacheInv
<1>10. DiskInv'
  <2>1. CASE tail = Len(lh)
    <3>1. Installed(dhead, Len(dhead))'
      BY <1>0, <1>1, <1>2, <2>1, Zenon DEF Installed
    <3> QED
      BY <1>0, <2>1, <3>1, Zenon DEF DiskInv
  <2>2. CASE tail # Len(lh)
    <3>1. lh' = lh /\ dlog' = dlog /\ tail' - 1 = tail /\ tail' <= Len(lh)
      BY <1>0, <1>2, <2>2
    <3>2. Installed(lh, tail - 1)'
      BY <1>2, <3>1, Zenon DEF Installed
    <3> QED
      BY <1>0, <1>1, <2>2, <3>1, <3>2, Zenon DEF DiskInv
  <2> QED
    BY <2>1, <2>2, Zenon
<1> QED
  BY <1>3, <1>5, <1>6, <1>8, <1>9, <1>10, Zenon

\* The two steps that clear the log.
LEMMA ClearInv ==
  ASSUME LogInv, ClearHead \/ Reclear
  PROVE  LogInv'
<1> USE DEF LogInv
<1>0. /\ UNCHANGED <<home, dlog, cache, pins, outstanding, committing, lh, pc, wrote, tail>>
      /\ dhead' = lh
      /\ (phase = "clear" /\ phase' = "done") \/ (phase = "reclear" /\ phase' = "none")
  BY Zenon DEF ClearHead, Reclear, bufs, log, procs
<1>1. lh = << >>
  BY <1>0, Zenon DEF DiskInv
<1>2. TypeOK'
  BY <1>0, Zenon DEF TypeOK, Phases, RecoveryPhases
<1>3. InOp' = InOp /\ WroteInv' /\ ReservationKept' /\ SleeperHasWaker'
  BY <1>0, <1>2, StillInv, Zenon
<1>4. HeadInv' /\ CallInv' /\ CacheInv'
  BY <1>0, <1>1, <1>3 DEF HeadInv, Injective1, CallInv, CommitPhases, RecoveryPhases, CacheInv
<1>5. PinnedWhileLogged'
  BY <1>0, <1>1 DEF PinnedWhileLogged, RecoveryPhases
<1>6. DiskInv'
  BY <1>0, <1>1, Zenon DEF DiskInv
<1> QED
  BY <1>2, <1>3, <1>4, <1>5, <1>6, Zenon

\* The end of commit, or of the recovery, keeps the invariant.
LEMMA CommitDoneInv ==
  ASSUME LogInv, NEW p \in Procs, CommitDone(p)
  PROVE  LogInv'
<1> USE DEF LogInv
<1>0. /\ UNCHANGED <<home, dlog, dhead, cache, pins, outstanding, lh, wrote, tail>>
      /\ pc[p] = "commit" /\ phase = "done" /\ phase' = "none" /\ committing' = 0
      /\ pc' = [wakeup EXCEPT ![p] = "idle"]
  BY Zenon DEF CommitDone, disk, bufs
<1>1. lh = << >> /\ dhead = << >> /\ InOp = {}
  BY <1>0, Zenon DEF DiskInv, CallInv
<1>2. wakeup \in [Procs -> PCs] /\ \A q \in Procs : wakeup[q] # "asleep" /\ wakeup[q] # "op"
  BY <1>1, Zenon DEF wakeup, TypeOK, PCs, InOp
<1>3. /\ pc' \in [Procs -> PCs]
      /\ \A q \in Procs : pc'[q] # "asleep" /\ pc'[q] # "op"
  BY <1>0, <1>2, Zenon DEF PCs
<1>4. \A q \in Procs : pc'[q] # "commit"
  <2>1. \A q \in Procs : q # p => pc[q] # "commit"
    BY <1>0, Zenon DEF CallInv
  <2> QED
    BY <1>0, <1>2, <2>1, Zenon DEF wakeup, PCs
<1>5. TypeOK'
  BY <1>0, <1>3, Zenon DEF TypeOK, Phases
<1>6. InOp' = {}
  BY <1>3, Zenon DEF InOp
<1>7. HeadInv' /\ CacheInv' /\ DiskInv'
  <2>1. HeadInv'
    BY <1>0, Zenon DEF HeadInv, Injective1
  <2>2. CacheInv'
    BY <1>0, Zenon DEF CacheInv
  <2>3. DiskInv'
    BY <1>0, <1>1, Zenon DEF DiskInv
  <2> QED
    BY <2>1, <2>2, <2>3, Zenon
<1>8. CallInv'
  BY <1>0, <1>1, <1>4, <1>6 DEF CallInv, CommitPhases, RecoveryPhases
<1>9. PinnedWhileLogged'
  BY <1>0, <1>1, Zenon DEF PinnedWhileLogged, RecoveryPhases
<1>10. WroteInv'
  BY <1>0, <1>1, <1>3, Zenon DEF WroteInv, InOp
<1>11. ReservationKept'
  <2>1. Reserved' = Reserved
    BY <1>0, <1>1, <1>3, Zenon DEF Reserved, InOp
  <2> QED
    BY <1>0, <2>1, Zenon DEF ReservationKept
<1>12. SleeperHasWaker'
  BY <1>3, Zenon DEF SleeperHasWaker
<1> QED
  BY <1>5, <1>7, <1>8, <1>9, <1>10, <1>11, <1>12, Zenon

\* read_head at boot keeps the invariant.
LEMMA ReadHeadInv ==
  ASSUME LogInv, ReadHead
  PROVE  LogInv'
<1> USE DEF LogInv
<1>0. /\ UNCHANGED <<home, dlog, dhead, cache, pins, outstanding, committing, pc, wrote>>
      /\ phase = "boot" /\ lh' = dhead /\ tail' = 1
      /\ phase' = IF dhead = << >> THEN "reclear" ELSE "reinstall"
  BY Zenon DEF ReadHead, disk, bufs, procs
<1>1. TypeOK'
  BY <1>0 DEF TypeOK, Phases, RecoveryPhases
<1>2. InOp = {}
  BY <1>0, Zenon DEF CallInv
<1>3. InOp' = InOp /\ WroteInv' /\ ReservationKept' /\ SleeperHasWaker'
  <2>1. InOp = {} /\ Len(lh') <= LogSize
    BY <1>0, <1>2, Zenon DEF HeadInv
  <2> QED
    BY <1>0, <1>1, <2>1, StillInv, Zenon
<1>4. HeadInv' /\ CallInv' /\ CacheInv'
  BY <1>0, <1>2, <1>3, Zenon DEF HeadInv, Injective1, CallInv, CommitPhases, RecoveryPhases, CacheInv
<1>5. PinnedWhileLogged'
  BY <1>0, Zenon DEF PinnedWhileLogged, RecoveryPhases
<1>6. DiskInv'
  <2>1. dhead # << >> => 1 <= Len(dhead)
    BY DEF TypeOK
  <2>2. CASE dhead = << >>
    <3>1. phase' = "reclear" /\ lh' = << >> /\ dhead' = << >>
      BY <1>0, <2>2, Zenon
    <3> QED
      BY <3>1 DEF DiskInv, Installed
  <2>3. CASE dhead # << >>
    <3>1. phase' = "reinstall" /\ lh' # << >> /\ dhead' = lh' /\ tail' = 1 /\ tail' <= Len(lh')
      BY <1>0, <2>1, <2>3, Zenon
    <3>2. Installed(lh, tail - 1)'
      BY <3>1 DEF Installed
    <3> QED
      BY <3>1, <3>2, Zenon DEF DiskInv
  <2> QED
    BY <2>2, <2>3, Zenon
<1> QED
  BY <1>1, <1>3, <1>4, <1>5, <1>6, Zenon

\* The buffer cache reading or dropping a block keeps the invariant.
LEMMA BufferInv ==
  ASSUME LogInv, NEW b \in Blocks, Load(b) \/ Evict(b)
  PROVE  LogInv'
<1> USE DEF LogInv
<1>0. /\ UNCHANGED <<home, dlog, dhead, pins, outstanding, committing, lh, pc, wrote, phase, tail>>
      /\ cache' = [cache EXCEPT ![b] = IF cache[b] = None THEN home[b] ELSE None]
      /\ cache[b] # None => pins[b] = 0
  BY Zenon DEF Load, Evict, disk, log, procs
<1>1. home[b] \in Vals /\ home[b] # None /\ cache[b] \in Vals \cup {None}
  BY LogAssumption DEF TypeOK
<1>2. TypeOK'
  BY <1>0, <1>1, Zenon DEF TypeOK
<1>3. InOp' = InOp /\ WroteInv' /\ ReservationKept' /\ SleeperHasWaker'
  BY <1>0, <1>2, StillInv, Zenon
<1>4. HeadInv' /\ CallInv' /\ PinnedWhileLogged'
  <2>1. HeadInv'
    BY <1>0, Zenon DEF HeadInv, Injective1
  <2>2. CallInv'
    BY <1>0, <1>3, Zenon DEF CallInv
  <2>3. PinnedWhileLogged'
    BY <1>0, Zenon DEF PinnedWhileLogged
  <2> QED
    BY <2>1, <2>2, <2>3, Zenon
<1>5. CacheInv'
  <2>1. pins[b] = 0 /\ cache'[b] \in {None, home[b]}
    BY <1>0, <1>1, Zenon DEF CacheInv, TypeOK
  <2>2. \A c \in Blocks \ {b} : cache'[c] = cache[c]
    BY <1>0, Zenon DEF TypeOK
  <2>3. pins' = pins /\ home' = home
    BY <1>0, Zenon
  <2>4. ASSUME NEW c \in Blocks \ {b}
        PROVE  (pins'[c] = 0 => cache'[c] \in {None, home'[c]}) /\ (pins'[c] = 1 => cache'[c] # None)
    BY <2>2, <2>3, Zenon DEF CacheInv
  <2>5. (pins'[b] = 0 => cache'[b] \in {None, home'[b]}) /\ (pins'[b] = 1 => cache'[b] # None)
    BY <2>1, <2>3
  <2> QED
    BY <2>4, <2>5, Zenon DEF CacheInv
<1>6. \A c \in Blocks : bread(c)' = bread(c)
  <2>1. cache[b] \in {None, home[b]}
    BY <1>0, Zenon DEF CacheInv
  <2> QED
    BY <1>0, <1>1, <2>1, Zenon DEF bread, TypeOK
<1>7. DiskInv'
  <2>1. \A t \in 1..Len(lh) : lh[t] \in Blocks
    BY DEF TypeOK
  <2>2. phase = "log" => tail - 1 <= Len(lh) /\ tail - 1 \in Nat
    BY DEF DiskInv, TypeOK
  <2>3. Len(lh) \in Nat
    BY DEF TypeOK
  <2>4. \A t \in 1..Len(lh) : bread(lh[t])' = bread(lh[t])
    BY <1>0, <1>6, <2>1, Zenon DEF bread
  <2>5. phase = "log" => Logs(tail - 1)'
    BY <1>0, <2>2, <2>3, <2>4 DEF DiskInv, Logs
  <2>6. phase \in {"head", "install"} => Logs(Len(lh))'
    BY <1>0, <2>4, Zenon DEF DiskInv, Logs
  <2> QED
    BY <1>0, <2>5, <2>6, Zenon DEF DiskInv, Installed
<1> QED
  BY <1>2, <1>3, <1>4, <1>5, <1>7, Zenon

\* A crash between any two steps keeps the invariant.
LEMMA CrashInv ==
  ASSUME LogInv, Crash
  PROVE  LogInv'
<1> USE DEF LogInv
<1>0. /\ UNCHANGED <<home, dlog, dhead>>
      /\ cache' = [b \in Blocks |-> None] /\ pins' = [b \in Blocks |-> 0]
      /\ outstanding' = 0 /\ committing' = 0 /\ lh' = << >>
      /\ pc' = [p \in Procs |-> "idle"] /\ wrote' = [p \in Procs |-> {}]
      /\ phase' = "boot" /\ tail' = 1
  BY Zenon DEF Crash, disk
<1>1. TypeOK'
  BY <1>0 DEF TypeOK, PCs, Phases, RecoveryPhases
<1>2. InOp' = {} /\ Reserved' = {}
  BY <1>0, Zenon DEF InOp, Reserved
<1>3. HeadInv' /\ CacheInv' /\ DiskInv' /\ PinnedWhileLogged' /\ SleeperHasWaker'
  <2>1. HeadInv'
    BY <1>0, LogAssumption DEF HeadInv, Injective1
  <2>2. CacheInv' /\ SleeperHasWaker'
    BY <1>0 DEF CacheInv, SleeperHasWaker
  <2>3. DiskInv' /\ PinnedWhileLogged'
    BY <1>0 DEF DiskInv, PinnedWhileLogged, RecoveryPhases
  <2> QED
    BY <2>1, <2>2, <2>3, Zenon
<1>4. CallInv'
  BY <1>0, <1>2, FS_EmptySet DEF CallInv, CommitPhases, RecoveryPhases
<1>5. WroteInv'
  BY <1>0, FS_EmptySet, LogAssumption DEF WroteInv
<1>6. ReservationKept'
  BY <1>0, <1>2, FS_EmptySet, LogAssumption DEF ReservationKept
<1> QED
  BY <1>1, <1>3, <1>4, <1>5, <1>6, Zenon

\* The invariant holds at first.
LEMMA InitLogInv == Init => LogInv
<1> SUFFICES ASSUME Init PROVE LogInv
  BY Zenon
<1> USE DEF Init
<1>1. TypeOK
  BY DEF TypeOK, PCs, Phases, RecoveryPhases
<1>2. InOp = {} /\ Reserved = {}
  BY Zenon DEF InOp, Reserved
<1>3. HeadInv /\ CacheInv /\ DiskInv /\ PinnedWhileLogged /\ SleeperHasWaker
  BY LogAssumption DEF HeadInv, Injective1, CacheInv, DiskInv, PinnedWhileLogged, RecoveryPhases, SleeperHasWaker
<1>4. CallInv
  BY <1>2, FS_EmptySet DEF CallInv, CommitPhases, RecoveryPhases
<1>5. WroteInv
  BY FS_EmptySet, LogAssumption DEF WroteInv
<1>6. ReservationKept
  BY <1>2, FS_EmptySet, LogAssumption DEF ReservationKept
<1> QED
  BY <1>1, <1>3, <1>4, <1>5, <1>6, Zenon DEF LogInv

\* Every step keeps the invariant.
LEMMA NextLogInv == LogInv /\ [Next]_vars => LogInv'
<1> SUFFICES ASSUME LogInv, [Next]_vars PROVE LogInv'
  BY Zenon
<1>1. CASE Recovery
  BY <1>1, ReadHeadInv, ReinstallInv, ClearInv, Zenon DEF Recovery
<1>2. CASE Crash
  BY <1>2, CrashInv, Zenon
<1>3. ASSUME NEW p \in Procs, Call(p) PROVE LogInv'
  <2>1. CASE Commit(p)
    BY <2>1, WriteLogInv, WriteHeadInv, InstallTransInv, ClearInv, CommitDoneInv, Zenon DEF Commit
  <2> QED
    BY <1>3, <2>1, MoveInv, BeginOpInv, EndOpInv, Zenon DEF Call
<1>4. ASSUME NEW p \in Procs, BeginCall(p) PROVE LogInv'
  BY <1>4, MoveInv, Zenon DEF BeginCall
<1>5. ASSUME NEW p \in Procs, phase # "panic", NEW b \in Blocks,
             LogWritePanics(p, b) \/ \E v \in Vals : LogWrite(p, b, v)
      PROVE LogInv'
  BY <1>5, LogWriteInv, LogWritePanicsInv, Zenon
<1>6. ASSUME NEW b \in Blocks, Load(b) \/ Evict(b) PROVE LogInv'
  BY <1>6, BufferInv, Zenon
<1>7. CASE UNCHANGED vars
  <2>1. UNCHANGED <<home, dlog, dhead, cache, pins, outstanding, committing, lh, pc, wrote, phase, tail>>
    BY <1>7, Zenon DEF vars, disk, bufs, log, procs
  <2>2. TypeOK'
    BY <2>1, Zenon DEF LogInv, TypeOK
  <2>3. InOp' = InOp /\ WroteInv' /\ ReservationKept' /\ SleeperHasWaker'
    BY <2>1, <2>2, StillInv, Zenon
  <2>4. HeadInv'
    BY <2>1, Zenon DEF LogInv, HeadInv, Injective1
  <2>5. CallInv'
    BY <2>1, <2>3, Zenon DEF LogInv, CallInv
  <2>6. CacheInv'
    BY <2>1, Zenon DEF LogInv, CacheInv
  <2>7. PinnedWhileLogged'
    BY <2>1, Zenon DEF LogInv, PinnedWhileLogged
  <2>8. DiskInv'
    <3>1. Logs(tail - 1)' = Logs(tail - 1) /\ Logs(Len(lh))' = Logs(Len(lh))
      BY <2>1, Zenon DEF Logs, bread
    <3>2. Installed(lh, tail - 1)' = Installed(lh, tail - 1) /\ Installed(dhead, Len(dhead))' = Installed(dhead, Len(dhead))
      BY <2>1, Zenon DEF Installed
    <3> QED
      BY <2>1, <3>1, <3>2, Zenon DEF LogInv, DiskInv
  <2> QED
    BY <2>2, <2>3, <2>4, <2>5, <2>6, <2>7, <2>8, Zenon DEF LogInv
<1> QED
  BY <1>1, <1>2, <1>3, <1>4, <1>5, <1>6, <1>7, Zenon DEF Next

-----------------------------------------------------------------------------
\* The invariants.

\* The inductive invariant of the log, kept by every step of the calls, of
\* the commit, of recovery and by a crash at any of them.
THEOREM LogInvariant == Safe => []LogInv
<1> QED
  BY InitLogInv, NextLogInv, PTL DEF Safe

\* A pin count is 0 or 1 and the log's counters are what struct log declares.
THEOREM TypeCorrect == Safe => []TypeOK
<1>1. LogInv => TypeOK
  BY Zenon DEF LogInv
<1> QED
  BY <1>1, LogInvariant, PTL

\* bpin in log_write and bunpin in install_trans balance.
THEOREM PinsBalance == Safe => []PinnedWhileLogged
<1>1. LogInv => PinnedWhileLogged
  BY Zenon DEF LogInv
<1> QED
  BY <1>1, LogInvariant, PTL

\* What begin_op admits fits in the log, whatever the calls go on to write.
THEOREM ReservationHolds == Safe => []ReservationKept
<1>1. LogInv => ReservationKept
  BY Zenon DEF LogInv
<1> QED
  BY <1>1, LogInvariant, PTL

\* Nobody is left asleep in begin_op with no end_op to come.
THEOREM SleepersHaveWakers == Safe => []SleeperHasWaker
<1>1. LogInv => SleeperHasWaker
  BY Zenon DEF LogInv
<1> QED
  BY <1>1, LogInvariant, PTL

-----------------------------------------------------------------------------
\* The disk is an atomic disk.

\* What recovery makes of a disk: the committed blocks from the log, the
\* others as they are.
LEMMA RecoveredFacts ==
  ASSUME LogInv
  PROVE  /\ \A t \in 1..Len(dhead) : Recovered[dhead[t]] = dlog[t]
         /\ \A b \in Blocks : (\A t \in 1..Len(dhead) : dhead[t] # b) => Recovered[b] = home[b]
<1>1. ASSUME NEW t \in 1..Len(dhead) PROVE Recovered[dhead[t]] = dlog[t]
  <2> DEFINE u == CHOOSE u \in 1..Len(dhead) : dhead[u] = dhead[t]
  <2>1. u \in 1..Len(dhead) /\ dhead[u] = dhead[t]
    BY Zenon
  <2>2. u = t
    BY <2>1, Zenon DEF LogInv, HeadInv, Injective1
  <2>3. dhead[t] \in Blocks
    BY DEF LogInv, TypeOK
  <2> QED
    BY <2>2, <2>3, Zenon DEF Recovered
<1>2. ASSUME NEW b \in Blocks, \A t \in 1..Len(dhead) : dhead[t] # b PROVE Recovered[b] = home[b]
  BY <1>2, Zenon DEF Recovered
<1> QED
  BY <1>1, <1>2, Zenon

\* With every committed block installed, or none, the homes are the disk.
LEMMA InstalledIsHome ==
  ASSUME LogInv, Installed(dhead, Len(dhead))
  PROVE  Recovered = home
<1>1. ASSUME NEW b \in Blocks PROVE Recovered[b] = home[b]
  <2>1. CASE \E t \in 1..Len(dhead) : dhead[t] = b
    BY <2>1, RecoveredFacts DEF Installed
  <2> QED
    BY <2>1, RecoveredFacts, Zenon
<1>2. Recovered = [b \in Blocks |-> Recovered[b]] /\ home = [b \in Blocks |-> home[b]]
  BY Zenon DEF Recovered, LogInv, TypeOK
<1> QED
  BY <1>1, <1>2, Zenon

\* When no header is on disk, what a recovery would leave is what is at home.
LEMMA EmptyIsHome ==
  ASSUME LogInv, dhead = << >>
  PROVE  Recovered = home
BY InstalledIsHome DEF Installed

\* A block whose buffer is not pinned reads as its home.
LEMMA UnpinnedIsHome ==
  ASSUME LogInv, NEW b \in Blocks, pins[b] # 1
  PROVE  bread(b) = home[b]
BY Zenon DEF LogInv, CacheInv, TypeOK, bread

\* When the last end_op has returned everything written survives a crash.
THEOREM Durable == Safe => []DurableWhenIdle
<1>1. ASSUME LogInv, phase = "none", outstanding = 0 PROVE Recovered = Contents
  <2>1. InOp = {}
    BY <1>1, FiniteFacts, FS_EmptySet, Zenon DEF LogInv, CallInv
  <2>2. lh = << >> /\ dhead = << >>
    BY <1>1, <2>1, Zenon DEF LogInv, CallInv, DiskInv
  <2>3. \A b \in Blocks : pins[b] # 1
    BY <1>1, <2>2 DEF LogInv, PinnedWhileLogged
  <2>4. Contents = [b \in Blocks |-> home[b]]
    BY <1>1, <2>3, UnpinnedIsHome, Zenon DEF Contents, RecoveryPhases
  <2>5. Recovered = home /\ home = [b \in Blocks |-> home[b]]
    BY <1>1, <2>2, EmptyIsHome, Zenon DEF LogInv, TypeOK
  <2> QED
    BY <2>4, <2>5, Zenon
<1>2. LogInv => DurableWhenIdle
  BY <1>1, Zenon DEF DurableWhenIdle
<1> QED
  BY <1>2, LogInvariant, PTL

\* Neither the blocks read nor the disk to be recovered changes.
LEMMA ReadsSame ==
  ASSUME \A b \in Blocks : bread(b)' = bread(b),
         phase \notin RecoveryPhases, phase' \notin RecoveryPhases
  PROVE  Contents' = Contents
BY Zenon DEF Contents

\* A step that leaves the blocks and the header leaves what a recovery would read.
LEMMA DiskSame ==
  ASSUME home' = home, dlog' = dlog, dhead' = dhead
  PROVE  Recovered' = Recovered
BY Zenon DEF Recovered

\* One turn of install_trans rewrites the home of a committed block.
LEMMA InstallSame ==
  ASSUME LogInv, InstallTrans \/ Reinstall
  PROVE  Recovered' = Recovered
<1>1. /\ dhead = lh /\ Installed(lh, tail - 1) /\ tail <= Len(lh)
      /\ UNCHANGED <<dlog, dhead>> /\ (InstallBlock(0) \/ InstallBlock(1))
  BY Zenon DEF InstallTrans, Reinstall, LogInv, DiskInv
<1>2. /\ lh[tail] \in Blocks /\ tail \in 1..Len(lh)
      /\ \A b \in Blocks \ {lh[tail]} : home'[b] = home[b]
  BY <1>1, InstallFacts, Zenon
<1>3. ASSUME NEW b \in Blocks PROVE Recovered'[b] = Recovered[b]
  <2>1. CASE \E t \in 1..Len(dhead) : dhead[t] = b
    BY <1>1, <2>1, Zenon DEF Recovered
  <2>2. CASE ~\E t \in 1..Len(dhead) : dhead[t] = b
    <3>1. b # lh[tail]
      BY <1>1, <1>2, <2>2, Zenon
    <3> QED
      BY <1>1, <1>2, <2>2, <3>1, Zenon DEF Recovered
  <2> QED
    BY <2>1, <2>2, Zenon
<1>4. Recovered = [b \in Blocks |-> Recovered[b]] /\ Recovered' = [b \in Blocks |-> Recovered'[b]]
  BY Zenon DEF Recovered
<1> QED
  BY <1>3, <1>4, Zenon

\* The steps of begin_op, log_write and end_op.
LEMMA CallRefines ==
  ASSUME LogInv, phase # "panic", NEW p \in Procs,
         \/ BeginCall(p) \/ BeginSleeps(p) \/ BeginOp(p) \/ EndOp(p)
         \/ \E b \in Blocks : LogWritePanics(p, b) \/ \E v \in Vals : LogWrite(p, b, v)
  PROVE  [D!Next]_D!diskVars
<1> USE DEF D!Next, D!diskVars
<1>1. Recovered' = Recovered
  BY DiskSame, Zenon DEF BeginCall, BeginSleeps, BeginOp, EndOp, LogWritePanics, LogWrite, disk
<1>2. pc \in [Procs -> PCs]
  BY Zenon DEF LogInv, TypeOK
<1>3. pc[p] \in {"begin", "op"} => phase \notin RecoveryPhases
  BY Zenon DEF LogInv, CallInv
<1>4. pc[p] = "op" => phase = "none" /\ committing = 0
  BY Zenon DEF LogInv, CallInv, InOp, TypeOK, CommitPhases
<1>5. cache' = cache /\ home' = home => \A b \in Blocks : bread(b)' = bread(b)
  BY Zenon DEF bread
<1>6. CASE BeginCall(p)
  <2>1. InOp' = InOp
    BY <1>2, <1>6, Zenon DEF BeginCall, InOp
  <2>2. Contents' = Contents
    BY <1>5, <1>6, ReadsSame, Zenon DEF BeginCall, disk, bufs, RecoveryPhases
  <2> QED
    BY <1>1, <2>1, <2>2, Zenon
<1>7. CASE BeginSleeps(p)
  <2>1. InOp' = InOp
    BY <1>2, <1>7, Zenon DEF BeginSleeps, InOp
  <2>2. Contents' = Contents
    BY <1>3, <1>5, <1>7, ReadsSame, Zenon DEF BeginSleeps, disk, bufs
  <2> QED
    BY <1>1, <2>1, <2>2, Zenon
<1>8. CASE BeginOp(p)
  <2>1. InOp' = InOp \cup {p} /\ p \notin InOp
    BY <1>2, <1>8, Zenon DEF BeginOp, InOp
  <2>2. Contents' = Contents
    BY <1>3, <1>5, <1>8, ReadsSame, Zenon DEF BeginOp, disk, bufs
  <2> QED
    BY <1>1, <2>1, <2>2, Zenon DEF D!Begin
<1>9. CASE EndOp(p)
  <2>1. pc'[p] # "op" /\ \A q \in Procs \ {p} : pc'[q] = "op" <=> pc[q] = "op"
    <3>1. \/ pc' = [pc EXCEPT ![p] = "commit"]
          \/ pc' = [wakeup EXCEPT ![p] = "idle"]
      BY <1>4, <1>9 DEF EndOp
    <3>2. CASE pc' = [pc EXCEPT ![p] = "commit"]
      BY <1>2, <3>2, Zenon
    <3>3. CASE pc' = [wakeup EXCEPT ![p] = "idle"]
      BY <3>3, Zenon DEF wakeup
    <3> QED
      BY <3>1, <3>2, <3>3, Zenon
  <2>2. InOp' = InOp \ {p} /\ p \in InOp
    BY <1>9, <2>1, Zenon DEF InOp, EndOp
  <2>3. phase \notin RecoveryPhases /\ phase' \notin RecoveryPhases
    BY <1>4, <1>9, Zenon DEF EndOp, RecoveryPhases
  <2>4. Contents' = Contents
    BY <1>5, <1>9, <2>3, ReadsSame, Zenon DEF EndOp, disk, bufs
  <2> QED
    BY <1>1, <2>2, <2>4, Zenon DEF D!End
<1>10. ASSUME NEW b \in Blocks, LogWritePanics(p, b) PROVE [D!Next]_D!diskVars
  <2>1. InOp' = InOp
    BY <1>10, Zenon DEF LogWritePanics, procs, InOp
  <2>2. phase \notin RecoveryPhases /\ phase' \notin RecoveryPhases
    BY <1>4, <1>10, Zenon DEF LogWritePanics, MayWrite, RecoveryPhases
  <2>3. Contents' = Contents
    BY <1>5, <1>10, <2>2, ReadsSame, Zenon DEF LogWritePanics, disk, bufs
  <2> QED
    BY <1>1, <2>1, <2>3, Zenon
<1>11. ASSUME NEW b \in Blocks, NEW v \in Vals, LogWrite(p, b, v) PROVE [D!Next]_D!diskVars
  <2>1. InOp' = InOp /\ p \in InOp
    BY <1>11, Zenon DEF LogWrite, MayWrite, InOp
  <2>2. phase \notin RecoveryPhases /\ phase' = phase
    BY <1>4, <1>11, Zenon DEF LogWrite, MayWrite, RecoveryPhases
  <2>3. cache' = [cache EXCEPT ![b] = v] /\ home' = home /\ v # None
    BY <1>11, LogAssumption, Zenon DEF LogWrite, disk
  <2>4. \A c \in Blocks : bread(c)' = IF c = b THEN v ELSE bread(c)
    BY <2>3, Zenon DEF bread, LogInv, TypeOK
  <2>5. Contents' = [Contents EXCEPT ![b] = v]
    BY <2>2, <2>4, Zenon DEF Contents
  <2> QED
    BY <1>1, <2>1, <2>5, Zenon DEF D!Write
<1> QED
  BY <1>6, <1>7, <1>8, <1>9, <1>10, <1>11, Zenon

\* The steps of a commit: write_head's is where the calls become durable.
LEMMA CommitRefines ==
  ASSUME LogInv, LogInv', NEW p \in Procs, Commit(p)
  PROVE  [D!Next]_D!diskVars
<1> USE DEF D!Next, D!diskVars
<1>1. CASE WriteLog
  <2>1. /\ phase = "log" /\ phase' \in {"log", "head"} /\ tail <= Len(lh)
        /\ cache' = [cache EXCEPT ![lh[tail]] = bread(lh[tail])]
        /\ UNCHANGED <<home, dhead, pc>>
    BY <1>1, Zenon DEF WriteLog, procs
  <2>2. dhead = << >> /\ dhead' = << >>
    BY <2>1, Zenon DEF LogInv, DiskInv
  <2>3. Recovered' = Recovered
    <3>0. 1..Len(dhead) = {} /\ 1..Len(dhead') = {}
      BY <2>2
    <3>1. Recovered = [b \in Blocks |-> home[b]]
      BY <3>0, Zenon DEF Recovered
    <3>2. Recovered' = [b \in Blocks |-> home'[b]]
      BY <3>0, Zenon DEF Recovered
    <3> QED
      BY <2>1, <3>1, <3>2, Zenon
  <2>4. lh[tail] \in Blocks /\ bread(lh[tail]) \in Vals
    <3>1. lh[tail] \in Blocks
      BY <2>1 DEF LogInv, TypeOK
    <3>2. cache[lh[tail]] \in Vals \cup {None} /\ home[lh[tail]] \in Vals
      BY <3>1, Zenon DEF LogInv, TypeOK
    <3> QED
      BY <3>1, <3>2, Zenon DEF bread
  <2>5. \A b \in Blocks : bread(b)' = bread(b)
    BY <2>1, <2>4, LogAssumption, Zenon DEF bread, LogInv, TypeOK
  <2>6. Contents' = Contents
    BY <2>1, <2>5, ReadsSame, Zenon DEF RecoveryPhases
  <2>7. InOp' = InOp
    BY <2>1, Zenon DEF InOp
  <2> QED
    BY <2>3, <2>6, <2>7, Zenon
<1>2. CASE WriteHead
  <2>1. /\ phase = "head" /\ phase' = "install" /\ dhead' = lh
        /\ UNCHANGED <<home, dlog, cache, pins, lh, pc>>
    BY <1>2, Zenon DEF WriteHead, bufs, log, procs
  <2>2. InOp = {} /\ InOp' = InOp
    BY <2>1, Zenon DEF LogInv, CallInv, InOp
  <2>3. Logs(Len(lh))
    BY <2>1, Zenon DEF LogInv, DiskInv
  <2>4. \A t \in 1..Len(lh) : Recovered'[lh[t]] = dlog[t]
    <3>1. (\A t \in 1..Len(dhead) : Recovered[dhead[t]] = dlog[t])'
      BY RecoveredFacts, PTL
    <3> QED
      BY <2>1, <3>1, Zenon
  <2>5. \A b \in Blocks : (\A t \in 1..Len(lh) : lh[t] # b) => Recovered'[b] = home[b]
    BY <2>1, Zenon DEF Recovered
  <2>6. ASSUME NEW b \in Blocks PROVE Recovered'[b] = bread(b)
    <3>1. CASE \E t \in 1..Len(lh) : lh[t] = b
      BY <2>3, <2>4, <3>1, Zenon DEF Logs
    <3>2. CASE \A t \in 1..Len(lh) : lh[t] # b
      <4>1. pins[b] # 1
        BY <2>1, <3>2, Zenon DEF LogInv, PinnedWhileLogged
      <4> QED
        BY <2>5, <3>2, <4>1, UnpinnedIsHome, Zenon
    <3> QED
      BY <3>1, <3>2, Zenon
  <2>7. Contents = [b \in Blocks |-> bread(b)]
    BY <2>1, Zenon DEF Contents, RecoveryPhases
  <2>8. Recovered' = [b \in Blocks |-> Recovered'[b]]
    BY Zenon DEF Recovered
  <2>9. Recovered' = Contents
    BY <2>6, <2>7, <2>8, Zenon
  <2>10. Contents' = Contents
    <3>1. \A b \in Blocks : bread(b)' = bread(b)
      BY <2>1, Zenon DEF bread
    <3> QED
      BY <2>1, <3>1, ReadsSame, Zenon DEF RecoveryPhases
  <2> QED
    BY <2>2, <2>9, <2>10, Zenon DEF D!Commit
<1>3. CASE InstallTrans
  <2>1. /\ phase = "install" /\ phase' \in {"install", "clear"} /\ tail <= Len(lh)
        /\ InstallBlock(0) /\ UNCHANGED <<dlog, dhead, pc>>
    BY <1>3, Zenon DEF InstallTrans, procs
  <2>2. Recovered' = Recovered
    BY <1>3, InstallSame, Zenon
  <2>3. Logs(Len(lh)) /\ dhead = lh /\ Installed(lh, tail - 1)
    BY <2>1, Zenon DEF LogInv, DiskInv
  <2>4. /\ lh[tail] \in Blocks /\ tail \in 1..Len(lh) /\ dlog[tail] \in Vals
        /\ cache'[lh[tail]] = dlog[tail]
        /\ \A b \in Blocks \ {lh[tail]} : home'[b] = home[b] /\ cache'[b] = cache[b]
    BY <2>1, <2>3, InstallFacts, Zenon
  <2>5. \A b \in Blocks : bread(b)' = bread(b)
    <3>1. bread(lh[tail]) = dlog[tail]
      BY <2>3, <2>4, Zenon DEF Logs
    <3>2. ASSUME NEW b \in Blocks, b = lh[tail] PROVE bread(b)' = bread(b)
      BY <2>4, <3>1, <3>2, LogAssumption, Zenon DEF bread
    <3>3. ASSUME NEW b \in Blocks, b # lh[tail] PROVE bread(b)' = bread(b)
      BY <2>4, <3>3, Zenon DEF bread
    <3> QED
      BY <3>2, <3>3, Zenon
  <2>6. Contents' = Contents
    BY <2>1, <2>5, ReadsSame, Zenon DEF RecoveryPhases
  <2>7. InOp' = InOp
    BY <2>1, Zenon DEF InOp
  <2> QED
    BY <2>2, <2>6, <2>7, Zenon
<1>4. CASE ClearHead
  <2>1. /\ phase = "clear" /\ phase' = "done" /\ dhead' = lh
        /\ UNCHANGED <<home, cache, pc>>
    BY <1>4, Zenon DEF ClearHead, bufs, procs
  <2>2. lh = << >> /\ Installed(dhead, Len(dhead))
    BY <2>1, Zenon DEF LogInv, DiskInv
  <2>3. Recovered = home
    BY <2>2, InstalledIsHome, Zenon
  <2>4. Recovered' = home
    BY <2>1, <2>2 DEF Recovered, LogInv, TypeOK
  <2>5. Contents' = Contents
    <3>1. \A b \in Blocks : bread(b)' = bread(b)
      BY <2>1, Zenon DEF bread
    <3> QED
      BY <2>1, <3>1, ReadsSame, Zenon DEF RecoveryPhases
  <2>6. InOp' = InOp
    BY <2>1, Zenon DEF InOp
  <2> QED
    BY <2>3, <2>4, <2>5, <2>6, Zenon
<1>5. CASE CommitDone(p)
  <2>1. /\ phase = "done" /\ phase' = "none" /\ UNCHANGED <<home, dlog, dhead, cache>>
        /\ pc' = [wakeup EXCEPT ![p] = "idle"] /\ pc[p] = "commit"
    BY <1>5, Zenon DEF CommitDone, disk, bufs
  <2>2. Recovered' = Recovered
    BY <2>1, DiskSame, Zenon
  <2>3. Contents' = Contents
    <3>1. \A b \in Blocks : bread(b)' = bread(b)
      BY <2>1, Zenon DEF bread
    <3> QED
      BY <2>1, <3>1, ReadsSame, Zenon DEF RecoveryPhases
  <2>4. InOp' = InOp
    BY <2>1, Zenon DEF InOp, wakeup
  <2> QED
    BY <2>2, <2>3, <2>4, Zenon
<1> QED
  BY <1>1, <1>2, <1>3, <1>4, <1>5, Zenon DEF Commit

\* Recovery does not change what the disk will be.
LEMMA RecoveryRefines ==
  ASSUME LogInv, LogInv', Recovery
  PROVE  [D!Next]_D!diskVars
<1> USE DEF D!Next, D!diskVars
<1>1. InOp' = InOp
  BY Zenon DEF Recovery, ReadHead, Reinstall, Reclear, procs, InOp
<1>2. CASE ReadHead \/ Reinstall
  <2>1. phase \in RecoveryPhases /\ phase' \in RecoveryPhases
    BY <1>2, Zenon DEF ReadHead, Reinstall, RecoveryPhases
  <2>2. Recovered' = Recovered
    BY <1>2, DiskSame, InstallSame, Zenon DEF ReadHead, disk
  <2> QED
    BY <1>1, <2>1, <2>2, Zenon DEF Contents
<1>3. CASE Reclear
  <2>1. /\ phase = "reclear" /\ phase' = "none" /\ dhead' = lh
        /\ UNCHANGED <<home, cache, pins>>
    BY <1>3, Zenon DEF Reclear, bufs
  <2>2. lh = << >> /\ Installed(dhead, Len(dhead)) /\ home = [b \in Blocks |-> home[b]]
    BY <2>1, Zenon DEF LogInv, DiskInv, TypeOK
  <2>3. Recovered = home
    BY <2>2, InstalledIsHome, Zenon
  <2>4. Recovered' = home
    BY <2>1, <2>2 DEF Recovered
  <2>5. \A b \in Blocks : pins[b] # 1
    BY <2>1, Zenon DEF LogInv, PinnedWhileLogged, RecoveryPhases
  <2>6. \A b \in Blocks : bread(b)' = home[b]
    <3>1. \A b \in Blocks : bread(b) = home[b]
      BY <2>5, UnpinnedIsHome, Zenon
    <3> QED
      BY <2>1, <3>1, Zenon DEF bread
  <2>7. Contents = Recovered /\ Contents' = home
    BY <2>1, <2>2, <2>6, Zenon DEF Contents, RecoveryPhases
  <2> QED
    BY <1>1, <2>3, <2>4, <2>7, Zenon
<1> QED
  BY <1>2, <1>3, Zenon DEF Recovery

\* A step of the buffer cache changes nothing the abstract disk has.
LEMMA BufferRefines ==
  ASSUME LogInv, NEW b \in Blocks, Load(b) \/ Evict(b)
  PROVE  [D!Next]_D!diskVars
<1>0. /\ UNCHANGED <<home, dlog, dhead, pc, phase>>
      /\ cache' = [cache EXCEPT ![b] = IF cache[b] = None THEN home[b] ELSE None]
      /\ cache[b] # None => pins[b] = 0
  BY Zenon DEF Load, Evict, disk, procs
<1>1. cache[b] \in {None, home[b]} /\ home[b] # None
  BY <1>0, LogAssumption DEF LogInv, CacheInv, TypeOK
<1>2. \A c \in Blocks : bread(c)' = bread(c)
  BY <1>0, <1>1, Zenon DEF bread, LogInv, TypeOK
<1>3. Recovered' = Recovered
  BY <1>0, DiskSame, Zenon
<1>4. Contents' = Contents
  BY <1>0, <1>2, <1>3, Zenon DEF Contents
<1>5. InOp' = InOp
  BY <1>0, Zenon DEF InOp
<1> QED
  BY <1>3, <1>4, <1>5, Zenon DEF D!diskVars

\* A crash is a crash of the abstract disk.
LEMMA CrashRefines ==
  ASSUME LogInv, Crash
  PROVE  D!Crash
<1>1. Recovered' = Recovered
  BY DiskSame, Zenon DEF Crash, disk
<1>2. Contents' = Recovered'
  BY Zenon DEF Crash, Contents, RecoveryPhases
<1>3. InOp' = {}
  BY Zenon DEF Crash, InOp
<1> QED
  BY <1>1, <1>2, <1>3, Zenon DEF D!Crash

\* The log implements the atomic disk: whatever the interleaving of the
\* calls, and wherever crashes fall in a commit or in recovery itself.
THEOREM LogIsAtomicDisk == Safe => ImplementsAtomicDisk
<1>1. Init => D!Init
  <2> SUFFICES ASSUME Init PROVE D!Init
    BY Zenon
  <2>1. Recovered = home
    BY InitLogInv, EmptyIsHome, Zenon DEF Init
  <2>2. Contents = Recovered
    BY Zenon DEF Init, Contents, RecoveryPhases
  <2>3. InOp = {}
    BY Zenon DEF Init, InOp
  <2> QED
    BY <2>1, <2>2, <2>3, Zenon DEF D!Init, Init
<1>2. LogInv /\ LogInv' /\ [Next]_vars => [D!Next]_D!diskVars
  <2> SUFFICES ASSUME LogInv, LogInv', [Next]_vars PROVE [D!Next]_D!diskVars
    BY Zenon
  <2>1. CASE Recovery
    BY <2>1, RecoveryRefines, Zenon
  <2>2. CASE Crash
    BY <2>2, CrashRefines, Zenon DEF D!Next
  <2>3. ASSUME NEW p \in Procs, Call(p) PROVE [D!Next]_D!diskVars
    <3>1. CASE Commit(p)
      BY <3>1, CommitRefines, Zenon
    <3>2. CASE phase # "panic" /\ (BeginSleeps(p) \/ BeginOp(p) \/ EndOp(p))
      BY <3>2, CallRefines, Zenon
    <3> QED
      BY <2>3, <3>1, <3>2, Zenon DEF Call
  <2>4. ASSUME NEW p \in Procs, BeginCall(p) PROVE [D!Next]_D!diskVars
    <3>1. phase # "panic"
      BY <2>4, Zenon DEF BeginCall
    <3> QED
      BY <2>4, <3>1, CallRefines, Zenon
  <2>5. ASSUME NEW p \in Procs, phase # "panic", NEW b \in Blocks,
               LogWritePanics(p, b) \/ \E v \in Vals : LogWrite(p, b, v)
        PROVE [D!Next]_D!diskVars
    BY <2>5, CallRefines, Zenon
  <2>6. ASSUME NEW b \in Blocks, Load(b) \/ Evict(b) PROVE [D!Next]_D!diskVars
    BY <2>6, BufferRefines, Zenon
  <2>7. CASE UNCHANGED vars
    BY <2>7, Zenon DEF vars, disk, bufs, procs, D!diskVars, Contents, Recovered, bread, InOp
  <2> QED
    BY <2>1, <2>2, <2>3, <2>4, <2>5, <2>6, <2>7, Zenon DEF Next
<1> QED
  BY <1>1, <1>2, LogInvariant, PTL DEF Safe, ImplementsAtomicDisk, D!Spec
=============================================================================

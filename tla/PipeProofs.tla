----------------------------- MODULE PipeProofs -----------------------------
(***************************************************************************)
(* Proofs about Pipe, for every number of readers and writers, every pipe  *)
(* size and every request size.                                            *)
(***************************************************************************)
EXTENDS PipeChannel, TLAPS

-----------------------------------------------------------------------------
\* Arithmetic of the wrapping counters.

\* Division with remainder.
LEMMA ModDecompose ==
  ASSUME NEW x \in Int, NEW m \in Nat \ {0}
  PROVE  x % m \in 0..m-1 /\ \E q \in Int : x = q * m + (x % m)
<1>1. x \div m \in Int /\ x = m * (x \div m) + (x % m) /\ x % m \in 0..m-1
  OBVIOUS
<1>2. x = (x \div m) * m + (x % m)
  BY <1>1
<1> QED
  BY <1>1, <1>2, Zenon

\* A multiple of m strictly between -m and m is 0.
LEMMA SmallMultiple ==
  ASSUME NEW q \in Int, NEW m \in Nat \ {0}, -m < q * m, q * m < m
  PROVE  q = 0
<1>1. q >= 1 => q * m >= m
  OBVIOUS
<1>2. q <= -1 => q * m <= -m
  OBVIOUS
<1> QED
  BY <1>1, <1>2

\* Numbers that differ by a multiple of m have the same remainder.
LEMMA ModShift ==
  ASSUME NEW x \in Int, NEW q \in Int, NEW m \in Nat \ {0}
  PROVE  (x + q * m) % m = x % m
<1> DEFINE y == x + q * m
<1>1. y \in Int
  OBVIOUS
<1>2. PICK a \in Int : x = a * m + (x % m)
  BY ModDecompose, Zenon
<1>3. PICK b \in Int : y = b * m + (y % m)
  BY <1>1, ModDecompose, Zenon
<1>4. x % m \in 0..m-1 /\ y % m \in 0..m-1
  BY <1>1, ModDecompose, Zenon
<1> HIDE DEF y
<1>5. (y % m) - (x % m) = (a + q - b) * m
  <2>1. y = x + q * m
    BY Zenon DEF y
  <2>2. (y % m) - (x % m) = (y - b * m) - (x - a * m)
    BY <1>1, <1>2, <1>3, <1>4
  <2> QED
    BY <1>1, <2>1, <2>2
<1>6. a + q - b = 0
  BY <1>4, <1>5, SmallMultiple
<1>7. y % m = x % m
  BY <1>4, <1>5, <1>6
<1> QED
  BY <1>7, Zenon DEF y

\* Numbers less than m apart with the same remainder are equal.
LEMMA ModInjective ==
  ASSUME NEW x \in Int, NEW y \in Int, NEW m \in Nat \ {0},
         x - y < m, y - x < m, x % m = y % m
  PROVE  x = y
<1>1. PICK a \in Int : x = a * m + (x % m)
  BY ModDecompose, Zenon
<1>2. PICK b \in Int : y = b * m + (y % m)
  BY ModDecompose, Zenon
<1>3. x % m \in 0..m-1
  BY ModDecompose, Zenon
<1>4. x - y = (a - b) * m
  BY <1>1, <1>2, <1>3
<1>5. a - b = 0
  BY <1>4, SmallMultiple
<1> QED
  BY <1>4, <1>5

\* A remainder may be taken before an addition.
LEMMA ModPlus ==
  ASSUME NEW x \in Int, NEW c \in Int, NEW m \in Nat \ {0}
  PROVE  ((x % m) + c) % m = (x + c) % m
<1>1. PICK q \in Int : x = q * m + (x % m)
  BY ModDecompose, Zenon
<1>2. x % m \in Int
  BY ModDecompose
<1> DEFINE y == (x % m) + c
<1>3. y \in Int /\ x + c = y + q * m
  BY <1>1, <1>2
<1> HIDE DEF y
<1>4. (y + q * m) % m = y % m
  BY <1>3, ModShift, Zenon
<1>5. (x + c) % m = y % m
  BY <1>3, <1>4, Zenon
<1> QED
  BY <1>5, Zenon DEF y

\* A remainder below m is the number itself.
LEMMA ModSmall ==
  ASSUME NEW m \in Nat \ {0}, NEW x \in 0..m-1
  PROVE  x % m = x
  OBVIOUS

-----------------------------------------------------------------------------
\* What the tests on nread and nwrite mean for a pipe in order.

\* The counters are computed modulo a number larger than the pipe.
LEMMA WordType == Word \in Nat \ {0} /\ PipeSize \in Nat \ {0} /\ PipeSize < Word
  BY SizeAssumption DEF Word

\* Reducing modulo Word first does not change the slot.
LEMMA SlotOfCounter == ASSUME NEW x \in Nat PROVE (x % Word) % PipeSize = x % PipeSize
<1>0. x \in Int /\ Word \in Nat \ {0}
  BY WordType
<1>1. PICK q \in Int : x = q * Word + (x % Word)
  BY <1>0, ModDecompose, Zenon
<1> DEFINE y == x % Word
<1>2. y \in Int
  BY <1>0, ModDecompose
<1> HIDE DEF y
<1> DEFINE z == q * Laps
<1>3. z \in Int /\ x = y + z * PipeSize
  <2>1. x = q * Word + y
    BY <1>1, Zenon DEF y
  <2>2. q * Word = z * PipeSize /\ z \in Int
    BY SizeAssumption DEF Word
  <2> QED
    BY <1>2, <2>1, <2>2, WordType
<1> HIDE DEF z
<1>4. (y + z * PipeSize) % PipeSize = y % PipeSize
  BY <1>2, <1>3, WordType, ModShift, Zenon
<1> QED
  BY <1>3, <1>4, Zenon DEF y

\* Empty and Full say what they mean, whatever wrapped.
LEMMA EmptyFull ==
  ASSUME TypeOK, BytesInOrder
  PROVE  (Empty <=> wTotal = rTotal) /\ (Full <=> wTotal = rTotal + PipeSize)
<1> USE WordType
<1>1. wTotal \in Nat /\ rTotal \in Nat /\ rTotal <= wTotal /\ wTotal <= rTotal + PipeSize
  BY Zenon DEF TypeOK, BytesInOrder
<1> DEFINE full == rTotal + PipeSize
<1>2. /\ rTotal \in Int /\ wTotal \in Int /\ full \in Int /\ PipeSize \in Int
      /\ rTotal - wTotal < Word /\ wTotal - rTotal < Word
      /\ full - wTotal < Word /\ wTotal - full < Word
  BY <1>1
<1>3. (rTotal % Word) = (wTotal % Word) => rTotal = wTotal
  BY <1>2, ModInjective, Zenon
<1>4. ((rTotal % Word) + PipeSize) % Word = full % Word
  BY <1>2, ModPlus, Zenon
<1> HIDE DEF full
<1>5. (wTotal % Word) = full % Word => wTotal = full
  BY <1>2, ModInjective, Zenon
<1> QED
  BY <1>3, <1>4, <1>5, Zenon DEF Empty, Full, BytesInOrder, full

\* Two bytes less than a pipe apart are in different slots.
LEMMA SlotsDiffer ==
  ASSUME NEW j \in Nat, NEW k \in Nat, j < k, k < j + PipeSize
  PROVE  j % PipeSize # k % PipeSize
<1>1. j \in Int /\ k \in Int /\ j - k < PipeSize /\ k - j < PipeSize /\ PipeSize \in Nat \ {0}
  BY WordType
<1> QED
  BY <1>1, ModInjective

-----------------------------------------------------------------------------
\* The inductive invariant.

\* A closed end has no users left; the last user of an end closes it alone.
FileInv ==
  /\ pi \in {"none", "failed"} =>
       /\ readopen = 0 /\ writeopen = 0 /\ wTotal = 0 /\ rTotal = 0
       /\ \A p \in Procs : pc[p] = "nofile"
  /\ pi \in {"live", "freed"} =>
       /\ \A p \in Procs : pc[p] # "nofile"
       /\ writeopen = 0 => \A p \in Writers : pc[p] = "closed"
       /\ readopen = 0 => \A p \in Readers : pc[p] = "closed"
  /\ pi = "freed" => readopen = 0 /\ writeopen = 0
  /\ \A p \in Procs : pc[p] = "closing" => \A q \in EndOf(p) \ {p} : pc[q] = "closed"

\* A process about to sleep still has its reason to, and a writer has woken
\* the readers.
SleepInv ==
  /\ \A w \in Writers : pc[w] = "tosleep" =>
       Full /\ readopen = 1 /\ \A r \in Readers : pc[r] # "asleep"
  /\ \A r \in Readers : pc[r] = "tosleep" => Empty /\ writeopen = 1

PipeInv ==
  /\ TypeOK /\ BytesInOrder /\ MutualExclusion /\ FileInv /\ SleepInv
  /\ WriterNotForgotten /\ ReaderNotForgotten

\* The steps of one process that is a writer, a reader, or either.
ProcStep(p) == KernelStep(p) \/ UserStep(p) \/ Kill(p)

\* No step of a process breaks the types.
LEMMA TypeStep ==
  ASSUME PipeInv, NEW p \in Procs, ProcStep(p)
  PROVE  TypeOK'
<1> USE ProcAssumption, SizeAssumption DEF PipeInv, Procs, PCs, HasFile, InCall, Critical, wakeup, TypeOK
<1>1. CASE Acquire(p)
  BY <1>1, RequestAssumption, Zenon DEF Acquire, pipe, open, total
<1>2. CASE Sleep(p)
  BY <1>2, RequestAssumption, Zenon DEF Sleep, pipe, open, total
<1>3. CASE PipeClose(p)
  BY <1>3, RequestAssumption, Zenon DEF PipeClose, pipe, open, total
<1>4. CASE p \in Writers /\ WriteAbort(p)
  BY <1>4, RequestAssumption, Zenon DEF WriteAbort, pipe, open, total
<1>5. CASE p \in Writers /\ WriteFull(p)
  BY <1>5, RequestAssumption, Zenon DEF WriteFull, pipe, open, total
<1>6. CASE p \in Writers /\ WriteByte(p)
  <2>0. nwrite \in Int /\ nwrite + 1 \in Int
    BY WordType
  <2>1. nwrite' \in 0..Word-1 /\ nwrite % PipeSize \in 0..PipeSize-1
    <3>1. (nwrite + 1) % Word \in 0..Word-1
      BY <2>0, WordType, ModDecompose, Zenon
    <3>2. nwrite % PipeSize \in 0..PipeSize-1
      BY <2>0, WordType, ModDecompose, Zenon
    <3> QED
      BY <1>6, <3>1, <3>2, Zenon DEF WriteByte
  <2>2. data' \in [0..PipeSize-1 -> Nat \cup {-1}]
    BY <1>6, <2>1, Zenon DEF WriteByte
  <2>3. /\ UNCHANGED <<pi, lock, nread, readopen, writeopen, pc, n, killed, rTotal>>
        /\ wTotal' = wTotal + 1 /\ i' = [i EXCEPT ![p] = @ + 1]
    BY <1>6, Zenon DEF WriteByte, open
  <2>4. i' \in [Procs -> Nat] /\ wTotal' \in Nat
    BY <2>3
  <2> QED
    BY <2>1, <2>2, <2>3, <2>4, Zenon
<1>7. CASE p \in Writers /\ WriteReturn(p)
  BY <1>7, RequestAssumption, Zenon DEF WriteReturn, pipe, open, total
<1>8. CASE p \in Readers /\ ReadAbort(p)
  BY <1>8, RequestAssumption, Zenon DEF ReadAbort, pipe, open, total
<1>9. CASE p \in Readers /\ ReadWait(p)
  BY <1>9, RequestAssumption, Zenon DEF ReadWait, pipe, open, total
<1>10. CASE p \in Readers /\ ReadStart(p)
  BY <1>10, RequestAssumption, Zenon DEF ReadStart, pipe, open, total
<1>11. CASE p \in Readers /\ ReadByte(p)
  <2>1. nread' \in 0..Word-1
    BY <1>11, WordType, ModDecompose DEF ReadByte
  <2> QED
    BY <1>11, <2>1 DEF ReadByte, pipe, open, total
<1>12. CASE p \in Readers /\ ReadReturn(p)
  BY <1>12, RequestAssumption, Zenon DEF ReadReturn, pipe, open, total, ReadEnds
<1>13. CASE p \in Readers /\ ReadFault(p)
  <2>1. nread' \in 0..Word-1
    BY <1>13, WordType, ModDecompose DEF ReadFault
  <2> QED
    BY <1>13, <2>1 DEF ReadFault, pipe, open, total, ReadEnds
<1>14. CASE p \in Writers /\ WriteCall(p)
  BY <1>14, RequestAssumption, Zenon DEF WriteCall, pipe, open, total
<1>15. CASE p \in Readers /\ ReadCall(p)
  BY <1>15, RequestAssumption, Zenon DEF ReadCall, pipe, open, total
<1>16. CASE FileClose(p)
  BY <1>16, RequestAssumption, Zenon DEF FileClose, pipe, open, total
<1>17. CASE Kill(p)
  BY <1>17, RequestAssumption, Zenon DEF Kill, pipe, open, total
<1> QED
  BY <1>1, <1>2, <1>3, <1>4, <1>5, <1>6, <1>7, <1>8, <1>9, <1>10, <1>11, <1>12, <1>13, <1>14, <1>15, <1>16, <1>17, Zenon DEF ProcStep, KernelStep, UserStep

\* No step of a process breaks mutual exclusion.
LEMMA LockStep ==
  ASSUME PipeInv, NEW p \in Procs, ProcStep(p)
  PROVE  MutualExclusion'
<1> USE ProcAssumption, SizeAssumption DEF PipeInv, Procs, PCs, HasFile, InCall, Critical, wakeup, MutualExclusion, TypeOK
<1>1. CASE Acquire(p)
  BY <1>1, Zenon DEF Acquire, pipe, open, total
<1>2. CASE Sleep(p)
  BY <1>2, Zenon DEF Sleep, pipe, open, total
<1>3. CASE PipeClose(p)
  BY <1>3, Zenon DEF PipeClose, pipe, open, total
<1>4. CASE p \in Writers /\ WriteAbort(p)
  BY <1>4, Zenon DEF WriteAbort, pipe, open, total
<1>5. CASE p \in Writers /\ WriteFull(p)
  BY <1>5, Zenon DEF WriteFull, WriteGivesUp, pipe, open, total
<1>6. CASE p \in Writers /\ WriteByte(p)
  BY <1>6, Zenon DEF WriteByte, pipe, open, total
<1>7. CASE p \in Writers /\ WriteReturn(p)
  BY <1>7, Zenon DEF WriteReturn, pipe, open, total
<1>8. CASE p \in Readers /\ ReadAbort(p)
  BY <1>8, Zenon DEF ReadAbort, pipe, open, total
<1>9. CASE p \in Readers /\ ReadWait(p)
  BY <1>9, Zenon DEF ReadWait, pipe, open, total
<1>10. CASE p \in Readers /\ ReadStart(p)
  BY <1>10, Zenon DEF ReadStart, pipe, open, total
<1>11. CASE p \in Readers /\ ReadByte(p)
  BY <1>11, Zenon DEF ReadByte, pipe, open, total
<1>12. CASE p \in Readers /\ ReadReturn(p)
  BY <1>12, Zenon DEF ReadReturn, pipe, open, total, ReadEnds
<1>13. CASE p \in Readers /\ ReadFault(p)
  BY <1>13, Zenon DEF ReadFault, pipe, open, total, ReadEnds
<1>14. CASE p \in Writers /\ WriteCall(p)
  BY <1>14, Zenon DEF WriteCall, pipe, open, total
<1>15. CASE p \in Readers /\ ReadCall(p)
  BY <1>15, Zenon DEF ReadCall, pipe, open, total
<1>16. CASE FileClose(p)
  BY <1>16, Zenon DEF FileClose, pipe, open, total
<1>17. CASE Kill(p)
  BY <1>17, Zenon DEF Kill, pipe, open, total
<1> QED
  BY <1>1, <1>2, <1>3, <1>4, <1>5, <1>6, <1>7, <1>8, <1>9, <1>10, <1>11, <1>12, <1>13, <1>14, <1>15, <1>16, <1>17, Zenon DEF ProcStep, KernelStep, UserStep

\* No step of a process breaks the life cycle of the ends.
LEMMA FileStep ==
  ASSUME PipeInv, NEW p \in Procs, ProcStep(p)
  PROVE  FileInv'
<1> USE ProcAssumption, SizeAssumption DEF PipeInv, Procs, PCs, HasFile, InCall, Critical, wakeup, FileInv, TypeOK, EndOf, MutualExclusion
<1>1. CASE Acquire(p)
  BY <1>1, Zenon DEF Acquire, pipe, open, total
<1>2. CASE Sleep(p)
  BY <1>2, Zenon DEF Sleep, pipe, open, total
<1>3. CASE PipeClose(p)
  BY <1>3, Zenon DEF PipeClose, pipe, open, total
<1>4. CASE p \in Writers /\ WriteAbort(p)
  BY <1>4, Zenon DEF WriteAbort, pipe, open, total
<1>5. CASE p \in Writers /\ WriteFull(p)
  BY <1>5, Zenon DEF WriteFull, WriteGivesUp, pipe, open, total
<1>6. CASE p \in Writers /\ WriteByte(p)
  BY <1>6, Zenon DEF WriteByte, pipe, open, total
<1>7. CASE p \in Writers /\ WriteReturn(p)
  BY <1>7, Zenon DEF WriteReturn, pipe, open, total
<1>8. CASE p \in Readers /\ ReadAbort(p)
  BY <1>8, Zenon DEF ReadAbort, pipe, open, total
<1>9. CASE p \in Readers /\ ReadWait(p)
  BY <1>9, Zenon DEF ReadWait, pipe, open, total
<1>10. CASE p \in Readers /\ ReadStart(p)
  BY <1>10, Zenon DEF ReadStart, pipe, open, total
<1>11. CASE p \in Readers /\ ReadByte(p)
  BY <1>11, Zenon DEF ReadByte, pipe, open, total
<1>12. CASE p \in Readers /\ ReadReturn(p)
  BY <1>12, Zenon DEF ReadReturn, pipe, open, total, ReadEnds
<1>13. CASE p \in Readers /\ ReadFault(p)
  BY <1>13, Zenon DEF ReadFault, pipe, open, total, ReadEnds
<1>14. CASE p \in Writers /\ WriteCall(p)
  BY <1>14, Zenon DEF WriteCall, pipe, open, total
<1>15. CASE p \in Readers /\ ReadCall(p)
  BY <1>15, Zenon DEF ReadCall, pipe, open, total
<1>16. CASE FileClose(p)
  <2>1. pc[p] \in {"idle", "done"} /\ pi \in {"live", "freed"}
    BY <1>16, Zenon DEF FileClose
  <2>2. \A q \in EndOf(p) \ {p} : pc[q] # "closing"
    BY <2>1
  <2>3. CASE \E q \in EndOf(p) \ {p} : pc[q] \in HasFile
    BY <1>16, <2>1, <2>2, <2>3 DEF FileClose, open, total
  <2>4. CASE \A q \in EndOf(p) \ {p} : pc[q] \notin HasFile
    <3>1. \A q \in EndOf(p) \ {p} : pc[q] = "closed"
      BY <2>1, <2>2, <2>4, Zenon
    <3> QED
      BY <1>16, <2>1, <2>4, <3>1 DEF FileClose, open, total
  <2> QED
    BY <2>3, <2>4, Zenon
<1>17. CASE Kill(p)
  BY <1>17, Zenon DEF Kill, pipe, open, total
<1> QED
  BY <1>1, <1>2, <1>3, <1>4, <1>5, <1>6, <1>7, <1>8, <1>9, <1>10, <1>11, <1>12, <1>13, <1>14, <1>15, <1>16, <1>17, Zenon DEF ProcStep, KernelStep, UserStep

\* No step of a process breaks what a process about to sleep knows.
LEMMA SleepStep ==
  ASSUME PipeInv, NEW p \in Procs, ProcStep(p)
  PROVE  SleepInv'
<1> USE ProcAssumption, SizeAssumption DEF PipeInv, Procs, PCs, HasFile, InCall, Critical, wakeup, SleepInv, TypeOK, MutualExclusion, FileInv, Full, Empty
<1>1. CASE Acquire(p)
  BY <1>1, Zenon DEF Acquire, pipe, open, total
<1>2. CASE Sleep(p)
  BY <1>2 DEF Sleep, pipe, open, total
<1>3. CASE PipeClose(p)
  BY <1>3 DEF PipeClose, pipe, open, total
<1>4. CASE p \in Writers /\ WriteAbort(p)
  BY <1>4, Zenon DEF WriteAbort, pipe, open, total
<1>5. CASE p \in Writers /\ WriteFull(p)
  <2>1. /\ pc[p] = "loop" /\ Full /\ readopen = 1
        /\ UNCHANGED <<lock, nread, nwrite, readopen, writeopen>>
    BY <1>5, Zenon DEF WriteFull, WriteGivesUp, pipe, open
  <2>2. pc' = [wakeup(Readers) EXCEPT ![p] = "tosleep"]
    BY <1>5, Zenon DEF WriteFull
  <2>3. \A r \in Readers : pc'[r] # "asleep" /\ (pc'[r] = "tosleep" => pc[r] = "tosleep")
    BY <1>5, <2>2
  <2>4. \A w \in Writers : w # p => pc'[w] = pc[w]
    BY <2>2, Zenon
  <2>5. \A w \in Writers : pc[w] = "tosleep" => w = p
    BY <2>1, Zenon
  <2> QED
    BY <2>1, <2>3, <2>4, <2>5, Zenon
<1>6. CASE p \in Writers /\ WriteByte(p)
  BY <1>6, Zenon DEF WriteByte, pipe, open, total
<1>7. CASE p \in Writers /\ WriteReturn(p)
  BY <1>7, Zenon DEF WriteReturn, pipe, open, total
<1>8. CASE p \in Readers /\ ReadAbort(p)
  BY <1>8, Zenon DEF ReadAbort, pipe, open, total
<1>9. CASE p \in Readers /\ ReadWait(p)
  BY <1>9 DEF ReadWait, pipe, open, total
<1>10. CASE p \in Readers /\ ReadStart(p)
  BY <1>10, Zenon DEF ReadStart, pipe, open, total
<1>11. CASE p \in Readers /\ ReadByte(p)
  BY <1>11, Zenon DEF ReadByte, pipe, open, total
<1>12. CASE p \in Readers /\ ReadReturn(p)
  BY <1>12, Zenon DEF ReadReturn, pipe, open, total, ReadEnds
<1>13. CASE p \in Readers /\ ReadFault(p)
  BY <1>13, Zenon DEF ReadFault, pipe, open, total, ReadEnds
<1>14. CASE p \in Writers /\ WriteCall(p)
  BY <1>14, Zenon DEF WriteCall, pipe, open, total
<1>15. CASE p \in Readers /\ ReadCall(p)
  BY <1>15, Zenon DEF ReadCall, pipe, open, total
<1>16. CASE FileClose(p)
  BY <1>16, Zenon DEF FileClose, pipe, open, total
<1>17. CASE Kill(p)
  BY <1>17, Zenon DEF Kill, pipe, open, total
<1> QED
  BY <1>1, <1>2, <1>3, <1>4, <1>5, <1>6, <1>7, <1>8, <1>9, <1>10, <1>11, <1>12, <1>13, <1>14, <1>15, <1>16, <1>17, Zenon DEF ProcStep, KernelStep, UserStep

\* No step of a process loses a wakeup.
LEMMA ForgottenStep ==
  ASSUME PipeInv, NEW p \in Procs, ProcStep(p)
  PROVE  (WriterNotForgotten /\ ReaderNotForgotten)'
<1> USE ProcAssumption, SizeAssumption DEF PipeInv, Procs, PCs, HasFile, InCall, Critical, wakeup, WriterNotForgotten, ReaderNotForgotten, SleepInv, TypeOK, MutualExclusion, FileInv, Full, Empty, EndOf, WriteGivesUp
<1>1. CASE Acquire(p)
  BY <1>1, Zenon DEF Acquire, pipe, open, total
<1>2. CASE Sleep(p)
  BY <1>2, Zenon DEF Sleep, pipe, open, total
<1>3. CASE PipeClose(p)
  BY <1>3, Zenon DEF PipeClose, pipe, open, total
<1>4. CASE p \in Writers /\ WriteAbort(p)
  BY <1>4, Zenon DEF WriteAbort, pipe, open, total
<1>5. CASE p \in Writers /\ WriteFull(p)
  BY <1>5, Zenon DEF WriteFull, WriteGivesUp, pipe, open, total
<1>6. CASE p \in Writers /\ WriteByte(p)
  BY <1>6, Zenon DEF WriteByte, pipe, open, total
<1>7. CASE p \in Writers /\ WriteReturn(p)
  BY <1>7, Zenon DEF WriteReturn, pipe, open, total
<1>8. CASE p \in Readers /\ ReadAbort(p)
  BY <1>8, Zenon DEF ReadAbort, pipe, open, total
<1>9. CASE p \in Readers /\ ReadWait(p)
  BY <1>9, Zenon DEF ReadWait, pipe, open, total
<1>10. CASE p \in Readers /\ ReadStart(p)
  BY <1>10, Zenon DEF ReadStart, pipe, open, total
<1>11. CASE p \in Readers /\ ReadByte(p)
  BY <1>11, Zenon DEF ReadByte, pipe, open, total
<1>12. CASE p \in Readers /\ ReadReturn(p)
  BY <1>12, Zenon DEF ReadReturn, pipe, open, total, ReadEnds
<1>13. CASE p \in Readers /\ ReadFault(p)
  BY <1>13, ZenonT(60) DEF ReadFault, pipe, open, total, ReadEnds
<1>14. CASE p \in Writers /\ WriteCall(p)
  BY <1>14, Zenon DEF WriteCall, pipe, open, total
<1>15. CASE p \in Readers /\ ReadCall(p)
  BY <1>15, Zenon DEF ReadCall, pipe, open, total
<1>16. CASE FileClose(p)
  BY <1>16, Zenon DEF FileClose, pipe, open, total
<1>17. CASE Kill(p)
  BY <1>17, Zenon DEF Kill, pipe, open, total
<1> QED
  BY <1>1, <1>2, <1>3, <1>4, <1>5, <1>6, <1>7, <1>8, <1>9, <1>10, <1>11, <1>12, <1>13, <1>14, <1>15, <1>16, <1>17, Zenon DEF ProcStep, KernelStep, UserStep

\* A byte that is written goes behind the bytes in the pipe.
LEMMA PutOrder ==
  ASSUME PipeInv, NEW p \in Procs, WriteByte(p)
  PROVE  BytesInOrder'
<1> USE WordType DEF PipeInv
<1>1. wTotal \in Nat /\ rTotal \in Nat /\ rTotal <= wTotal /\ wTotal < rTotal + PipeSize
  BY EmptyFull DEF WriteByte, BytesInOrder, TypeOK
<1>2. nwrite' = (wTotal + 1) % Word
  <2>1. wTotal \in Int /\ 1 \in Int /\ Word \in Nat \ {0}
    BY <1>1
  <2>2. ((wTotal % Word) + 1) % Word = (wTotal + 1) % Word
    BY <2>1, ModPlus, Zenon
  <2> QED
    BY <2>2, Zenon DEF WriteByte, BytesInOrder
<1> DEFINE s == wTotal % PipeSize
<1>3. nwrite % PipeSize = s
  BY <1>1, SlotOfCounter, Zenon DEF BytesInOrder
<1>4. s \in 0..PipeSize-1
  BY <1>1, ModDecompose
<1>5. data' = [data EXCEPT ![s] = wTotal]
  BY <1>3, Zenon DEF WriteByte
<1>6. ASSUME NEW k \in rTotal..wTotal PROVE data'[k % PipeSize] = k
  <2>1. k \in Nat /\ k % PipeSize \in 0..PipeSize-1
    BY <1>1, ModDecompose
  <2>2. CASE k = wTotal
    BY <1>4, <1>5, <2>2, Zenon DEF TypeOK
  <2>3. CASE k < wTotal
    <3>0. k \in Nat /\ wTotal \in Nat /\ k < wTotal /\ wTotal < k + PipeSize
      BY <1>1, <2>1, <2>3
    <3>1. k % PipeSize # s
      BY <3>0, SlotsDiffer, Zenon
    <3>2. data[k % PipeSize] = k
      BY <1>1, <2>1, <2>3 DEF BytesInOrder
    <3> HIDE DEF s
    <3> QED
      BY <1>4, <1>5, <2>1, <3>1, <3>2, Zenon DEF TypeOK
  <2> QED
    BY <1>1, <2>1, <2>2, <2>3
<1>7. wTotal' = wTotal + 1 /\ rTotal' = rTotal /\ nread' = nread
  BY Zenon DEF WriteByte
<1>8. \A k \in rTotal'..wTotal'-1 : data'[k % PipeSize] = k
  BY <1>1, <1>6, <1>7
<1>9. nread' = rTotal' % Word /\ nwrite' = wTotal' % Word
  BY <1>2, <1>7, Zenon DEF BytesInOrder
<1> QED
  BY <1>1, <1>7, <1>8, <1>9 DEF BytesInOrder

\* A byte that is read was the first one in the pipe.
LEMMA GetOrder ==
  ASSUME PipeInv, nread # nwrite, nread' = (nread + 1) % Word, rTotal' = rTotal + 1,
         UNCHANGED <<data, nwrite, wTotal>>
  PROVE  BytesInOrder'
<1> USE WordType DEF PipeInv
<1>1. wTotal \in Nat /\ rTotal \in Nat /\ rTotal < wTotal /\ wTotal <= rTotal + PipeSize
  BY EmptyFull DEF Empty, BytesInOrder, TypeOK
<1>2. rTotal \in Int /\ 1 \in Int /\ Word \in Nat \ {0}
  BY <1>1
<1>3. ((rTotal % Word) + 1) % Word = (rTotal + 1) % Word
  BY <1>2, ModPlus, Zenon
<1>4. nread' = rTotal' % Word /\ nwrite' = wTotal' % Word
  BY <1>3, Zenon DEF BytesInOrder
<1>5. \A k \in rTotal'..wTotal'-1 : data'[k % PipeSize] = k
  BY <1>1 DEF BytesInOrder
<1> QED
  BY <1>1, <1>4, <1>5 DEF BytesInOrder

\* No step of a process disturbs the bytes in the pipe.
LEMMA OrderStep ==
  ASSUME PipeInv, NEW p \in Procs, ProcStep(p)
  PROVE  BytesInOrder'
<1>1. CASE WriteByte(p)
  BY <1>1, PutOrder, Zenon
<1>2. CASE ReadByte(p) \/ ReadFault(p)
  BY <1>2, GetOrder, Zenon DEF ReadByte, ReadFault, Empty
<1>3. CASE UNCHANGED <<pipe, total>>
  BY <1>3, Zenon DEF PipeInv, BytesInOrder, pipe, total
<1> QED
  BY <1>1, <1>2, <1>3, Zenon DEF ProcStep, KernelStep, UserStep, Acquire, Sleep, PipeClose, Kill, FileClose,
     WriteCall, WriteAbort, WriteFull, WriteReturn, ReadCall, ReadAbort, ReadWait, ReadStart, ReadReturn

-----------------------------------------------------------------------------
\* The invariant holds in every reachable state.

\* Nothing is open or held before pipealloc.
LEMMA InitPipeInv == Init => PipeInv
<1> SUFFICES ASSUME Init PROVE PipeInv
  BY Zenon
<1>1. 0 \in 0..Word-1 /\ 0 % Word = 0 /\ PipeSize \in Nat
  BY WordType, ModSmall
<1>2. TypeOK
  BY <1>1, Zenon DEF Init, TypeOK, PCs
<1>3. BytesInOrder
  BY <1>1 DEF Init, BytesInOrder
<1>4. MutualExclusion /\ FileInv /\ SleepInv /\ WriterNotForgotten /\ ReaderNotForgotten
  BY ProcAssumption, Zenon DEF Init, MutualExclusion, Critical, FileInv, SleepInv, WriterNotForgotten, ReaderNotForgotten, Procs
<1> QED
  BY <1>2, <1>3, <1>4, Zenon DEF PipeInv

\* pipealloc hands out an empty pipe with both ends open.
LEMMA AllocPipeInv == PipeInv /\ (PipeAlloc \/ PipeAllocBad) => PipeInv'
<1> SUFFICES ASSUME PipeInv, PipeAlloc \/ PipeAllocBad PROVE PipeInv'
  BY Zenon
<1>1. 0 \in 0..Word-1 /\ 0 % Word = 0 /\ PipeSize \in Nat
  BY WordType, ModSmall
<1>2. wTotal = 0 /\ rTotal = 0 /\ wTotal' = 0 /\ rTotal' = 0 /\ lock = NoProc /\ lock' = NoProc
  BY Zenon DEF PipeInv, FileInv, MutualExclusion, Critical, TypeOK, PipeAlloc, PipeAllocBad, total
<1>3. TypeOK'
  BY <1>1, Zenon DEF PipeInv, TypeOK, PCs, HasFile, PipeAlloc, PipeAllocBad, pipe, open, total
<1>4. BytesInOrder'
  BY <1>1, <1>2, Zenon DEF PipeInv, BytesInOrder, PipeAlloc, PipeAllocBad, pipe
<1>5. MutualExclusion'
  BY <1>2, ProcAssumption, Zenon DEF PipeInv, MutualExclusion, Critical, PipeAlloc, PipeAllocBad, Procs
<1>6. FileInv' /\ SleepInv' /\ WriterNotForgotten' /\ ReaderNotForgotten'
  BY <1>2 DEF PipeInv, FileInv, SleepInv, WriterNotForgotten, ReaderNotForgotten, PipeAlloc, PipeAllocBad, open, Procs
<1> QED
  BY <1>3, <1>4, <1>5, <1>6, Zenon DEF PipeInv

\* Every step keeps the invariant.
LEMMA NextPipeInv == PipeInv /\ [Next]_vars => PipeInv'
<1> SUFFICES ASSUME PipeInv, [Next]_vars PROVE PipeInv'
  BY Zenon
<1>1. CASE \E p \in Procs : ProcStep(p)
  BY <1>1, TypeStep, OrderStep, LockStep, FileStep, SleepStep, ForgottenStep, Zenon DEF PipeInv
<1>2. CASE PipeAlloc \/ PipeAllocBad
  BY <1>2, AllocPipeInv, Zenon
<1>3. CASE UNCHANGED vars
  BY <1>3, Zenon DEF vars, pipe, open, total, PipeInv, TypeOK, BytesInOrder, MutualExclusion, FileInv, SleepInv,
     WriterNotForgotten, ReaderNotForgotten, Empty, Full
<1> QED
  BY <1>1, <1>2, <1>3, Zenon DEF Next, Terminated, ProcStep

\* The conjunction the theorems below are read off.
THEOREM PipeInvariant == Safe => []PipeInv
  BY InitPipeInv, NextPipeInv, PTL DEF Safe

\* The counters of struct pipe stay uints and its flags flags.
THEOREM TypeCorrect == Safe => []TypeOK
  BY PipeInvariant, PTL DEF PipeInv

\* pipewrite and piperead keep the bytes in order, for any number of
\* readers and writers, any PIPESIZE that divides 2^32 more than once, and
\* across every wrap of nread and nwrite.
THEOREM OrderKept == Safe => []BytesInOrder
  BY PipeInvariant, PTL DEF PipeInv

\* pi->lock protects the critical sections of pipewrite and piperead.
THEOREM LockExcludes == Safe => []MutualExclusion
  BY PipeInvariant, PTL DEF PipeInv

\* The tests of pipewrite and piperead and the wakeups of both and of pipeclose
\* together never forget a sleeping writer, nor a sleeping reader unless a writer
\* was killed.
THEOREM SleepersWoken == Safe => []SleepersNotForgotten
  BY PipeInvariant, PTL DEF PipeInv, SleepersNotForgotten

\* pipeclose frees the page of the pipe after its last use.
THEOREM FreedUnused == Safe => []NoUseAfterFree
<1>1. PipeInv => NoUseAfterFree
  BY ProcAssumption, Zenon DEF PipeInv, FileInv, MutualExclusion, TypeOK, NoUseAfterFree, Critical, Procs
<1> QED
  BY <1>1, PipeInvariant, PTL

-----------------------------------------------------------------------------
\* The pipe implements the channel.

\* The bytes a, a+1, ..., b-1.
Run(a, b) == [k \in 1..(b - a) |-> a + k - 1]

\* The queue of the channel is the run of bytes written and not yet read.
LEMMA ContentsIsRun == PipeInv => Contents = Run(rTotal, wTotal)
<1> SUFFICES ASSUME PipeInv PROVE Contents = Run(rTotal, wTotal)
  BY Zenon
<1>1. /\ wTotal \in Int /\ rTotal \in Int /\ Word \in Nat \ {0} /\ PipeSize \in Nat \ {0}
      /\ rTotal \in Nat /\ wTotal - rTotal \in 0..Word-1
      /\ nread = rTotal % Word /\ nwrite = wTotal % Word /\ nread \in Int
  BY WordType DEF PipeInv, TypeOK, BytesInOrder
<1>2. PICK q \in Int : rTotal = q * Word + nread
  BY <1>1, ModDecompose, Zenon
<1>3. (nwrite - nread) % Word = wTotal - rTotal
  <2> DEFINE c == -nread
  <2> DEFINE d == wTotal - rTotal
  <2>1. c \in Int /\ d \in Int /\ nwrite + c = nwrite - nread
    BY <1>1, ModDecompose
  <2>2. wTotal + c = d + q * Word
    BY <1>1, <1>2
  <2>3. d % Word = d
    BY <1>1, ModSmall, Zenon
  <2> HIDE DEF c, d
  <2>4. (nwrite + c) % Word = (wTotal + c) % Word
    BY <1>1, <2>1, ModPlus, Zenon
  <2>5. (d + q * Word) % Word = d % Word
    BY <1>1, <2>1, ModShift, Zenon
  <2> QED
    BY <2>1, <2>2, <2>3, <2>4, <2>5, Zenon DEF d
<1>4. ASSUME NEW k \in 1..(wTotal - rTotal)
      PROVE  data[(nread + k - 1) % PipeSize] = rTotal + k - 1
  <2> DEFINE x == nread + k - 1
  <2> DEFINE y == rTotal + k - 1
  <2> DEFINE z == q * Laps
  <2>1. q * Word = z * PipeSize /\ z \in Int
    BY SizeAssumption DEF Word
  <2>2. x \in Int /\ y \in rTotal..wTotal-1
    BY <1>1
  <2>3. y = x + q * Word
    BY <1>1, <1>2
  <2> HIDE DEF x, y, z
  <2>4. (x + z * PipeSize) % PipeSize = x % PipeSize
    BY <1>1, <2>1, <2>2, ModShift, Zenon
  <2>5. data[y % PipeSize] = y
    BY <2>2, Zenon DEF PipeInv, BytesInOrder
  <2>6. x % PipeSize = y % PipeSize
    BY <2>1, <2>3, <2>4, Zenon
  <2> QED
    BY <2>5, <2>6, Zenon DEF x, y
<1> QED
  BY <1>3, <1>4, Zenon DEF Contents, Run

\* The same in the next state.
LEMMA ContentsIsRunNext == PipeInv' => Contents' = Run(rTotal', wTotal')
<1>1. PipeInv' => (Contents = Run(rTotal, wTotal))'
  BY ContentsIsRun, PTL
<1> QED
  BY <1>1, Zenon DEF Run

\* Adding the next byte to a run, and taking away the first.
LEMMA RunSteps ==
  ASSUME NEW a \in Nat, NEW b \in Nat, a <= b
  PROVE  /\ Run(a, b) \in Seq(Nat) /\ Len(Run(a, b)) = b - a
         /\ Append(Run(a, b), b) = Run(a, b + 1)
         /\ a < b => Tail(Run(a, b)) = Run(a + 1, b)
         /\ a < b => Run(a, b) # << >>
         /\ Run(a, a) = << >>
<1>1. Run(a, b) \in Seq(Nat) /\ Len(Run(a, b)) = b - a
  BY DEF Run
<1>2. Append(Run(a, b), b) = Run(a, b + 1)
  BY DEF Run
<1>3. ASSUME a < b PROVE Tail(Run(a, b)) = Run(a + 1, b) /\ Run(a, b) # << >>
  BY <1>1, <1>3 DEF Run
<1>4. Run(a, a) = << >>
  BY DEF Run
<1> QED
  BY <1>1, <1>2, <1>3, <1>4, Zenon

\* Every step of a process is a step of the channel or changes nothing there.
LEMMA StepRefines ==
  ASSUME PipeInv, PipeInv', NEW p \in Procs, ProcStep(p)
  PROVE  [C!Next]_C!chanVars
<1>1. Contents = Run(rTotal, wTotal) /\ Contents' = Run(rTotal', wTotal')
  BY ContentsIsRun, ContentsIsRunNext, Zenon
<1>2. /\ wTotal \in Nat /\ rTotal \in Nat /\ rTotal <= wTotal /\ PipeSize \in Nat
      /\ wTotal <= rTotal + PipeSize /\ readopen \in {0, 1} /\ writeopen \in {0, 1}
  BY WordType, Zenon DEF PipeInv, TypeOK, BytesInOrder
<1>3. pc[p] # "nofile" /\ pc[p] # "closed" => pi \in {"live", "freed"}
  BY Zenon DEF PipeInv, FileInv, TypeOK
<1>4. CASE p \in Writers /\ WriteByte(p)
  <2>1. wTotal' = wTotal + 1 /\ rTotal' = rTotal /\ UNCHANGED <<readopen, writeopen>>
    BY <1>4, Zenon DEF WriteByte, open
  <2>2. readopen = 1 /\ writeopen = 1
    <3>1. readopen = 1 /\ pc[p] = "loop"
      BY <1>2, <1>4, Zenon DEF WriteByte, WriteGivesUp
    <3>2. pi \in {"live", "freed"}
      BY <1>3, <3>1, Zenon
    <3>3. FileInv /\ p \in Writers
      BY <1>4, Zenon DEF PipeInv
    <3> QED
      BY <1>2, <3>1, <3>2, <3>3, Zenon DEF FileInv
  <2>3. wTotal < rTotal + PipeSize
    BY <1>2, <1>4, EmptyFull DEF WriteByte, PipeInv
  <2>4. Len(Contents) < PipeSize /\ Contents' = Append(Contents, wTotal)
    <3>1. /\ Len(Run(rTotal, wTotal)) = wTotal - rTotal
          /\ Append(Run(rTotal, wTotal), wTotal) = Run(rTotal, wTotal + 1)
      BY <1>2, RunSteps, Zenon
    <3>2. Contents' = Run(rTotal, wTotal + 1)
      BY <1>1, <2>1, Zenon
    <3> QED
      BY <1>1, <1>2, <2>3, <3>1, <3>2
  <2> QED
    BY <2>1, <2>2, <2>4, Zenon DEF C!Next, C!Put
<1>5. CASE p \in Readers /\ (ReadByte(p) \/ ReadFault(p))
  <2>1. wTotal' = wTotal /\ rTotal' = rTotal + 1 /\ UNCHANGED <<readopen, writeopen>>
    BY <1>5, Zenon DEF ReadByte, ReadFault, open
  <2>2. readopen = 1
    BY <1>2, <1>3, <1>5, Zenon DEF ReadByte, ReadFault, PipeInv, FileInv
  <2>3. rTotal < wTotal
    BY <1>2, <1>5, EmptyFull DEF ReadByte, ReadFault, PipeInv
  <2>4. Contents # << >> /\ Contents' = Tail(Contents)
    BY <1>1, <1>2, <2>1, <2>3, RunSteps, Zenon
  <2> QED
    BY <2>1, <2>2, <2>4, Zenon DEF C!Next, C!Get
<1>6. CASE PipeClose(p)
  <2>1. UNCHANGED <<wTotal, rTotal>> /\ Contents' = Contents
    BY <1>1, <1>6, Zenon DEF PipeClose, total
  <2>2. p \in Writers => writeopen = 1 /\ writeopen' = 0 /\ readopen' = readopen
    BY <1>2, <1>3, <1>6, ProcAssumption, Zenon DEF PipeClose, PipeInv, FileInv
  <2>3. p \in Readers => readopen = 1 /\ readopen' = 0 /\ writeopen' = writeopen
    BY <1>2, <1>3, <1>6, ProcAssumption, Zenon DEF PipeClose, PipeInv, FileInv
  <2> QED
    BY <2>1, <2>2, <2>3, Zenon DEF C!Next, C!CloseRead, C!CloseWrite, Procs
<1>7. CASE UNCHANGED <<pipe, total, open>>
  BY <1>1, <1>7, Zenon DEF total, open, C!chanVars
<1> QED
  BY <1>4, <1>5, <1>6, <1>7, Zenon DEF ProcStep, KernelStep, UserStep, Acquire, Sleep, Kill, FileClose,
     WriteCall, WriteAbort, WriteFull, WriteReturn, ReadCall, ReadAbort, ReadWait, ReadStart, ReadReturn, ReadEnds

\* kernel/pipe.c implements the bounded FIFO channel: nothing is lost,
\* duplicated or reordered, nothing is accepted after an end is closed.
THEOREM PipeIsChannel == Safe => ImplementsChannel
<1>1. Init => C!Init
  <2> SUFFICES ASSUME Init PROVE C!Init
    BY Zenon
  <2>1. PipeInv /\ Run(0, 0) = << >>
    BY InitPipeInv, RunSteps
  <2>2. Contents = << >>
    BY <2>1, ContentsIsRun, Zenon DEF Init
  <2> QED
    BY <2>2, Zenon DEF Init, C!Init
<1>2. PipeInv /\ PipeInv' /\ [Next]_vars => [C!Next]_C!chanVars
  <2> SUFFICES ASSUME PipeInv, PipeInv', [Next]_vars PROVE [C!Next]_C!chanVars
    BY Zenon
  <2>1. Contents = Run(rTotal, wTotal) /\ Contents' = Run(rTotal', wTotal')
    BY ContentsIsRun, ContentsIsRunNext, Zenon
  <2>2. CASE \E p \in Procs : ProcStep(p)
    BY <2>2, StepRefines, Zenon
  <2>3. CASE PipeAlloc
    <3>1. readopen = 0 /\ writeopen = 0 /\ wTotal = 0
      BY <2>3, Zenon DEF PipeAlloc, PipeInv, FileInv
    <3> QED
      BY <2>1, <2>3, <3>1, Zenon DEF PipeAlloc, total, C!Next, C!Open
  <2>4. CASE PipeAllocBad \/ UNCHANGED vars
    BY <2>1, <2>4, Zenon DEF PipeAllocBad, vars, total, open, C!chanVars
  <2> QED
    BY <2>2, <2>3, <2>4, Zenon DEF Next, Terminated, ProcStep
<1> QED
  BY <1>1, <1>2, PipeInvariant, PTL DEF Safe, ImplementsChannel, C!Spec
=============================================================================

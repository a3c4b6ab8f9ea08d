--------------------------- MODULE RingBookProofs ---------------------------
(***************************************************************************)
(* Proofs about RingBook, for every ring size, word size, chunk size and   *)
(* initial value of the counters.                                          *)
(***************************************************************************)
EXTENDS RingBook, TLAPS

-----------------------------------------------------------------------------
\* Arithmetic of the int conversions.

\* ToInt adds a multiple of Word to its argument.
LEMMA ToIntCongruent ==
  ASSUME NEW x \in Int
  PROVE  \E k \in Int : ToInt(x) = x + k * Word
<1> DEFINE q == x \div Word
<1>1. Word \in Nat \ {0}
  BY BufAssumption, WordAssumption DEF Word
<1>2. q \in Int /\ x = Word * q + (x % Word)
  BY <1>1
<1>3. ToInt(x) = x % Word \/ ToInt(x) = (x % Word) - Word
  BY Zenon DEF ToInt
<1>4. (x % Word) \in Int
  BY <1>1
<1>5. ASSUME ToInt(x) = x % Word PROVE ToInt(x) = x + (-q) * Word
  BY <1>1, <1>2, <1>4, <1>5
<1>6. ASSUME ToInt(x) = (x % Word) - Word PROVE ToInt(x) = x + (-q-1) * Word
  BY <1>1, <1>2, <1>4, <1>6
<1> QED
  BY <1>2, <1>3, <1>5, <1>6

\* ToInt yields an int.
LEMMA ToIntRange ==
  ASSUME NEW x \in Int
  PROVE  ToInt(x) \in Ints
<1>1. Word \in Nat \ {0}
  BY BufAssumption, WordAssumption DEF Word
<1>2. (x % Word) \in 0..Word-1
  BY <1>1
<1> QED
  BY <1>2, WordAssumption DEF ToInt, Ints, Word

\* An int is what ToInt yields for any integer congruent to it.
LEMMA ToIntUnique ==
  ASSUME NEW x \in Int, NEW y \in Ints, NEW k \in Int, y = x + k * Word
  PROVE  ToInt(x) = y
<1>1. Word \in Nat \ {0} /\ Word = 2 * HalfWord /\ HalfWord \in Nat
  BY BufAssumption, WordAssumption DEF Word
<1>2. PICK j \in Int : ToInt(x) = x + j * Word
  BY ToIntCongruent, Zenon
<1>3. ToInt(x) \in Ints
  BY ToIntRange, Zenon
<1>4. ToInt(x) \in Int /\ y \in Int /\ ToInt(x) - y < Word /\ y - ToInt(x) < Word
  BY <1>1, <1>3 DEF Ints
<1>5. ToInt(x) - y = (j - k) * Word
  BY <1>1, <1>2, <1>4
<1>6. j - k >= 1 => (j - k) * Word >= Word
  BY <1>1
<1>7. j - k <= -1 => (j - k) * Word <= -Word
  BY <1>1
<1>8. j = k
  BY <1>1, <1>4, <1>5, <1>6, <1>7
<1> QED
  BY <1>2, <1>8, Zenon

\* What start_write computes from the truncated counters of a ring whose
\* occupancy w - r is at most BufSize is the free space.
LEMMA SpaceLeftExact ==
  ASSUME NEW b \in Int, NEW w \in Nat, NEW r \in Nat, r <= w, w <= r + BufSize
  PROVE  SpaceLeft(ToInt(b + w), ToInt(b + r)) = BufSize - (w - r)
<1>1. Word \in Nat /\ BufSize \in Nat
  BY BufAssumption, WordAssumption DEF Word
<1>2. PICK j \in Int : ToInt(b + w) = (b + w) + j * Word
  BY ToIntCongruent
<1>3. PICK k \in Int : ToInt(b + r) = (b + r) + k * Word
  BY ToIntCongruent
<1> DEFINE x == BufSize - (ToInt(b + w) - ToInt(b + r))
<1> DEFINE y == BufSize - (w - r)
<1>4. x \in Int /\ y = x + (j - k) * Word
  BY <1>1, <1>2, <1>3
<1>5. y \in Ints
  BY BufAssumption, WordAssumption DEF Ints
<1>6. ToInt(x) = y
  BY <1>4, <1>5, ToIntUnique
<1> QED
  BY <1>6, Zenon DEF SpaceLeft

\* Likewise start_read computes the number of bytes written and not read.
LEMMA BytesAvailableExact ==
  ASSUME NEW b \in Int, NEW w \in Nat, NEW r \in Nat, r <= w, w <= r + BufSize
  PROVE  BytesAvailable(ToInt(b + w), ToInt(b + r)) = w - r
<1>1. Word \in Nat
  BY BufAssumption, WordAssumption DEF Word
<1>2. PICK j \in Int : ToInt(b + w) = (b + w) + j * Word
  BY ToIntCongruent
<1>3. PICK k \in Int : ToInt(b + r) = (b + r) + k * Word
  BY ToIntCongruent
<1> DEFINE x == ToInt(b + w) - ToInt(b + r)
<1> DEFINE y == w - r
<1>4. x \in Int /\ y = x + (k - j) * Word
  BY <1>1, <1>2, <1>3
<1>5. y \in Ints
  BY BufAssumption, WordAssumption DEF Ints
<1>6. ToInt(x) = y
  BY <1>4, <1>5, ToIntUnique
<1> QED
  BY <1>6, Zenon DEF BytesAvailable

\* Adding to a truncated counter is adding to the count it stands for.
LEMMA ToIntAdvance ==
  ASSUME NEW c \in Int, NEW n \in Int
  PROVE  ToInt(ToInt(c) + n) = ToInt(c + n)
<1>1. Word \in Nat
  BY BufAssumption, WordAssumption DEF Word
<1>2. PICK j \in Int : ToInt(c) = c + j * Word
  BY ToIntCongruent, Zenon
<1>3. PICK k \in Int : ToInt(c + n) = (c + n) + k * Word
  BY ToIntCongruent
<1>4. ToInt(c + n) \in Ints
  BY ToIntRange
<1>5. ToInt(c) + n \in Int /\ ToInt(c + n) = (ToInt(c) + n) + (k - j) * Word
  BY <1>1, <1>2, <1>3
<1> QED
  BY <1>4, <1>5, ToIntUnique

-----------------------------------------------------------------------------
\* The inductive invariant behind SpaceRespected.

\* Each counter is the int of the count it stands for.
Counters ==
  /\ write_done = ToInt(base + wTotal)
  /\ read_done = ToInt(base + rTotal)

\* Where the writer is, what its locals mean.  wread may be stale: it is
\* the int of some earlier number of bytes read.
WriterLocals ==
  /\ wpc \in {"start", "loadwrite", "copy", "finish", "store"} => wsize \in WSizes
  /\ wpc = "loadwrite" =>
       \E r \in Nat : r <= rTotal /\ wTotal <= r + BufSize /\ wread = ToInt(base + r)
  /\ wpc = "copy" => wi < wsize
  /\ wpc = "store" => wwrite = write_done

ReaderLocals ==
  /\ rpc \in {"start", "loadwrite", "copy", "finish", "store"} => rsize \in RSizes
  /\ rpc = "loadwrite" => rread = read_done
  /\ rpc = "copy" => ri < rsize
  /\ rpc = "store" => rread = read_done

BookInv == TypeOK /\ Counters /\ SpaceRespected /\ WriterLocals /\ ReaderLocals

\* Both the writer and the reader start with an empty ring.
LEMMA InitBookInv == Init => BookInv
<1> SUFFICES ASSUME Init PROVE BookInv
  BY Zenon
<1>1. base \in Int /\ BufSize \in Nat /\ base + 0 = base
  BY InitAssumption, BufAssumption DEF Init
<1>2. ToInt(base) \in Ints /\ 0 \in Ints
  BY <1>1, ToIntRange, WordAssumption, BufAssumption DEF Ints
<1> QED
  BY <1>1, <1>2 DEF Init, BookInv, TypeOK, Counters, SpaceRespected, WriterLocals, ReaderLocals, PCs, Ends

\* A step of the writer keeps the invariant.
LEMMA WriterBookInv == BookInv /\ WriterNext => BookInv'
<1> SUFFICES ASSUME BookInv, WriterNext PROVE BookInv'
  BY Zenon
<1> USE BufAssumption, SizeAssumption
<1>1. CASE WriterChunk
  BY <1>1 DEF WriterChunk, BookInv, TypeOK, Counters, SpaceRespected, WriterLocals, ReaderLocals, PCs, Ends, book, writer, reader
<1>2. CASE StartWriteInvalid
  BY <1>2, Zenon DEF StartWriteInvalid, BookInv, TypeOK, Counters, SpaceRespected, WriterLocals, ReaderLocals, PCs, Ends, book, writer, reader
<1>3. CASE StartWriteLoadRead
  <2>1. rTotal \in Nat /\ rTotal <= rTotal /\ wTotal <= rTotal + BufSize /\ wread' = ToInt(base + rTotal)
    BY <1>3 DEF StartWriteLoadRead, BookInv, TypeOK, Counters, SpaceRespected
  <2>2. WriterLocals'
    BY <1>3, <2>1, Zenon DEF StartWriteLoadRead, BookInv, TypeOK, Counters, SpaceRespected, WriterLocals, ReaderLocals, PCs, Ends, book, writer, reader
  <2> QED
    BY <1>3, <2>2, Zenon DEF StartWriteLoadRead, BookInv, TypeOK, Counters, SpaceRespected, WriterLocals, ReaderLocals, PCs, Ends, book, writer, reader
<1>4. CASE StartWriteLoadWrite
  <2>1. PICK r \in Nat : r <= rTotal /\ wTotal <= r + BufSize /\ wread = ToInt(base + r)
    BY <1>4, Zenon DEF StartWriteLoadWrite, BookInv, WriterLocals
  <2>2. base \in Int /\ wTotal \in Nat /\ rTotal \in Nat /\ r <= wTotal
    BY <2>1 DEF BookInv, TypeOK, SpaceRespected
  <2>3. SpaceLeft(write_done, wread) = BufSize - (wTotal - r)
    BY <2>1, <2>2, SpaceLeftExact, Zenon DEF BookInv, Counters
  <2>4. wpc' = "copy" => wTotal + wsize <= rTotal + BufSize
    BY <1>4, <2>1, <2>2, <2>3 DEF StartWriteLoadWrite, BookInv, TypeOK
  <2> QED
    BY <1>4, <2>4 DEF StartWriteLoadWrite, BookInv, TypeOK, Counters, SpaceRespected, WriterLocals, ReaderLocals, PCs, Ends, book, writer, reader
<1>5. CASE WriteByte
  <2>1. Phys(wi) \in 0..BufSize-1
    BY DEF Phys, AddrOffset, BookInv, TypeOK
  <2>2. buf' \in [0..BufSize-1 -> Nat \cup {-1}]
    BY <1>5, <2>1 DEF WriteByte, BookInv, TypeOK
  <2> QED
    BY <1>5, <2>2 DEF WriteByte, BookInv, TypeOK, Counters, SpaceRespected, WriterLocals, ReaderLocals, PCs, Ends, book, writer, reader
<1>6. CASE FinishWriteLoad
  BY <1>6, Zenon DEF FinishWriteLoad, BookInv, TypeOK, Counters, SpaceRespected, WriterLocals, ReaderLocals, PCs, Ends, book, writer, reader
<1>7. CASE FinishWriteStore
  <2>1. base + wTotal \in Int /\ wsize \in Int /\ (base + wTotal) + wsize = base + (wTotal + wsize)
    BY DEF BookInv, TypeOK
  <2>2. write_done' = ToInt(base + (wTotal + wsize))
    BY <1>7, <2>1, ToIntAdvance, Zenon DEF FinishWriteStore, BookInv, Counters, WriterLocals, ReaderLocals
  <2>3. write_done' \in Ints
    BY <2>1, <2>2, ToIntRange
  <2> QED
    BY <1>7, <2>2, <2>3 DEF FinishWriteStore, BookInv, TypeOK, Counters, SpaceRespected, WriterLocals, ReaderLocals, PCs, Ends, book, writer, reader
<1>8. CASE CloseWriter
  BY <1>8, Zenon DEF CloseWriter, BookInv, TypeOK, Counters, SpaceRespected, WriterLocals, ReaderLocals, PCs, Ends, book, writer, reader
<1> QED
  BY <1>1, <1>2, <1>3, <1>4, <1>5, <1>6, <1>7, <1>8, Zenon DEF WriterNext

\* A step of the reader keeps the invariant.
LEMMA ReaderBookInv == BookInv /\ ReaderNext => BookInv'
<1> SUFFICES ASSUME BookInv, ReaderNext PROVE BookInv'
  BY Zenon
<1> USE BufAssumption, SizeAssumption
<1>1. CASE ReaderChunk
  BY <1>1 DEF ReaderChunk, BookInv, TypeOK, Counters, SpaceRespected, WriterLocals, ReaderLocals, PCs, Ends, book, writer, reader
<1>2. CASE StartReadInvalid
  BY <1>2, Zenon DEF StartReadInvalid, BookInv, TypeOK, Counters, SpaceRespected, WriterLocals, ReaderLocals, PCs, Ends, book, writer, reader
<1>3. CASE StartReadLoadRead
  BY <1>3, Zenon DEF StartReadLoadRead, BookInv, TypeOK, Counters, SpaceRespected, WriterLocals, ReaderLocals, PCs, Ends, book, writer, reader
<1>4. CASE StartReadLoadWrite
  <2>1. base \in Int /\ wTotal \in Nat /\ rTotal \in Nat /\ rTotal <= wTotal /\ wTotal <= rTotal + BufSize
    BY Zenon DEF BookInv, TypeOK, SpaceRespected
  <2>11. write_done = ToInt(base + wTotal) /\ rread = ToInt(base + rTotal)
    BY <1>4, Zenon DEF StartReadLoadWrite, BookInv, Counters, ReaderLocals
  <2>12. BytesAvailable(ToInt(base + wTotal), ToInt(base + rTotal)) = wTotal - rTotal
    BY <2>1, BytesAvailableExact, Zenon
  <2>2. BytesAvailable(write_done, rread) = wTotal - rTotal
    BY <2>11, <2>12, Zenon
  <2>3. rpc' = "copy" => rTotal + rsize <= wTotal
    BY <1>4, <2>1, <2>2 DEF StartReadLoadWrite, BookInv, TypeOK
  <2> QED
    BY <1>4, <2>3 DEF StartReadLoadWrite, BookInv, TypeOK, Counters, SpaceRespected, WriterLocals, ReaderLocals, PCs, Ends, book, writer, reader
<1>5. CASE ReadByte
  BY <1>5 DEF ReadByte, BookInv, TypeOK, Counters, SpaceRespected, WriterLocals, ReaderLocals, PCs, Ends, book, writer, reader
<1>6. CASE FinishReadLoad
  BY <1>6, Zenon DEF FinishReadLoad, BookInv, TypeOK, Counters, SpaceRespected, WriterLocals, ReaderLocals, PCs, Ends, book, writer, reader
<1>7. CASE FinishReadStore
  <2>1. base + rTotal \in Int /\ rsize \in Int /\ (base + rTotal) + rsize = base + (rTotal + rsize)
    BY DEF BookInv, TypeOK
  <2>2. read_done' = ToInt(base + (rTotal + rsize))
    BY <1>7, <2>1, ToIntAdvance, Zenon DEF FinishReadStore, BookInv, Counters, WriterLocals, ReaderLocals
  <2>3. read_done' \in Ints
    BY <2>1, <2>2, ToIntRange
  <2>4. TypeOK'
    BY <1>7, <2>3 DEF FinishReadStore, BookInv, TypeOK, PCs, writer
  <2>5. SpaceRespected'
    BY <1>7 DEF FinishReadStore, BookInv, TypeOK, SpaceRespected, writer
  <2>6. Counters'
    BY <1>7, <2>2, Zenon DEF FinishReadStore, BookInv, TypeOK, Counters
  <2>7. ReaderLocals'
    BY <1>7, Zenon DEF FinishReadStore, BookInv, ReaderLocals
  <2>8. WriterLocals'
    <3>1. /\ UNCHANGED <<wpc, wsize, wread, wwrite, wi, write_done, wTotal, base>>
          /\ rTotal' = rTotal + rsize /\ rTotal \in Nat /\ rsize \in Nat
      BY <1>7 DEF FinishReadStore, BookInv, TypeOK, writer
    <3>2. \A r \in Nat : r <= rTotal => r <= rTotal'
      BY <3>1
    <3> QED
      BY <3>1, <3>2, Zenon DEF BookInv, WriterLocals
  <2> QED
    BY <2>4, <2>5, <2>6, <2>7, <2>8, Zenon DEF BookInv
<1>8. CASE CloseReader
  BY <1>8, Zenon DEF CloseReader, BookInv, TypeOK, Counters, SpaceRespected, WriterLocals, ReaderLocals, PCs, Ends, book, writer, reader
<1> QED
  BY <1>1, <1>2, <1>3, <1>4, <1>5, <1>6, <1>7, <1>8, Zenon DEF ReaderNext

\* The invariant holds in every reachable state.
THEOREM BookInvariant == Spec => []BookInv
<1>1. BookInv /\ [Next]_vars => BookInv'
  <2> SUFFICES ASSUME BookInv, [Next]_vars PROVE BookInv'
    BY Zenon
  <2>1. CASE WriterNext
    BY <2>1, WriterBookInv, Zenon
  <2>2. CASE ReaderNext
    BY <2>2, ReaderBookInv, Zenon
  <2>3. CASE UNCHANGED vars
    BY <2>3, Zenon DEF vars, book, writer, reader, BookInv, TypeOK, Counters, SpaceRespected, WriterLocals, ReaderLocals
  <2> QED
    BY <2>1, <2>2, <2>3, Zenon DEF Next, Terminated
<1> QED
  BY <1>1, InitBookInv, PTL DEF Spec

\* The counters of the book page are always ints and every index stays
\* inside the ring (store, load and the client loops of ringtest.c).
THEOREM TypeCorrect == Spec => []TypeOK
  BY BookInvariant, PTL DEF BookInv

\* ringbuf_start_write and ringbuf_start_read never grant more than there
\* is, for every ring size below 2^31, every mix of chunk sizes and every
\* initial value of the counters, whatever wraps.
THEOREM SpaceIsRespected == Spec => []SpaceRespected
  BY BookInvariant, PTL DEF BookInv

-----------------------------------------------------------------------------
\* Order.  Every chunk starts at the first byte of the ring, so order needs
\* chunks of one size more than half a ring: then at most one is in flight.

OneChunk(S) ==
  /\ S \in 1..BufSize /\ BufSize < 2 * S
  /\ WSizes = {S} /\ RSizes = {S}

\* The bytes a to a+n-1 of the stream are the first n of the ring.
Holds(a, n) == \A i \in 0..BufSize-1 : i < n => buf[i] = a + i

ChunkInv(S) ==
  /\ wTotal = rTotal \/ wTotal = rTotal + S
  /\ wTotal = rTotal + S => Holds(rTotal, S)
  /\ wpc = "copy" => Holds(wTotal, wi)
  /\ wpc \in {"finish", "store"} => Holds(wTotal, S)

\* A ring index below BufSize is the physical one.
LEMMA PhysId == ASSUME NEW i \in 0..BufSize-1 PROVE Phys(i) = i
  BY BufAssumption DEF Phys, AddrOffset

\* A step of the writer keeps the chunk in flight intact.
LEMMA WriterChunkInv ==
  ASSUME NEW S, OneChunk(S), BookInv, ChunkInv(S), WriterNext
  PROVE  ChunkInv(S)'
<1> USE BufAssumption DEF OneChunk
<1>1. BookInv'
  BY WriterBookInv, Zenon
<1>2. wpc \in {"start", "loadwrite", "copy", "finish", "store"} => wsize = S
  BY Zenon DEF BookInv, WriterLocals
<1>3. wpc \in {"copy", "finish", "store"} => wTotal = rTotal
  BY <1>2 DEF BookInv, SpaceRespected, TypeOK, ChunkInv
<1>4. CASE WriteByte
  <2>1. wi \in 0..BufSize-1 /\ wi < S
    BY <1>2, <1>4 DEF WriteByte, BookInv, WriterLocals, TypeOK
  <2>2. buf' = [buf EXCEPT ![wi] = wTotal + wi]
    BY <1>4, <2>1, PhysId, Zenon DEF WriteByte
  <2>3. \A i \in 0..BufSize-1 : i < wi + 1 => buf'[i] = wTotal + i
    <3>1. Holds(wTotal, wi) /\ buf \in [0..BufSize-1 -> Nat \cup {-1}]
      BY <1>4, Zenon DEF WriteByte, BookInv, TypeOK, ChunkInv
    <3> SUFFICES ASSUME NEW i \in 0..BufSize-1, i < wi + 1
                 PROVE  buf'[i] = wTotal + i
      BY Zenon
    <3>2. CASE i = wi
      BY <2>1, <2>2, <3>1, <3>2, Zenon
    <3>3. CASE i < wi
      BY <2>1, <2>2, <3>1, <3>3, Zenon DEF Holds
    <3> QED
      BY <2>1, <3>2, <3>3
  <2>4. wTotal' = rTotal' /\ wTotal' = wTotal /\ wi' = wi + 1 /\ S >= 1 /\ wTotal \in Nat
    BY <1>3, <1>4 DEF WriteByte, BookInv, TypeOK
  <2>5. Holds(wTotal, wi)'
    BY <2>3, <2>4, Zenon DEF Holds
  <2>6. wpc' = "finish" => wi + 1 = S
    BY <1>2, <1>4, <2>1 DEF WriteByte
  <2>7. wpc' \in {"finish", "store"} => Holds(wTotal, S)'
    BY <1>4, <2>3, <2>4, <2>6, Zenon DEF Holds, WriteByte
  <2> QED
    BY <2>4, <2>5, <2>7 DEF ChunkInv
<1>5. CASE FinishWriteStore
  BY <1>2, <1>3, <1>5, Zenon DEF FinishWriteStore, BookInv, TypeOK, ChunkInv, Holds
<1>6. CASE StartWriteLoadWrite
  BY <1>6 DEF StartWriteLoadWrite, BookInv, TypeOK, ChunkInv, Holds
<1>7. CASE WriterChunk \/ StartWriteInvalid \/ StartWriteLoadRead \/ FinishWriteLoad \/ CloseWriter
  BY <1>7, Zenon DEF WriterChunk, StartWriteInvalid, StartWriteLoadRead, FinishWriteLoad, CloseWriter, ChunkInv, Holds
<1> QED
  BY <1>4, <1>5, <1>6, <1>7, Zenon DEF WriterNext

\* A step of the reader keeps the chunk in flight intact.
LEMMA ReaderChunkInv ==
  ASSUME NEW S, OneChunk(S), BookInv, ChunkInv(S), ReaderNext
  PROVE  ChunkInv(S)'
<1> USE BufAssumption DEF OneChunk
<1>1. rpc \in {"copy", "finish", "store"} => rsize = S /\ wTotal = rTotal + S
  BY DEF BookInv, ReaderLocals, SpaceRespected, TypeOK, ChunkInv
<1>2. CASE FinishReadStore
  BY <1>1, <1>2 DEF FinishReadStore, writer, BookInv, TypeOK, ChunkInv, Holds
<1>3. CASE ReaderChunk \/ StartReadInvalid \/ StartReadLoadRead \/ StartReadLoadWrite
           \/ ReadByte \/ FinishReadLoad \/ CloseReader
  BY <1>3, Zenon DEF ReaderChunk, StartReadInvalid, StartReadLoadRead, StartReadLoadWrite, ReadByte,
              FinishReadLoad, CloseReader, writer, ChunkInv, Holds
<1> QED
  BY <1>2, <1>3, Zenon DEF ReaderNext

\* ringtest.c:97 for every ring size and every chunk size above half of it:
\* the reader finds the bytes the writer wrote, in order.
THEOREM OneChunkInOrder ==
  ASSUME NEW S, OneChunk(S)
  PROVE  Spec => []InOrder
<1>1. Init => ChunkInv(S)
  BY DEF Init, ChunkInv, OneChunk
<1>2. BookInv /\ ChunkInv(S) /\ [Next]_vars => ChunkInv(S)'
  <2> SUFFICES ASSUME BookInv, ChunkInv(S), [Next]_vars PROVE ChunkInv(S)'
    BY Zenon
  <2>1. CASE UNCHANGED vars
    BY <2>1, Zenon DEF vars, writer, ChunkInv, Holds
  <2> QED
    BY <2>1, WriterChunkInv, ReaderChunkInv, Zenon DEF Next, Terminated
<1>3. BookInv /\ ChunkInv(S) => InOrder
  <2> SUFFICES ASSUME BookInv, ChunkInv(S), rpc = "copy" PROVE buf[Phys(ri)] = rTotal + ri
    BY Zenon DEF InOrder
  <2>1. ri \in 0..BufSize-1 /\ ri < S /\ wTotal = rTotal + S
    BY BufAssumption DEF OneChunk, BookInv, ReaderLocals, SpaceRespected, TypeOK, ChunkInv
  <2>2. Phys(ri) = ri
    BY <2>1, PhysId, Zenon
  <2> QED
    BY <2>1, <2>2, Zenon DEF ChunkInv, Holds
<1> QED
  BY <1>1, <1>2, <1>3, BookInvariant, PTL DEF Spec
=============================================================================

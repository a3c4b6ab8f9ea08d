------------------------------ MODULE RingBook ------------------------------
(***************************************************************************)
(* The data path of a FastIPC ring, user/fastipc.h: one writer and one     *)
(* reader that share the pages of a ring and its book page, which holds    *)
(* the two counters read_done and write_done.  Every atomic load and store *)
(* of a counter and every byte the clients move is a step of its own.      *)
(*                                                                         *)
(* The clients are the loops of user/ringtest.c: wait until start_write    *)
(* (start_read) reports enough bytes, move that many bytes through the     *)
(* address it returned, call finish_write (finish_read).                   *)
(*                                                                         *)
(* A transfer starts when both ends have the ring and the counters are     *)
(* equal.  Two things come before it that are conditions here.             *)
(* createRingBuf stores 0 in both counters after createbuf has put the     *)
(* ring in the table, so an end that joins in between must not start until *)
(* the creator has done so.  And createRingBuf sets exists only for an end *)
(* that joins (the else of fastipc.h:56): exists of each end is therefore  *)
(* arbitrary at the start, and with both valid the ends are as the         *)
(* indentation of that else has them.                                      *)
(***************************************************************************)
EXTENDS Integers

CONSTANTS
  BufSize,    \* BUF_SIZE, the bytes of a ring
  HalfWord,   \* 2^31: load and store pass the counters through an int
  WSizes,     \* the chunk sizes the writer uses
  RSizes,     \* the chunk sizes the reader waits for
  InitBook,   \* what both counters may hold when the transfer starts
  MaxBytes    \* bound: a client that has moved this much closes its end

ASSUME BufAssumption == BufSize \in Nat \ {0}

\* BUF_SIZE is 2^16.
ASSUME WordAssumption == HalfWord \in Nat /\ BufSize < HalfWord

ASSUME SizeAssumption == WSizes \subseteq 1..BufSize /\ RSizes \subseteq 1..BufSize

ASSUME InitAssumption == InitBook \subseteq Int

ASSUME BoundAssumption == MaxBytes \in Nat

VARIABLES
  read_done, write_done,      \* the book page, shared
  buf,                        \* the bytes of the ring, shared
  exists,                     \* exists of each end's own descriptor
  wpc, wsize, wread, wwrite, wi,    \* the writer: where it is, its locals
  rpc, rsize, rread, rwrite, ri,    \* the reader
  base, wTotal, rTotal        \* history: initial count, bytes finished so far

book == <<read_done, write_done>>
writer == <<wpc, wsize, wread, wwrite, wi>>
reader == <<rpc, rsize, rread, rwrite, ri>>
vars == <<book, buf, exists, writer, reader, base, wTotal, rTotal>>

Ends == {"w", "r"}
Word == 2 * HalfWord

\* The conversion of an unsigned long to int made by load(), by the
\* parameter of store() and by the assignment to *bytes.
ToInt(x) == LET m == x % Word IN IF m >= HalfWord THEN m - Word ELSE m

\* Mutant of SpaceLeft: the difference of two ints, not truncated again.
SpaceLeftWide(w, r) == BufSize - (w - r)

\* *bytes of start_write and of start_read.  The arithmetic is done modulo
\* 2^64, a multiple of Word.  The check for a negative value that precedes
\* it compares an unsigned long with 0 and is never taken.
SpaceLeft(w, r) == ToInt(BufSize - (w - r))
BytesAvailable(w, r) == ToInt(w - r)

\* The offset in the ring of *addr, for both start_write and start_read:
\* always the first byte.  The second mapping of the pages repeats them.
AddrOffset == 0
Phys(i) == (AddrOffset + i) % BufSize

\* The creator's two stores are done; other values of base are those of a
\* ring that has been in use for a while and is empty again.
Init ==
  /\ base \in InitBook
  /\ read_done = ToInt(base) /\ write_done = ToInt(base)
  /\ buf = [i \in 0..BufSize-1 |-> -1]
  /\ exists \in [Ends -> {0, 1}]
  /\ wpc = "idle" /\ wsize = 0 /\ wread = 0 /\ wwrite = 0 /\ wi = 0
  /\ rpc = "idle" /\ rsize = 0 /\ rread = 0 /\ rwrite = 0 /\ ri = 0
  /\ wTotal = 0 /\ rTotal = 0

-----------------------------------------------------------------------------
\* The writer.

WriterChunk ==
  /\ wpc = "idle"
  /\ wTotal < MaxBytes
  /\ wsize' \in WSizes
  /\ wpc' = "start"
  /\ UNCHANGED <<book, buf, exists, wread, wwrite, wi, reader, base, wTotal, rTotal>>

\* The early return of ringbuf_start_write: bytes and the address are not set.
\* The client does not look at the -1, so what bytes happens to hold decides
\* whether it calls again or leaves the loop with an address it never got.
StartWriteInvalid ==
  /\ wpc = "start"
  /\ exists["w"] # 1
  /\ wpc' \in {"start", "failed"}
  /\ UNCHANGED <<book, buf, exists, wsize, wread, wwrite, wi, reader, base, wTotal, rTotal>>

StartWriteLoadRead ==
  /\ wpc = "start"
  /\ exists["w"] = 1
  /\ wread' = read_done
  /\ wpc' = "loadwrite"
  /\ UNCHANGED <<book, buf, exists, wsize, wwrite, wi, reader, base, wTotal, rTotal>>

StartWriteLoadWrite ==
  /\ wpc = "loadwrite"
  /\ wwrite' = write_done
  /\ wi' = 0
  /\ wpc' = IF SpaceLeft(write_done, wread) < wsize THEN "start" ELSE "copy"
  /\ UNCHANGED <<book, buf, exists, wsize, wread, reader, base, wTotal, rTotal>>

\* Mutant of WriteByte: the loop stops one byte early.
WriteByteShort ==
  /\ wpc = "copy"
  /\ buf' = [buf EXCEPT ![Phys(wi)] = wTotal + wi]
  /\ wi' = wi + 1
  /\ wpc' = IF wi + 2 < wsize THEN "copy" ELSE "finish"
  /\ UNCHANGED <<book, exists, wsize, wread, wwrite, reader, base, wTotal, rTotal>>

\* One byte of the chunk.  A byte is named by its place in the stream.
WriteByte ==
  /\ wpc = "copy"
  /\ buf' = [buf EXCEPT ![Phys(wi)] = wTotal + wi]
  /\ wi' = wi + 1
  /\ wpc' = IF wi + 1 < wsize THEN "copy" ELSE "finish"
  /\ UNCHANGED <<book, exists, wsize, wread, wwrite, reader, base, wTotal, rTotal>>

FinishWriteLoad ==
  /\ wpc = "finish"
  /\ exists["w"] = 1
  /\ wwrite' = write_done
  /\ wpc' = "store"
  /\ UNCHANGED <<book, buf, exists, wsize, wread, wi, reader, base, wTotal, rTotal>>

FinishWriteStore ==
  /\ wpc = "store"
  /\ write_done' = ToInt(wwrite + wsize)
  /\ wTotal' = wTotal + wsize
  /\ wpc' = "idle"
  /\ UNCHANGED <<read_done, buf, exists, wsize, wread, wwrite, wi, reader, base, rTotal>>

\* closeRingBuf, once the writer has written all it has.
CloseWriter ==
  /\ wpc = "idle"
  /\ wTotal >= MaxBytes
  /\ exists' = [exists EXCEPT !["w"] = 0]
  /\ wpc' = "closed"
  /\ UNCHANGED <<book, buf, wsize, wread, wwrite, wi, reader, base, wTotal, rTotal>>

-----------------------------------------------------------------------------
\* The reader.

ReaderChunk ==
  /\ rpc = "idle"
  /\ rTotal < MaxBytes
  /\ rsize' \in RSizes
  /\ rpc' = "start"
  /\ UNCHANGED <<book, buf, exists, writer, rread, rwrite, ri, base, wTotal, rTotal>>

StartReadInvalid ==
  /\ rpc = "start"
  /\ exists["r"] # 1
  /\ rpc' \in {"start", "failed"}
  /\ UNCHANGED <<book, buf, exists, writer, rsize, rread, rwrite, ri, base, wTotal, rTotal>>

StartReadLoadRead ==
  /\ rpc = "start"
  /\ exists["r"] = 1
  /\ rread' = read_done
  /\ rpc' = "loadwrite"
  /\ UNCHANGED <<book, buf, exists, writer, rsize, rwrite, ri, base, wTotal, rTotal>>

StartReadLoadWrite ==
  /\ rpc = "loadwrite"
  /\ rwrite' = write_done
  /\ ri' = 0
  /\ rpc' = IF BytesAvailable(write_done, rread) < rsize THEN "start" ELSE "copy"
  /\ UNCHANGED <<book, buf, exists, writer, rsize, rread, base, wTotal, rTotal>>

\* The byte loaded is buf[Phys(ri)]; ringtest.c compares it and goes on.
ReadByte ==
  /\ rpc = "copy"
  /\ ri' = ri + 1
  /\ rpc' = IF ri + 1 < rsize THEN "copy" ELSE "finish"
  /\ UNCHANGED <<book, buf, exists, writer, rsize, rread, rwrite, base, wTotal, rTotal>>

FinishReadLoad ==
  /\ rpc = "finish"
  /\ exists["r"] = 1
  /\ rread' = read_done
  /\ rpc' = "store"
  /\ UNCHANGED <<book, buf, exists, writer, rsize, rwrite, ri, base, wTotal, rTotal>>

\* Mutant of FinishReadStore: the new count is not stored.
FinishReadForgotten ==
  /\ rpc = "store"
  /\ rTotal' = rTotal + rsize
  /\ rpc' = "idle"
  /\ UNCHANGED <<book, buf, exists, writer, rsize, rread, rwrite, ri, base, wTotal>>

FinishReadStore ==
  /\ rpc = "store"
  /\ read_done' = ToInt(rread + rsize)
  /\ rTotal' = rTotal + rsize
  /\ rpc' = "idle"
  /\ UNCHANGED <<write_done, buf, exists, writer, rsize, rread, rwrite, ri, base, wTotal>>

CloseReader ==
  /\ rpc = "idle"
  /\ rTotal >= MaxBytes
  /\ exists' = [exists EXCEPT !["r"] = 0]
  /\ rpc' = "closed"
  /\ UNCHANGED <<book, buf, writer, rsize, rread, rwrite, ri, base, wTotal, rTotal>>

-----------------------------------------------------------------------------
WriterNext ==
  \/ WriterChunk \/ StartWriteInvalid \/ StartWriteLoadRead \/ StartWriteLoadWrite
  \/ WriteByte \/ FinishWriteLoad \/ FinishWriteStore \/ CloseWriter

ReaderNext ==
  \/ ReaderChunk \/ StartReadInvalid \/ StartReadLoadRead \/ StartReadLoadWrite
  \/ ReadByte \/ FinishReadLoad \/ FinishReadStore \/ CloseReader

\* Both programs have ended, or hold an address that is not the ring's.
Terminated ==
  /\ wpc \in {"closed", "failed"} /\ rpc \in {"closed", "failed"}
  /\ UNCHANGED vars

Next == WriterNext \/ ReaderNext \/ Terminated

\* The clients are two processes that poll: each keeps taking steps as long
\* as the scheduler runs it, which the round-robin scheduler does.
Spec == Init /\ [][Next]_vars /\ WF_vars(WriterNext) /\ WF_vars(ReaderNext)

-----------------------------------------------------------------------------
\* Properties.

PCs == {"idle", "start", "loadwrite", "copy", "finish", "store", "closed", "failed"}
Ints == -HalfWord..HalfWord-1

\* The counters always hold an int; sizes and indices stay inside the ring.
TypeOK ==
  /\ read_done \in Ints /\ write_done \in Ints
  /\ buf \in [0..BufSize-1 -> Nat \cup {-1}]
  /\ exists \in [Ends -> {0, 1}]
  /\ wpc \in PCs /\ wsize \in 0..BufSize /\ wi \in 0..BufSize
  /\ wread \in Ints /\ wwrite \in Ints
  /\ rpc \in PCs /\ rsize \in 0..BufSize /\ ri \in 0..BufSize
  /\ rread \in Ints /\ rwrite \in Ints
  /\ base \in Int /\ wTotal \in Nat /\ rTotal \in Nat

\* What ringbuf_start_write granted is really free and what
\* ringbuf_start_read granted is really written, also after the 32-bit
\* counters have wrapped and although the other end moves its counter
\* between the two loads: the ring never overflows and never underflows.
SpaceRespected ==
  /\ rTotal <= wTotal /\ wTotal <= rTotal + BufSize
  /\ wpc \in {"copy", "finish", "store"} => wTotal + wsize <= rTotal + BufSize
  /\ rpc \in {"copy", "finish", "store"} => rTotal + rsize <= wTotal

\* The comparison of ringtest.c:97: the byte the reader is about to load is
\* the next byte of the stream the writer wrote.
InOrder == rpc = "copy" => buf[Phys(ri)] = rTotal + ri

\* Polling with stale counters never gets stuck: the writer gets all its bytes
\* out and the reader takes every one, when both descriptors are valid.
TransferCompletes ==
  (\A e \in Ends : exists[e] = 1) ~> (wpc = "closed" /\ rTotal = wTotal)
=============================================================================

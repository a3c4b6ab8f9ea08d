------------------------------ MODULE FileData ------------------------------
(***************************************************************************)
(* The contents of files: block allocation, bmap, itrunc, readi and writei *)
(* of kernel/fs.c, fileread and filewrite of file.c, on the image that     *)
(* mkfs/mkfs.c builds.                                                     *)
(*                                                                         *)
(* A file's inode is locked for a read, and for each chunk of a write, so  *)
(* those are the steps; two processes interleave between the chunks.  An   *)
(* operator of this module maps the file system s, a record of the bitmap, *)
(* the blocks, the inodes and the blocks logged in this transaction, to    *)
(* what the code leaves.  Process p writes the byte p, mkfs its own; 0 is  *)
(* an unset byte and no block.  A block has BSIZE bytes, or NINDIRECT      *)
(* numbers.                                                                *)
(*                                                                         *)
(* The process's buffer lies in one page, or in one and a bad page behind  *)
(* it, at any alignment.  mymemmove (see Copy) moves UNIT bytes at a time  *)
(* when buffer and block are aligned, and drops the remainder; lost says   *)
(* that it has.                                                            *)
(***************************************************************************)
EXTENDS Naturals, Sequences, FiniteSets, SequencesExt

CONSTANTS Procs, Files, InodeOf,
          Lens,       \* of the files that mkfs is given; inode i + 1 is the ith
          MkfsByte,   \* what they hold
          BSIZE, NDIRECT, NINDIRECT, NBlocks, MAXOPBLOCKS,
          UNIT,       \* 8, the bytes of a word
          Word,       \* 2^32: offsets and lengths are unsigned
          WLengths,   \* of writes
          RLengths,   \* of reads
          MaxCalls    \* bound: calls made

ASSUME FileAssumption ==
  /\ BSIZE \in Nat \ {0} /\ NDIRECT \in Nat /\ NINDIRECT <= BSIZE /\ BSIZE % UNIT = 0
  /\ 0 \notin Procs /\ MkfsByte # 0

VARIABLES fs,       \* used, blk, clean, ino, logged, panic
          off,      \* of each open file
          job,      \* per process: file, length, progress and buffer of its write
          got,      \* per process: what its last read returned
          lost,     \* history: a copy has dropped bytes
          calls

vars == <<fs, off, job, got, lost, calls>>

MAXFILE == NDIRECT + NINDIRECT
ROOTINO == 1
Inodes == 1..(Len(Lens) + 1)
UserInodes == Inodes \ {ROOTINO}
Blocks == 1..NBlocks
Zero == [k \in 0..(BSIZE - 1) |-> 0]
NoFile == [addrs |-> [k \in 0..NDIRECT |-> 0], size |-> 0]
NoJob == [f |-> 0, n |-> 0, i |-> 0, buf |-> 0]
Least(S) == CHOOSE b \in S : \A c \in S : b <= c

-----------------------------------------------------------------------------
(* Blocks, as the buffer cache has them.  log_write of a block, of the     *)
(* bitmap or of an inode is recorded in s.logged; s.clean are the blocks   *)
(* as they were last logged, which a block is again when its buffer is     *)
(* recycled.                                                               *)
Avail(s) == IF Blocks \subseteq s.used THEN 0 ELSE Least(Blocks \ s.used)

\* The first free block, marked and zeroed; without one, a panic.
balloc(s) ==
  IF Avail(s) = 0 THEN [s EXCEPT !.panic = TRUE]
  ELSE [s EXCEPT !.used = @ \cup {Avail(s)}, !.blk[Avail(s)] = Zero,
                 !.logged = @ \cup {<<"bitmap", 0>>, <<"block", Avail(s)>>}]

\* bfree of a set of blocks; freeing a free block is a panic.
bfree(s, B) ==
  [s EXCEPT !.used = @ \ B, !.panic = @ \/ ~(B \subseteq s.used),
            !.logged = IF B = {} THEN @ ELSE @ \cup {<<"bitmap", 0>>}]

\* The block in slot k of inode i, or in slot k of its indirect block.
Direct(s, i, k) ==
  IF s.ino[i].addrs[k] # 0 \/ s.panic THEN s
  ELSE IF Avail(s) = 0 THEN balloc(s) ELSE [balloc(s) EXCEPT !.ino[i].addrs[k] = Avail(s)]

Indirect(s, i, k) ==
  LET a == s.ino[i].addrs[NDIRECT]
  IN IF s.panic \/ s.blk[a][k] # 0 THEN s
     ELSE IF Avail(s) = 0 THEN balloc(s)
     ELSE [balloc(s) EXCEPT !.blk[a][k] = Avail(s), !.logged = @ \cup {<<"block", a>>}]

\* bmap with what it allocates, and the block number it returns.
bmap(s, i, bn) ==
  IF bn < NDIRECT THEN Direct(s, i, bn)
  ELSE Indirect(Direct(s, i, NDIRECT), i, bn - NDIRECT)

Addr(s, i, bn) ==
  IF bn < NDIRECT THEN s.ino[i].addrs[bn] ELSE s.blk[s.ino[i].addrs[NDIRECT]][bn - NDIRECT]

DirectBlocks(s, i) == {s.ino[i].addrs[k] : k \in 0..(NDIRECT - 1)} \ {0}
IndirectBlocks(s, i) ==
  LET a == s.ino[i].addrs[NDIRECT]
  IN IF a = 0 THEN {} ELSE {a} \cup ({s.blk[a][k] : k \in 0..(NINDIRECT - 1)} \ {0})

\* Mutant of itrunc: what the indirect block names stays allocated.
itruncDirect(s, i) ==
  [bfree(s, DirectBlocks(s, i) \cup ({s.ino[i].addrs[NDIRECT]} \ {0})) EXCEPT !.ino[i] = NoFile]

itrunc(s, i) ==
  [bfree(s, DirectBlocks(s, i) \cup IndirectBlocks(s, i)) EXCEPT !.ino[i] = NoFile,
      !.logged = @ \cup {<<"inode", i>>}]

-----------------------------------------------------------------------------
(* writei and readi.                                                       *)
Byte(s, i, o) == s.blk[Addr(s, i, o \div BSIZE)][o % BSIZE]

\* The bytes of o to o + n - 1 that the copies between them and a process's
\* buffer drop: in a block, the remainder of an aligned copy.
Lost(o, buf, n) ==
  {x \in o..(o + n - 1) :
     LET b == BSIZE * (x \div BSIZE)
         first == IF b < o THEN o ELSE b
         end == IF b + BSIZE < o + n THEN b + BSIZE ELSE o + n
     IN /\ end - first >= UNIT /\ first % UNIT = 0 /\ (buf + first - o) % UNIT = 0
        /\ x >= end - ((end - first) % UNIT)}

Store(s, i, o, v) ==
  LET t == bmap(s, i, o \div BSIZE)
      b == Addr(t, i, o \div BSIZE)
  IN IF t.panic THEN t ELSE [t EXCEPT !.blk[b][o % BSIZE] = v]

\* The bytes writei reports when its source runs out after w of n: those of
\* the blocks it has finished.
Whole(o, n, w) ==
  IF w = n THEN n ELSE IF (o + w) \div BSIZE = o \div BSIZE THEN 0 ELSE w - ((o + w) % BSIZE)

\* The blocks of bytes o to o + n - 1, and the inode.
Touched(s, i, o, n) ==
  {<<"inode", i>>}
    \cup {<<"block", Addr(s, i, (o + k - 1) \div BSIZE)>> : k \in 1..n}

\* The transaction commits: what it logged is clean.
Committed(s) ==
  [s EXCEPT !.clean = [b \in Blocks |-> IF <<"block", b>> \in s.logged THEN s.blk[b] ELSE s.clean[b]]]

\* The first w of the n bytes from o on, as far as they are not dropped.  When
\* w < n the copy into the next block fails after bmap has found, or allocated, it.
Stored(s, i, o, buf, n, w, v) ==
  LET t == FoldLeft(LAMBDA u, x : IF x \in Lost(o, buf, w) THEN u ELSE Store(u, i, x, v), s,
                    [k \in 1..w |-> o + k - 1])
  IN IF w < n /\ ~t.panic THEN bmap(t, i, (o + w) \div BSIZE) ELSE t

\* Mutant of writei: the size follows the last byte stored in any case.
writeiShrinks(s, i, o, buf, n, w, v) ==
  LET t == Stored(s, i, o, buf, n, w, v)
  IN IF t.panic THEN t
     ELSE Committed([t EXCEPT !.ino[i].size = o + Whole(o, n, w),
                              !.logged = @ \cup Touched(t, i, o, Whole(o, n, w))])

\* A block whose copy failed is not logged, nor are its bytes reported.
writei(s, i, o, buf, n, w, v) ==
  LET t == Stored(s, i, o, buf, n, w, v)
      end == o + Whole(o, n, w)
  IN IF t.panic THEN t
     ELSE Committed([t EXCEPT !.ino[i].size = IF end > @ THEN end ELSE @,
                              !.logged = @ \cup Touched(t, i, o, Whole(o, n, w))])

\* The number of bytes that readi returns for n from o, and the bytes.
ReadCount(s, i, o, n) ==
  LET size == s.ino[i].size
  IN IF o > size \/ (o + n) % Word < o THEN 0 ELSE IF o + n > size THEN size - o ELSE n

readi(s, i, o, buf, n) ==
  [k \in 1..ReadCount(s, i, o, n) |->
     IF o + k - 1 \in Lost(o, buf, ReadCount(s, i, o, n)) THEN 0 ELSE Byte(s, i, o + k - 1)]

-----------------------------------------------------------------------------
(* mkfs.  It numbers blocks from freeblock on as it needs them, which is   *)
(* what bmap does while the blocks in use are the first ones.              *)
ialloc == NoFile

iappend(s, i, n, v) ==
  LET o == s.ino[i].size
  IN [FoldLeft(LAMBDA t, k : Store(t, i, o + k - 1, v), s, [k \in 1..n |-> k]) EXCEPT !.ino[i].size = o + n]

\* balloc of mkfs: the first blocks are marked.
FirstBlocks(freeblock) == 1..(freeblock - 1)

\* The root directory with an entry of one byte for ".", ".." and each file, the
\* files, the size of the root rounded up, and the bitmap.
Image ==
  LET empty == [used |-> {}, blk |-> [b \in Blocks |-> Zero], clean |-> [b \in Blocks |-> Zero],
                ino |-> [i \in Inodes |-> ialloc], logged |-> {}, panic |-> FALSE]
      all == FoldLeft(LAMBDA s, i : iappend(iappend(s, ROOTINO, 1, i), i, Lens[i - 1], MkfsByte),
                      iappend(iappend(empty, ROOTINO, 1, ROOTINO), ROOTINO, 1, ROOTINO),
                      [k \in 1..Len(Lens) |-> k + 1])
  IN [all EXCEPT !.used = FirstBlocks(Cardinality(@) + 1), !.clean = all.blk, !.logged = {},
                 !.ino[ROOTINO].size = ((@ \div BSIZE) + 1) * BSIZE]

Init ==
  /\ fs = Image /\ off = [f \in Files |-> 0]
  /\ job = [p \in Procs |-> NoJob] /\ got = [p \in Procs |-> <<>>] /\ lost = FALSE /\ calls = 0

-----------------------------------------------------------------------------
Begin(s) == [s EXCEPT !.logged = {}]

\* Mutant of Chunk: the whole write in one transaction.
ChunkAll(n) == n

\* filewrite's bound on what one transaction writes.
Chunk(n) ==
  LET max == ((MAXOPBLOCKS - 1 - 1 - 2) \div 2) * BSIZE IN IF n > max THEN max ELSE n

\* Alignments of a process's buffer.
Buffers == 0..(UNIT - 1)

filewrite(p) ==
  /\ job[p] = NoJob /\ calls < MaxCalls
  /\ \E f \in Files, n \in WLengths, a \in Buffers :
       job' = [job EXCEPT ![p] = [f |-> f, n |-> n, i |-> 0, buf |-> a]]
  /\ calls' = calls + 1 /\ UNCHANGED <<fs, off, got, lost>>

\* One chunk under the inode's lock.  An error ends the write.  The source may be
\* bad at once, or from the start of a page on.
filewriteChunk(p) ==
  LET f == job[p].f
      i == InodeOf[f]
      o == off[f]
      n == Chunk(job[p].n - job[p].i)
      buf == job[p].buf + job[p].i
      bad == o > fs.ino[i].size \/ (o + n) % Word < o \/ o + n > MAXFILE * BSIZE
      fails == {w \in 0..(n - 1) : w + job[p].i = 0 \/ (buf + w) % UNIT = 0}
  IN /\ job[p] # NoJob
     /\ \E w \in (IF bad THEN {0} ELSE {n} \cup fails) :
          LET r == Whole(o, n, w)
          IN /\ fs' = IF bad THEN Begin(fs) ELSE writei(Begin(fs), i, o, buf, n, w, p)
             /\ lost' = (lost \/ Lost(o, buf, w) # {})
             /\ off' = [off EXCEPT ![f] = IF bad \/ fs'.panic THEN @ ELSE @ + r]
             /\ job' = [job EXCEPT ![p] = IF bad \/ r # n \/ job[p].i + r = job[p].n THEN NoJob
                                          ELSE [job[p] EXCEPT !.i = @ + r]]
     /\ UNCHANGED <<got, calls>>

\* A read moves the offset by what it returns; a bad address returns nothing.  A
\* length of -1 is Word - 1 to readi.
fileread(p) ==
  /\ job[p] = NoJob /\ calls < MaxCalls
  /\ \E f \in Files, n \in RLengths, a \in Buffers :
       LET i == InodeOf[f]
           m == ReadCount(fs, i, off[f], n)
       IN \/ /\ got' = [got EXCEPT ![p] = readi(fs, i, off[f], a, n)]
             /\ off' = [off EXCEPT ![f] = @ + m]
             /\ lost' = (lost \/ Lost(off[f], a, m) # {})
          \/ UNCHANGED <<got, off, lost>>
  /\ calls' = calls + 1 /\ UNCHANGED <<fs, job>>

\* open with O_TRUNC, by anyone, and the same for a file that is freed.
Truncate(p) ==
  /\ job[p] = NoJob /\ calls < MaxCalls
  /\ \E i \in UserInodes : fs' = itrunc(Begin(fs), i)
  /\ calls' = calls + 1 /\ UNCHANGED <<off, job, got, lost>>

\* The buffer of a block is recycled and read again: what was not logged is gone.
bgetRecycle ==
  /\ \E b \in Blocks : fs.blk[b] # fs.clean[b] /\ fs' = [fs EXCEPT !.blk[b] = fs.clean[b]]
  /\ UNCHANGED <<off, job, got, lost, calls>>

Stopped == fs.panic \/ (calls = MaxCalls /\ \A p \in Procs : job[p] = NoJob)

Next ==
  \/ /\ ~fs.panic
     /\ \/ \E p \in Procs : filewrite(p) \/ filewriteChunk(p) \/ fileread(p) \/ Truncate(p)
        \/ bgetRecycle
  \/ Stopped /\ UNCHANGED vars

Spec == Init /\ [][Next]_vars

-----------------------------------------------------------------------------
\* Sizes, offsets and addresses stay in range.
TypeOK ==
  /\ fs.used \subseteq Blocks
  /\ \A i \in Inodes : /\ fs.ino[i].size \in 0..(MAXFILE * BSIZE)
                       /\ fs.ino[i].addrs \in [0..NDIRECT -> 0..NBlocks]
  /\ off \in [Files -> 0..(MAXFILE * BSIZE)]

\* The slots, of inodes and of indirect blocks, that name a block.
Slots(s) ==
  UNION {{<<i, k>> : k \in {k \in 0..NDIRECT : s.ino[i].addrs[k] # 0}} : i \in Inodes}
    \cup UNION {{<<i, NDIRECT + 1 + k>> : k \in {k \in 0..(NINDIRECT - 1) :
                   LET a == s.ino[i].addrs[NDIRECT] IN a # 0 /\ s.blk[a][k] # 0}} : i \in Inodes}
SlotBlock(s, x) ==
  IF x[2] <= NDIRECT THEN s.ino[x[1]].addrs[x[2]]
  ELSE s.blk[s.ino[x[1]].addrs[NDIRECT]][x[2] - NDIRECT - 1]

\* A block is marked in the bitmap exactly when a file has it, and one file has
\* it once: mkfs, writes that fail half way, truncation and reuse neither leak a
\* block nor give it to two files.  (A panic of balloc leaves a call half done.)
\* Sizes, offsets and addresses stay in range.
BitmapExact ==
  TypeOK /\ (~fs.panic =>
    /\ fs.used = {SlotBlock(fs, x) : x \in Slots(fs)}
    /\ \A x, y \in Slots(fs) : SlotBlock(fs, x) = SlotBlock(fs, y) => x = y)

\* No transaction of a write logs more blocks than begin_op reserved for it, at
\* any offset: data, indirect block, bitmap and inode together.
TransactionFits == Cardinality(fs.logged) <= MAXOPBLOCKS

\* The bytes of inode i that would change if its blocks were read from disk.
Loose(i) ==
  {<<k, fs.clean[Addr(fs, i, (k - 1) \div BSIZE)][(k - 1) % BSIZE]>> : k \in {k \in 1..fs.ino[i].size :
     Byte(fs, i, k - 1) # fs.clean[Addr(fs, i, (k - 1) \div BSIZE)][(k - 1) % BSIZE]}}

Abs == INSTANCE FileSpec WITH
  BlockSize <- BSIZE, MaxSize <- MAXFILE * BSIZE, Inodes <- UserInodes,
  Initial <- [i \in UserInodes |-> [k \in 1..Lens[i - 1] |-> MkfsByte]],
  content <- [i \in UserInodes |-> [k \in 1..fs.ino[i].size |-> Byte(fs, i, k - 1)]],
  loose <- [i \in UserInodes |-> Loose(i)]

\* As long as no copy has dropped bytes, the files that mkfs put there, through
\* direct and indirect blocks and written in chunks by two processes, behave as
\* sequences of bytes with an offset for each open file, and an unfinished write
\* leaves no more than FileSpec allows.
ImplementsFiles == Abs!SpecInit /\ [][lost' \/ Abs!SpecNext]_(Abs!specvars)
=============================================================================

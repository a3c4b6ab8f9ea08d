-------------------------------- MODULE Log ---------------------------------
(***************************************************************************)
(* kernel/log.c: the write-ahead log, the processes whose system calls     *)
(* write through it, the buffers it pins in the cache (bio.c), and the     *)
(* disk.  A crash may come at any moment; it leaves only the disk.         *)
(*                                                                         *)
(* A step is what one critical section on log.lock does, or one block      *)
(* written to disk (virtio_disk_rw writes a block or does not).  A system  *)
(* call's bread, change of b->data, log_write and brelse are one step: the *)
(* buffer is locked throughout, and commit waits for the call's end_op.    *)
(*                                                                         *)
(* The system calls write at most MAXOPBLOCKS blocks each, as param.h      *)
(* requires of them.                                                       *)
(***************************************************************************)
EXTENDS Integers, Sequences, FiniteSets

CONSTANTS
  Procs,
  Blocks, Vals,   \* home blocks and what a block can hold
  None,           \* not in the cache
  MaxOpBlocks,    \* MAXOPBLOCKS
  LogSize,        \* LOGSIZE
  Size            \* log.size: the blocks of the log on disk, header included

ASSUME LogAssumption ==
  /\ IsFiniteSet(Procs) /\ IsFiniteSet(Blocks) /\ None \notin Vals
  /\ MaxOpBlocks \in Nat \ {0} /\ LogSize \in Nat /\ Size \in Nat
  /\ MaxOpBlocks <= LogSize /\ 2 <= Size

VARIABLES
  home, dlog, dhead,     \* disk: home blocks, log blocks, header
  cache, pins,           \* per block: b->data or None, and its bpins
  outstanding, committing, lh,   \* struct log
  pc, wrote,             \* per process: where it is, blocks its call wrote
  phase, tail            \* commit or recovery: where it is, install's index

disk == <<home, dlog, dhead>>
bufs == <<cache, pins>>
log == <<outstanding, committing, lh>>
procs == <<pc, wrote>>
vars == <<disk, bufs, log, procs, phase, tail>>

LogBlocks == 1..LogSize
\* The blocks named in the header in memory.
Logged == {lh[t] : t \in 1..Len(lh)}

\* The data bread(b) returns, cached or not.
bread(b) == IF cache[b] # None THEN cache[b] ELSE home[b]

\* Mutant of wakeup: it wakes nobody.
wakeupNobody == pc

\* wakeup(&log)
wakeup == [p \in Procs |-> IF pc[p] = "asleep" THEN "begin" ELSE pc[p]]

\* The machine boots with the log mkfs made, all zero.
Init ==
  /\ home \in [Blocks -> Vals]
  /\ \E v \in Vals : dlog = [t \in LogBlocks |-> v]
  /\ dhead = << >>
  /\ cache = [b \in Blocks |-> None] /\ pins = [b \in Blocks |-> 0]
  /\ outstanding = 0 /\ committing = 0 /\ lh = << >>
  /\ pc = [p \in Procs |-> "idle"] /\ wrote = [p \in Procs |-> {}]
  /\ phase = "boot" /\ tail = 1

-----------------------------------------------------------------------------
\* begin_op.

BeginCall(p) ==
  /\ pc[p] = "idle" /\ phase \notin {"boot", "reinstall", "reclear", "panic"}
  /\ pc' = [pc EXCEPT ![p] = "begin"]
  /\ UNCHANGED <<disk, bufs, log, wrote, phase, tail>>

\* Mutant of MustWait: no room is reserved for the call that begins.
MustWaitLate ==
  \/ committing = 1
  \/ Len(lh) + outstanding * MaxOpBlocks > LogSize

MustWait ==
  \/ committing = 1
  \/ Len(lh) + (outstanding + 1) * MaxOpBlocks > LogSize

BeginSleeps(p) ==
  /\ pc[p] = "begin"
  /\ MustWait
  /\ pc' = [pc EXCEPT ![p] = "asleep"]
  /\ UNCHANGED <<disk, bufs, log, wrote, phase, tail>>

BeginOp(p) ==
  /\ pc[p] = "begin"
  /\ ~MustWait
  /\ outstanding' = outstanding + 1
  /\ pc' = [pc EXCEPT ![p] = "op"]
  /\ UNCHANGED <<disk, bufs, committing, lh, wrote, phase, tail>>

-----------------------------------------------------------------------------
\* log_write, with the bread, the change and the brelse around it.

Panics == Len(lh) >= LogSize \/ Len(lh) >= Size - 1 \/ outstanding < 1

MayWrite(p, b) ==
  /\ pc[p] = "op"
  /\ b \in wrote[p] \/ Cardinality(wrote[p]) < MaxOpBlocks

LogWrite(p, b, v) ==
  /\ MayWrite(p, b)
  /\ ~Panics
  /\ cache' = [cache EXCEPT ![b] = v]
  /\ lh' = IF b \in Logged THEN lh ELSE Append(lh, b)
  /\ pins' = IF b \in Logged THEN pins ELSE [pins EXCEPT ![b] = @ + 1]
  /\ wrote' = [wrote EXCEPT ![p] = @ \cup {b}]
  /\ UNCHANGED <<disk, outstanding, committing, pc, phase, tail>>

LogWritePanics(p, b) ==
  /\ MayWrite(p, b)
  /\ Panics
  /\ phase' = "panic"
  /\ UNCHANGED <<disk, bufs, log, procs, tail>>

-----------------------------------------------------------------------------
\* end_op.

EndOp(p) ==
  /\ pc[p] = "op"
  /\ outstanding' = outstanding - 1
  /\ tail' = 1
  /\ IF committing = 1 THEN phase' = "panic" /\ UNCHANGED <<committing, pc>>
     ELSE IF outstanding = 1
     THEN /\ committing' = 1
          /\ pc' = [pc EXCEPT ![p] = "commit"]
          /\ phase' = IF lh = << >> THEN "done" ELSE "log"
     ELSE /\ pc' = [wakeup EXCEPT ![p] = "idle"]
          /\ UNCHANGED <<committing, phase>>
  /\ wrote' = [wrote EXCEPT ![p] = {}]
  /\ UNCHANGED <<disk, bufs, lh>>

\* commit, and what end_op does after it.

\* Mutant of WriteLog: the last block is not written.
WriteLogShort ==
  /\ phase = "log" /\ tail <= Len(lh)
  /\ dlog' = [dlog EXCEPT ![tail] = bread(lh[tail])]
  /\ cache' = [cache EXCEPT ![lh[tail]] = bread(lh[tail])]
  /\ tail' = tail + 1
  /\ phase' = IF tail + 1 >= Len(lh) THEN "head" ELSE phase
  /\ UNCHANGED <<home, dhead, pins, log, procs>>

WriteLog ==
  /\ phase = "log" /\ tail <= Len(lh)
  /\ dlog' = [dlog EXCEPT ![tail] = bread(lh[tail])]
  /\ cache' = [cache EXCEPT ![lh[tail]] = bread(lh[tail])]
  /\ tail' = tail + 1
  /\ phase' = IF tail = Len(lh) THEN "head" ELSE phase
  /\ UNCHANGED <<home, dhead, pins, log, procs>>

WriteHead ==
  /\ phase = "head"
  /\ dhead' = lh
  /\ tail' = 1 /\ phase' = "install"
  /\ UNCHANGED <<home, dlog, bufs, log, procs>>

\* One turn of install_trans; it copies the log block, read back, to its home.
InstallBlock(recovering) ==
  /\ home' = [home EXCEPT ![lh[tail]] = dlog[tail]]
  /\ cache' = [cache EXCEPT ![lh[tail]] = dlog[tail]]
  /\ pins' = IF recovering = 1 THEN pins ELSE [pins EXCEPT ![lh[tail]] = @ - 1]
  /\ tail' = tail + 1

InstallTrans ==
  /\ phase = "install" /\ tail <= Len(lh)
  /\ InstallBlock(0)
  /\ IF tail = Len(lh) THEN phase' = "clear" /\ lh' = << >>
     ELSE UNCHANGED <<phase, lh>>
  /\ UNCHANGED <<dlog, dhead, outstanding, committing, procs>>

ClearHead ==
  /\ phase = "clear"
  /\ dhead' = lh
  /\ phase' = "done"
  /\ UNCHANGED <<home, dlog, bufs, log, procs, tail>>

CommitDone(p) ==
  /\ pc[p] = "commit" /\ phase = "done"
  /\ committing' = 0
  /\ pc' = [wakeup EXCEPT ![p] = "idle"]
  /\ phase' = "none"
  /\ UNCHANGED <<disk, bufs, outstanding, lh, wrote, tail>>

-----------------------------------------------------------------------------
\* recover_from_log, called at boot before the first system call.

ReadHead ==
  /\ phase = "boot"
  /\ lh' = dhead
  /\ tail' = 1
  /\ phase' = IF dhead = << >> THEN "reclear" ELSE "reinstall"
  /\ UNCHANGED <<disk, bufs, outstanding, committing, procs>>

Reinstall ==
  /\ phase = "reinstall" /\ tail <= Len(lh)
  /\ InstallBlock(1)
  /\ IF tail = Len(lh) THEN phase' = "reclear" /\ lh' = << >>
     ELSE UNCHANGED <<phase, lh>>
  /\ UNCHANGED <<dlog, dhead, outstanding, committing, procs>>

Reclear ==
  /\ phase = "reclear"
  /\ dhead' = lh
  /\ phase' = "none"
  /\ UNCHANGED <<home, dlog, bufs, log, procs, tail>>

-----------------------------------------------------------------------------
\* A bread by anybody else, and bget's reuse of a buffer nobody refers to.

Load(b) ==
  /\ phase # "panic" /\ cache[b] = None
  /\ cache' = [cache EXCEPT ![b] = home[b]]
  /\ UNCHANGED <<disk, pins, log, procs, phase, tail>>

Evict(b) ==
  /\ phase # "panic" /\ cache[b] # None /\ pins[b] = 0
  /\ cache' = [cache EXCEPT ![b] = None]
  /\ UNCHANGED <<disk, pins, log, procs, phase, tail>>

\* Power fails or the kernel panicked; memory starts from nothing.
Crash ==
  /\ cache' = [b \in Blocks |-> None] /\ pins' = [b \in Blocks |-> 0]
  /\ outstanding' = 0 /\ committing' = 0 /\ lh' = << >>
  /\ pc' = [p \in Procs |-> "idle"] /\ wrote' = [p \in Procs |-> {}]
  /\ phase' = "boot" /\ tail' = 1
  /\ UNCHANGED disk

Recovery == ReadHead \/ Reinstall \/ Reclear

Commit(p) == pc[p] = "commit" /\ (WriteLog \/ WriteHead \/ InstallTrans \/ ClearHead \/ CommitDone(p))

Call(p) ==
  /\ phase # "panic"
  /\ BeginSleeps(p) \/ BeginOp(p) \/ EndOp(p) \/ Commit(p)

Next ==
  \/ Recovery \/ Crash
  \/ \E p \in Procs :
       \/ Call(p) \/ BeginCall(p)
       \/ phase # "panic" /\ \E b \in Blocks :
            LogWritePanics(p, b) \/ \E v \in Vals : LogWrite(p, b, v)
  \/ \E b \in Blocks : Load(b) \/ Evict(b)

Safe == Init /\ [][Next]_vars

\* Every process that can run is run, and every system call gets to its
\* end_op.
Spec == Safe /\ WF_vars(Recovery) /\ \A p \in Procs : WF_vars(Call(p))

-----------------------------------------------------------------------------
\* Properties.

PCs == {"idle", "begin", "asleep", "op", "commit"}
RecoveryPhases == {"boot", "reinstall", "reclear"}
Phases == RecoveryPhases \cup {"none", "log", "head", "install", "clear", "done", "panic"}

\* The counters and sequences keep their types, and no buffer is pinned twice.
TypeOK ==
  /\ home \in [Blocks -> Vals] /\ dlog \in [LogBlocks -> Vals] /\ dhead \in Seq(Blocks)
  /\ cache \in [Blocks -> Vals \cup {None}] /\ pins \in [Blocks -> {0, 1}]
  /\ outstanding \in Nat /\ committing \in {0, 1} /\ lh \in Seq(Blocks)
  /\ pc \in [Procs -> PCs] /\ wrote \in [Procs -> SUBSET Blocks]
  /\ phase \in Phases /\ tail \in Nat \ {0}

\* What recover_from_log will make of the disk as it is now.
Recovered ==
  [b \in Blocks |-> IF \E t \in 1..Len(dhead) : dhead[t] = b
                    THEN dlog[CHOOSE t \in 1..Len(dhead) : dhead[t] = b] ELSE home[b]]

\* What the file system reads.  It reads nothing before recovery is over.
Contents == IF phase \in RecoveryPhases THEN Recovered ELSE [b \in Blocks |-> bread(b)]

InOp == {p \in Procs : pc[p] = "op"}

D == INSTANCE AtomicDisk WITH mem <- Contents, durable <- Recovered, active <- InOp

\* "The logging system only commits when there are no FS system calls active"
\* (log.c:13): system calls reach the disk in whole groups, wherever a crash
\* comes in write_log, write_head, install_trans or recovery itself.
ImplementsAtomicDisk == D!Spec

\* When the last end_op has returned everything it and the calls before it
\* wrote survives a crash.
DurableWhenIdle == (phase = "none" /\ outstanding = 0) => Recovered = Contents

\* bpin and bunpin balance: a buffer is pinned exactly while its block is in
\* the log and not installed, so none is evicted early or kept for ever.
PinnedWhileLogged ==
  phase # "panic" =>
    \A b \in Blocks : pins[b] = 1 <=>
      /\ phase \notin RecoveryPhases
      /\ \E t \in 1..Len(lh) : lh[t] = b /\ (phase = "install" => t >= tail)

\* What the calls that begin_op admitted may still write.
Reserved == {r \in Procs \X (1..MaxOpBlocks) : pc[r[1]] = "op" /\ r[2] > Cardinality(wrote[r[1]])}

\* begin_op's reservation: what is logged, and all that the calls admitted
\* may still write, fits in LOGSIZE blocks.
ReservationKept == Len(lh) + Cardinality(Reserved) <= LogSize

\* A process asleep in begin_op has somebody to wake it.
SleeperHasWaker ==
  (\E p \in Procs : pc[p] = "asleep") => InOp # {} \/ \E p \in Procs : pc[p] = "commit"

\* A process asleep in begin_op gets to look again, unless the kernel panics.
WaiterRetries == \A p \in Procs : pc[p] = "asleep" ~> (pc[p] # "asleep" \/ phase = "panic")
=============================================================================

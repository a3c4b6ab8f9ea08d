# A TLA+ verification of FastIPC on xv6

The repository is xv6-riscv with one addition, *FastIPC*: rings of shared memory through which two
processes exchange bytes without entering the kernel. This directory holds TLA+ models of the kernel
and of FastIPC, the configurations TLC checks them with, and theorems that TLAPS checks for every
value of the constants. Paths below are relative to `src/Xv6-Kernel/`.

## 1. The system and its parts

| Part | Source | Module | Contract |
|---|---|---|---|
| FastIPC data path | `user/fastipc.h` (start/finish read/write), loops of `user/ringtest.c` | `RingBook` | |
| Ring table and library | `kernel/ringbuf.c`; `createRingBuf`, `closeRingBuf` of `user/fastipc.h`; exit, wait and exec as far as rings go | `RingBuf` (`MCRingBuf`) | |
| Pipes | `kernel/pipe.c`, with `sleep`, `wakeup`, `kill` | `Pipe` | `Channel` (mapping in `PipeChannel`) |
| Write-ahead log | `kernel/log.c`, with pins and evictions of `kernel/bio.c` | `Log` | `AtomicDisk` |
| Processes, scheduler, spinlocks, timer | `kernel/proc.c`, `spinlock.c`, `trap.c`, `sysproc.c` | `Proc` | |
| Buffer cache, sleep locks, disk driver | `kernel/bio.c`, `sleeplock.c`, `virtio_disk.c` and the device | `Disk` | |
| Inodes, directories, paths, file table | `kernel/fs.c`, `sysfile.c`, `file.c` | `Inode` (`MCInode`) | |
| Blocks and contents of files, mkfs | `kernel/fs.c`, `file.c`, `mkfs/mkfs.c` | `FileData` (`MCFileData`) | `FileSpec` |
| Console and UART | `kernel/console.c`, `uart.c` and the device | `Terminal` (`MCTerminal`) | `LineSpec` |
| Physical pages, page tables, exec | `kernel/kalloc.c`, `vm.c`, `exec.c`, `proc.c` | `Memory` (`MCMemory`) | |
| Copies between kernel and process | `copyin`, `copyout`, `copyinstr`, `mymemmove` of `kernel/vm.c`, `string.c`, `fetchstr` | `Copy` | its own reference definitions |

`PROJECT.json` has the full list of components with what of each is modelled, the source lines of
every definition, and the hazards of the code with the properties that would catch them.

**How the parts interact.** A client calls `createRingBuf`, which asks `createbuf` to map the ring's 16
pages twice and its book page once; from then on the two ends meet only in the book page. The last
`closebuf` frees the pages. A page table is freed by the parent's `wait`, or by `exec`. A pipe is
reached through two `struct file`s; its processes sleep on `nread` and `nwrite`. File system calls
bracket themselves with `begin_op` and `end_op` and write blocks with `log_write`; the last `end_op` of a
group commits them through the buffer cache, whose reads and writes the disk driver hands to a device
that answers by interrupt. Everything that waits does so through `sleep` and `wakeup` over the
process table, or spins on a lock with interrupts off.

**How the models fit together.** One module's contract is what another takes for granted. `Disk` shows that a
holder of a buffer has the block as last stored: `Log` uses buffers and homes accordingly, with a block
write as one step. `Log` shows that groups of calls reach the disk whole if each stays
within MAXOPBLOCKS: `FileData` shows that each chunk of `filewrite` does. `Proc` shows that
`sleep` loses no wakeup: `Pipe`, `Log`, `Disk` and `Terminal` take the switch inside `sleep` as one step and keep
the gap between the decision and `sleep`'s own lock where `kill` can fall into it. `Inode` leaves
the contents of files to `FileData`, and `Proc` the memory of processes to `Memory`.

## 2. Modules

**RingBook.** One writer and one reader. Every atomic load and store of a counter and every byte moved is a
step. `wpc` and `rpc` say where a client is: `idle`, `start` (about to load `read_done`), `loadwrite` (about to load
`write_done`), `copy`, `finish` and `store` (the load and the store of the finish call), `closed`, `failed`. `ToInt`
is the conversion to the C `int` that `load` and `store` make; the arithmetic around it is modulo a word. A byte is named by
its place in the stream; `base`, `wTotal` and `rTotal` are history variables. A descriptor may be invalid
(`exists` = 0) at either end.

**RingBuf.** `createbuf` and `closebuf` hold `ringbuf_lock` throughout: each is one step, with every early
return. A ring's 17 pages are one *frame* and the addresses they are mapped at one *region*. `vabuf` is one
field of the slot, though each process may have the ring in a region of its own. A kernel panic, an index
outside the table or the mapping of an allocation that failed is recorded in `fault` and ends the
behaviour. `desc` is the library's table of descriptors. The variable `client`, chosen in `Init`, says what clients do:
use the library or the system calls; how many rings at a time; close names they have not
opened; leave with rings open; how much memory there is; and whether a *keeper* holds slot 0, which the code treats differently. *Careful* clients have
slot 0 kept, fewer names than slots and frames, short names, one ring at a time, and leave when they
have closed it. The error path after a failed `mappages` is left out: the regions lie in a
page-table page that the trampoline already needs, so `mappages` has nothing to allocate.

**Pipe, Channel, PipeChannel.** Any number of processes on each end. A step is a critical section cut where
others can see a difference: at every acquire, at every byte (`killed` is read without `pi->lock`), and between
the decision to sleep and `sleep`'s acquire of `p->lock`. The counters wrap at `PipeSize * Laps`, which
stands for 2^32. A `copyin` or `copyout` that fails is a step of its own. `Channel` is a bounded FIFO queue with two
ends; the bytes between `nread` and `nwrite` map to its queue.

**Log, AtomicDisk.** The disk is `home`, `dlog` and `dhead`; all else is lost in a crash. `phase` says where the one
commit or recovery is: `log`, `head`, `install`, `clear`, `done`; `boot`, `reinstall`, `reclear`; `none` otherwise. Each block
written is a step, and `Crash` may come between any two, in recovery too. Buffers are loaded and, when not
pinned, evicted at any moment. `AtomicDisk` has what a running system reads (`mem`), what it will find after
a crash (`durable`) and the calls in progress: `durable` changes only by taking all of `mem` at once, with no call in
progress. `mem` maps to what `bread` returns, `durable` to what recovery would make of the disk now.

**Proc.** Kernel threads of `NPROC` processes on `NCPU` CPUs, with `push_off`/`pop_off`, `noff` and `intena` behind every
acquire and release. A step runs from one point at which another CPU can act to the next. `sched` and `swtch` move a
thread's place between the process and `scheduler`; the timer interrupt may fall wherever
interrupts are on, in user code and in the kernel; hart 0 counts ticks. The operations are fork, exit with `reparent`, wait,
kill, the sleep system call and user code.

**Disk.** `bget` (hit, recycle from the end of the recency list, panic), `acquiresleep`, `bread`, `bwrite`, `brelse`, `bpin`,
`virtio_disk_rw` with its three descriptors, `virtio_disk_intr`, and a device that takes requests in order and
answers in any. Contents are abstracted to freshness: a copy is fresh when it is what was last
stored in the block. The rings are the sequences between their indices.

**Inode.** `iget`, `idup`, `ilock`, `iput` with its two halves, `ialloc`, `namex`, `dirlookup`, `dirlink`, `create`, and the calls
open, mkdir, mknod, link, unlink, chdir, dup and close, with tables of files and descriptors that fill up.
A step runs from one sleep lock, or one section under `icache.lock`, to the next. An entry of the
table is found by inode number. `.` and `..` are not walked.

**FileData, FileSpec.** `balloc`, `bfree`, `bmap` with the indirect block, `itrunc`, `readi`, `writei`, and `fileread` and `filewrite` with
its chunks, on the image that the operators for `mkfs` build. A read, or a chunk of a write, is one step, since it holds
the inode's lock. Sources of writes may fail half way and the disk may run full (`balloc` panics). A byte stands for an aligned
8-byte word. `FileSpec` has a sequence of bytes for each file and an offset for each open file; a write that is
cut short may have changed less than a block of bytes behind those it reports, as the code does when a copy fails inside a block.

**Terminal, LineSpec.** Readers in `consoleread`, writers in `consolewrite`, and `uartintr` on any CPU. The locks are held
across steps where the code looks at the device and then writes to it, since echo does so without
`uart_tx_lock`. The indices wrap. `LineSpec` is a line editor: a line being typed, characters ready to be read, and
what each reader has so far.

**Memory, Copy.** An operator for each function of `kalloc.c` and `vm.c` maps allocator and page table to what the
code leaves. fork, exec, sbrk, and exit with the parent's wait, are one step each with a *quota*, the number of `kalloc`s that find a page: every
allocation fails at every point. Page tables have two levels, and pages of page tables are counted like
others. `Copy` gives the copy loops as operators on pages, offsets and an alignment, next to what a copy
should do.

## 3. Runs

Each has its own `.cfg`; `tlc -config X.cfg M` repeats it. All passing runs end in under five minutes on two
workers.

| Run | Module, configuration | Checks |
|---|---|---|
| `ringbook_one_chunk` | `RingBook`, `RingBookOneChunk` | `SpaceRespected`, `InOrder`, `TransferCompletes` |
| `ringbook_many_chunks` | `RingBook`, `RingBookManyChunks` | `InOrder` is violated |
| `ringbuf` | `MCRingBuf`, `RingBufAll` | `NoFault`, `RefcountExact`, `SameNameSameRing`, `DescriptorsOpen` (careful clients), `OneSlotPerName` (any client) |
| `pipe` | `PipeChannel`, `PipeAll` | `NoUseAfterFree`, `SleepersNotForgotten`, `ImplementsChannel`, `CallsReturn` |
| `log` | `Log`, `LogCrash` | `ReservationKept`, `ImplementsAtomicDisk`, `WaiterRetries` |
| `proc` | `Proc`, `ProcTable` | `NoLostWakeup`, `OneStack`, `InterruptsRestored`, `NoSpinCycle` |
| `disk` | `Disk`, `DiskAll` | `ReadsLatest`, `RefcountExact`, `DeviceOwnsBuffer`, `SleepersNotForgotten`, `RequestsReturn` |
| `inode` | `MCInode`, `InodeCalls` | `RefExact`, `RefsLive`, `LinkCount`, `NoLockCycle`, `NamesStable` |
| `inode_free` | `MCInode`, `InodeFree` | `UnlinkedFreed` is violated |
| `filedata` | `MCFileData`, `FileAll` | `BitmapExact`, `TransactionFits`, `ImplementsFiles` |
| `terminal` | `MCTerminal`, `TerminalAll` | `NothingLost`, `ImplementsLine`, `OutputSent`, `InputRead` |
| `memory` | `MCMemory`, `MemoryAll` | `PagesConserved`, `NoVmPanic`, `CopyExact`, `FailureChangesNothing` |

The type invariants of `RingBook`, `RingBuf`, `Pipe` and `Log` are proved (section 5); those of the other modules are a
conjunct of one invariant each.

**What they show.**

* *FastIPC.* With chunks of which only one fits in the ring, and counters that wrap several times, two
  polling clients transfer every byte in order and finish. Careful clients share, count and free rings
  correctly, and the library's descriptors are of open rings. Whatever clients do, a short name is in one slot.
* *Pipe, log.* A pipe is a bounded FIFO channel for several readers and writers that forgets no sleeper and outlives
  its users. The log is a disk that takes whole groups of calls, wherever crashes fall.
* *Processes.* No wakeup is lost in wait, exit or sleep; every process has a parent that can wait for it; a
  kernel stack has one user; interrupts come back as they were; CPUs do not spin on each other.
* *Disk.* A holder of a buffer sees what was last stored; no block is cached twice; the device only touches
  buffers whose requester waits; no descriptor leaks; every request returns.
* *File system.* References and links are counted through create, link and unlink of the same names at the same
  time; no locked inode turns out free; directories stay a tree; the bitmap is exact; a chunk of a write
  fits its transaction; files are sequences of bytes.
* *Console.* Input is a line editor's, output arrives complete and in order, and both make progress.
* *Memory.* With every allocation failing at every point, no page leaks or has two uses, and a call that fails changes
  nothing. Copies fail exactly where they should.

**Bounds, and why they are enough.**

* *RingBook*: a ring of 3 bytes and an 8-valued word, 12 bytes, counters starting at 0 or beyond the sign change: they pass both the
  sign change and the wrap, and the ring is full and empty many times.
* *RingBuf*: 3 slots, 2 regions, 4 frames, a keeper and three processes, names of both lengths, four kinds of clients (careful
  through the system calls, careful through the library, any, and orderly ones with too little memory): slot 0, a slot reused between two
  others, regions, slots and memory used up, a name longer than the 7 characters stored. Processes and frames are symmetric; no
  temporal property is checked.
* *Pipe*: 2 bytes, counters modulo 4, writes of 3 so that every write sleeps, two processes on each end, one of each killable. Reads of
  0 bytes are left out: a client that repeats them can keep taking the lock, and `CallsReturn` would need a fair lock.
* *Log*: two processes, two blocks, room for two calls: calls are absorbed, group, and wait. The proofs cover the rest.
* *Proc*: 3 slots, 2 CPUs, 3 pids, ticks modulo 2, naps of 1: child and grandchild, orphans given to init, a slot reused, a
  kill against every state, a wait on one CPU against an exit on the other.
* *Disk*: two processes, 2 buffers for 3 blocks, descriptors for one request or for two.
* *Inode*: two processes, 5 inodes, names a and b, an empty and a nested disk, one file, two descriptors, three calls: two
  calls overlap while the third has set the scene. *inode_free*: 3 inodes, mknod and unlink.
* *FileData*: blocks of 2, 2 direct blocks, 11 blocks, transactions of 6, lengths 3 and 7 (two chunks, indirect block, the largest file), three
  open files on two inodes, three calls.
* *Terminal*: input buffer 4, output buffer 2, FIFO 2, indices modulo 8; five characters typed, or two and a kill, or one during two writes.
* *Memory*: 11 pages of 4 units, regions of 4 pages, sizes modulo 64, three programs, growth and shrinking by more than a page, a growth
  that wraps; memory for one large process or two small ones.

**Deadlock** is checked but for `ringbuf`, where clients may all have left and a fault ends the behaviour, and `terminal`,
where the typing and writing end.

**Fairness.** Weak fairness of each process's steps, and in `RingBook` of each client: the scheduler loops over all
processes and runs each RUNNABLE one (proc.c:442-470), and the timer makes each give way. `Pipe`'s `CallsReturn` also
assumes that the programs on the pipe go on. `WaiterRetries` says only that a sleeper in `begin_op` looks again: nothing prevents newcomers from being
admitted first each time. `Disk` and `Terminal` add weak fairness of interrupts and of the device, which the hardware gives; and
`Disk` strong fairness of the one step that takes `vdisk_lock` after the answer: it may find the lock taken again and again, but a CPU
that spins on a lock gets it some time. New writes, typing and kills are not fair.

## 4. Where code and its statements differ

Two runs show a disagreement:

* `ringbook_many_chunks`: both start functions return the first byte of the ring whatever the counters say (fastipc.h:101, 141), so a
  second chunk that fits is written over the first; `ringtest.c:97-99` reports 'Not Same!'.
* `inode_free`: `iput` gives up `icache.lock` while it frees an inode (fs.c:344-356). If the number is given out again and unlinked
  before `iput` has counted down, neither `iput` frees it, though fs.c:327-328 says the last one does.

Met while modelling, without a run of their own; the models follow the code wherever they reach:

* *Rings.* `exit` releases no rings (its call is commented out, proc.c:345-348), though the repository's README lists 'Exit path
  cleanup'; the parent's `wait` then panics in `freewalk`. With two rings the slot's single `vabuf` sends `uvmunmap` to a region the caller has
  not mapped, and it panics (vm.c:165). A name found in slot 0 is reported as existing, and a new ring is made. `closebuf` of a name not
  in the table indexes `ringbufs[16]`. `processSpace_mapper` does not look at what `kalloc` returns (ringbuf.c:91-94) and its undo loop
  unmaps the first page again and again. `validRingBuf` stays 1 when another process closes one's end.
* *Library.* The `else` in `createRingBuf` (fastipc.h:56-60) takes the statement `exists = 1` with it, since the `printf` between
  is commented out: the process that makes a ring gets a descriptor that every other call, `closeRingBuf` too, rejects. When the call returns -1 for a
  long name, or for want of a descriptor, the ring stays open.
* *Sleep and kill.* A kill between the test of `killed` and `sleep` in a pipe or the console leaves the victim asleep until another wakeup. A
  writer killed in the middle of a write returns without the wakeup at pipe.c:99, which is why `ReaderNotForgotten` has its last disjunct.
* *File system.* The log that mkfs makes holds LOGSIZE - 1 data blocks and `begin_op` reserves up to LOGSIZE. With five or more bitmap blocks
  `filewrite`'s accounting would be short; FSSIZE has one. A copy that fails inside a block leaves bytes in the cached block that are not logged.
* *Memory.* `mymemmove` copies whole words when both sides are aligned and drops the last `n % 8` bytes; `Copy` says exactly so. `fork`
  panics ("1", "2") where its callers expect -1.

## 5. Proofs

TLAPS proves the following for all values of the constants that satisfy the named `ASSUME`s.

**RingBookProofs** (`Spec => []...`): `TypeOK`; `SpaceRespected`; and, if all chunks have one size of which only one
fits, `InOrder`. *Argument*: `BookInv` says that each counter is `ToInt` of the bytes moved so far (plus `base`), that each
end's copy of its own counter is exact, and that the writer's copy of `read_done` is an *earlier* value, which can only make
it see less room than there is. Lemmas on `ToInt` show that the difference of two wrapped counters is the true
one because it lies between 0 and `BufSize` < 2^31. Without the clause on old copies `SpaceRespected` is not
inductive.

**RingBufProofs.** For *any* client, from `TableInv` (types, and that a name kept with slot 0 taken is in one slot):
`TypeOK`, `FreeSlotClean`, `OneSlotPerName`. For *careful* clients, from `CarefulInv`: `NoFault`, `RefcountExact`, `SameNameSameRing`,
`DescriptorsOpen`. *Argument*: each slot in use has a name and a frame of its own, and its count is the number of ends that are held; each
process has only the ring of one slot mapped, at the first region, which is also the `vabuf` of every slot, so that the single `vabuf` does no harm.
`createbuf` always finds a slot and a frame: with fewer names than slots and frames, that is the pigeonhole principle, applied to
the map from slots (frames) in use to their names. There is one lemma per kind of step. Assumptions: `TableAssumption`, `ProcAssumption`, `NameAssumption`, `ClientAssumption`, `FrameAssumption`.

**PipeProofs** (`Safe => []...`): `TypeOK`, `BytesInOrder`, `MutualExclusion`, `NoUseAfterFree`, `SleepersNotForgotten`, and
`Safe => ImplementsChannel`. *Argument*: `PipeInv` adds to them who holds a reference to each end (so that `readopen` and `writeopen`
follow the files), and what a process between its decision to sleep and `sleep` knows. Arithmetic lemmas relate the wrapped
counters to the history variables: with `Laps` >= 2, full and empty are told apart and distinct unread bytes have distinct slots.

**LogProofs** (`Safe => []...`): `TypeOK`, `DurableWhenIdle`, `PinnedWhileLogged`, `ReservationKept`, `SleeperHasWaker`, and
`Safe => ImplementsAtomicDisk`. *Argument*: `LogInv` says what the disk holds in each phase: the log blocks written so far equal the buffers, the
header on disk is empty until all are, the homes of the first `tail - 1` blocks equal the log during installation, a buffer that is
not pinned equals its home, a header names a block once. `outstanding` is the number of calls in progress, and there is at most one
commit. The reservation is a count: a call that begins adds `MaxOpBlocks` to it, and a block logged moves one unit from reserved to logged, or none
if it was absorbed. For the refinement, `write_head` is the abstract commit, a crash the abstract crash; every other step of commit
and recovery is a stutter.

**DiskProofs** (`Spec => []...`): `ReadsLatest`, `RefcountExact`, `DeviceOwnsBuffer`, `SleepersNotForgotten`. *Argument*: `DiskInv` says who has
which buffer and which sleep lock, that the device's and the driver's queues are disjoint and name only requests that a process waits
for, that the descriptors in use are the chains of those requests, each of three and none in two, and where the latest contents of a
block are: on the disk, or in a valid buffer that is pinned or on its way there. `ReadsLatest` is not inductive without the last
clause (a clean buffer may be recycled, a dirty one may not) nor without the chains (an answer must be about the
buffer it is taken for). `ThreeEach` counts the descriptors: three for each process that waits. Assumption: `DiskAssumption`.

**ProcSteps, ProcProofs** (`Safe => []...`): `NoLostWakeup`, `OneStack`, `InterruptsRestored`, `NoSpinCycle`. *Argument*: `ProcInv` says, for each
place a thread can be at, its `state`, the locks its CPU holds (`Locking`: exactly these, so that nobody else is at a place that needs
one of them), how deep `push_off` is nested and what `intena` will restore, what a thread that was interrupted goes back to, that the child
`fork` is making is nobody else's, that a process gives its children away before it can be a zombie, and what a sleeper knows of
its condition. `NoLostWakeup` rests on `wait_lock` being held from the scan to `sleep` and from `reparent` to the state change of `exit`.
`ProcSteps` has the steps of a thread on its CPU, `ProcProofs` the switches, the interrupts and the theorems. Assumption:
`ProcAssumption`.

**Only model-checked**: liveness (`TransferCompletes`, `CallsReturn`, `WaiterRetries`, `RequestsReturn`, `OutputSent`, `InputRead`), which needs
fairness and ENABLED; everything about `Inode`, `FileData`, `Terminal`, `Memory` and `Copy`. What the loops of `Copy` and
`FileData` compute for every length would need induction over data.

## 6. Not modelled

* Boot, the interrupt controller, the kernel's own page table, register saving, the handshake of `virtio_disk_init` and `uartinit` are writes to
  hardware or happen once before anything runs. The device's view of the virtio ring indices is replaced by sequences.
* `printf`, `panic`'s wording, argument fetching, ELF parsing, `skipelem` and names cut at DIRSIZ are formatting and decoding.
* The RAM disk is not compiled. The user programs and `malloc` are sequential code; tests give some properties their statements.
* In `Inode`: paths through `..`, and the bound NINODE on the table. In `Disk`, `bget`'s panic when all buffers are in use is in the model and ends
  a behaviour; that NBUF is large enough for NPROC processes and the log is not shown.
* A block write is atomic, pids are not reused, the atomic swap of `acquire` excludes, and RingBook's loads and stores are
  sequentially consistent: `load` and `store` use __ATOMIC_SEQ_CST.

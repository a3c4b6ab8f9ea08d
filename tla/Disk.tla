-------------------------------- MODULE Disk --------------------------------
(***************************************************************************)
(* The buffer cache, its sleep locks and the virtio disk driver below it:  *)
(* kernel/bio.c, sleeplock.c and virtio_disk.c, composed with the device.  *)
(*                                                                         *)
(* A step runs from one point where a process can sleep or be overtaken to *)
(* the next; bcache.lock and a sleep lock's spinlock are held within one   *)
(* step, vdisk_lock also while virtio_disk_intr walks the used ring.       *)
(* Contents are abstracted to freshness: a copy of a block is fresh when   *)
(* it is what was last stored in the block.  The rings are the sequences   *)
(* between their two indices.                                              *)
(***************************************************************************)
EXTENDS Naturals, FiniteSets, Sequences, Functions

CONSTANTS Procs,
          NBUF,     \* buffers 1..NBUF
          Blocks,   \* block numbers, from 1
          Nums      \* sizes of the descriptor table: one is chosen at the start

ASSUME DiskAssumption ==
  /\ IsFiniteSet(Procs) /\ Procs \subseteq Nat \ {0}
  /\ NBUF \in Nat \ {0} /\ Blocks \subseteq Nat \ {0} /\ Nums \subseteq Nat \ {0, 1, 2}

VARIABLES buf,      \* bcache.buf: blockno, valid, refcnt, disk, lock, pinned, fresh
          lru,      \* the list from head.next: most recently used first
          num, free, desc, info,   \* the driver's descriptors and in-flight table
          avail, taken, used,      \* requests queued, in the device, answered
          irq,      \* the device's interrupt line
          intr,     \* virtio_disk_intr runs and holds vdisk_lock
          fresh,    \* which blocks are fresh on the disk
          pc, req,  \* per process: place; block, buffer, direction, head descriptor
          asleep,   \* processes that sleep on their buffer in virtio_disk_rw
          panicked

vars == <<buf, lru, num, free, desc, info, avail, taken, used, irq, intr, fresh, pc, req, asleep,
          panicked>>
bio == <<buf, lru>>
queue == <<free, desc, info, avail>>
device == <<taken, used, irq, fresh>>

Bufs == 1..NBUF
None == 0
BufStruct ==
  [blockno : Blocks \cup {None}, valid : BOOLEAN, disk : BOOLEAN, refcnt : 0..(Cardinality(Procs) + 1),
   lock : Procs \cup {None}, pinned : BOOLEAN, fresh : BOOLEAN]
NoDesc == [addr |-> None, write |-> FALSE, next |-> None]
NoReq == [block |-> None, b |-> None, write |-> FALSE, head |-> None]

\* binit, and virtio_disk_init with all descriptors free.
Init ==
  /\ buf = [b \in Bufs |-> [blockno |-> None, valid |-> FALSE, refcnt |-> 0, disk |-> FALSE,
                            lock |-> None, pinned |-> FALSE, fresh |-> FALSE]]
  /\ lru = [i \in Bufs |-> NBUF + 1 - i]
  /\ num \in Nums /\ free = 1..num
  /\ desc = [d \in 1..num |-> NoDesc] /\ info = [d \in 1..num |-> None]
  /\ avail = <<>> /\ taken = {} /\ used = <<>> /\ irq = FALSE /\ intr = FALSE
  /\ fresh = [k \in Blocks |-> TRUE]
  /\ pc = [p \in Procs |-> "idle"] /\ req = [p \in Procs |-> NoReq] /\ asleep = {}
  /\ panicked = FALSE

Goto(p, from, to) == pc[p] = from /\ pc' = [pc EXCEPT ![p] = to]
Rest == UNCHANGED <<num, asleep, panicked>>

\* wakeup of every process asleep at a place on a buffer (any buffer for None).
Awake(at, b, to) ==
  [p \in Procs |-> IF pc[p] = at /\ b \in {None, req[p].b} THEN to ELSE pc[p]]

-----------------------------------------------------------------------------
(* bio.c                                                                   *)
Cached(k) == {b \in Bufs : buf[b].blockno = k}
Unused == {i \in Bufs : buf[lru[i]].refcnt = 0}
Victim == lru[CHOOSE i \in Unused : \A j \in Unused : j <= i]

\* Mutant of bget: valid is left as the last block had it.
bgetKeepsValid(p, k) ==
  /\ pc[p] = "idle"
  /\ LET b == IF Cached(k) # {} THEN CHOOSE c \in Cached(k) : TRUE ELSE Victim
     IN /\ Cached(k) # {} \/ Unused # {}
        /\ buf' = [buf EXCEPT ![b].blockno = k, ![b].refcnt = @ + 1, ![b].fresh = @ /\ Cached(k) # {}]
        /\ req' = [req EXCEPT ![p] = [NoReq EXCEPT !.block = k, !.b = b]]
  /\ Goto(p, "idle", "lock")
  /\ UNCHANGED <<lru, queue, device, intr>> /\ Rest

\* bget, up to the sleep lock: the cached buffer, or the least recently used one
\* without a user; with none left it panics.
bget(p, k) ==
  /\ pc[p] = "idle"
  /\ \E b \in Cached(k) \cup {Victim : i \in Unused} :
       /\ Cached(k) # {} => b \in Cached(k)
       /\ buf' = [buf EXCEPT ![b] =
            IF b \in Cached(k) THEN [@ EXCEPT !.refcnt = buf[b].refcnt + 1]
            ELSE [@ EXCEPT !.blockno = k, !.valid = FALSE, !.fresh = FALSE, !.refcnt = 1]]
       /\ req' = [req EXCEPT ![p] = [NoReq EXCEPT !.block = k, !.b = b]]
  /\ Goto(p, "idle", "lock")
  /\ UNCHANGED <<lru, queue, device, intr>> /\ Rest

bgetNoBuffers(p, k) ==
  /\ pc[p] = "idle" /\ Cached(k) = {} /\ Unused = {}
  /\ panicked' = TRUE
  /\ UNCHANGED <<bio, num, queue, device, intr, pc, req, asleep>>

\* bread goes to the disk unless the buffer is valid.
AfterLock(b) == IF buf[b].valid THEN "hold" ELSE "rw"

\* acquiresleep at the end of bget, and what bread does next.
acquiresleep(p) ==
  /\ pc[p] = "lock"
  /\ LET b == req[p].b
     IN IF buf[b].lock # None
        THEN Goto(p, "lock", "lockwait") /\ UNCHANGED buf
        ELSE /\ buf' = [buf EXCEPT ![b].lock = p]
             /\ Goto(p, "lock", AfterLock(b))
  /\ UNCHANGED <<lru, queue, device, intr, req>> /\ Rest

\* The holder stores into the buffer and writes it through.
bwrite(p) ==
  /\ Goto(p, "hold", "rw")
  /\ req' = [req EXCEPT ![p].write = TRUE]
  /\ fresh' = [fresh EXCEPT ![req[p].block] = FALSE]
  /\ UNCHANGED <<bio, queue, taken, used, irq, intr>> /\ Rest

\* Mutant of bpin: the buffer is not counted.
bpinUncounted(p) ==
  /\ pc[p] = "hold" /\ ~buf[req[p].b].pinned
  /\ fresh' = [fresh EXCEPT ![req[p].block] = FALSE]
  /\ buf' = [buf EXCEPT ![req[p].b].pinned = TRUE]
  /\ UNCHANGED <<lru, queue, taken, used, irq, intr, pc, req>> /\ Rest

\* The holder stores into the buffer and leaves it to the log, which pins it
\* until the block is installed.
bpin(p) ==
  /\ pc[p] = "hold" /\ ~buf[req[p].b].pinned
  /\ fresh' = [fresh EXCEPT ![req[p].block] = FALSE]
  /\ buf' = [buf EXCEPT ![req[p].b].pinned = TRUE, ![req[p].b].refcnt = @ + 1]
  /\ UNCHANGED <<lru, queue, taken, used, irq, intr, pc, req>> /\ Rest

bunpin(p) ==
  /\ pc[p] = "hold" /\ buf[req[p].b].pinned /\ fresh[req[p].block]
  /\ buf' = [buf EXCEPT ![req[p].b].pinned = FALSE, ![req[p].b].refcnt = @ - 1]
  /\ UNCHANGED <<lru, queue, device, intr, pc, req>> /\ Rest

\* brelse: releasesleep, then the reference; the last user moves the buffer to
\* the front of the list.
releasesleep(p) ==
  /\ pc[p] = "hold" /\ buf[req[p].b].lock = p
  /\ buf' = [buf EXCEPT ![req[p].b].lock = None]
  /\ pc' = [Awake("lockwait", req[p].b, "lock") EXCEPT ![p] = "release"]
  /\ UNCHANGED <<lru, queue, device, intr, req>> /\ Rest

\* The buffer is unlinked and put after the head of the list.
ToFront(b) ==
  LET at == CHOOSE i \in Bufs : lru[i] = b
  IN [i \in Bufs |-> IF i = 1 THEN b ELSE IF i <= at THEN lru[i - 1] ELSE lru[i]]

brelse(p) ==
  /\ Goto(p, "release", "idle")
  /\ LET b == req[p].b
     IN /\ buf' = [buf EXCEPT ![b].refcnt = @ - 1]
        /\ lru' = IF buf[b].refcnt = 1 THEN ToFront(b) ELSE lru
  /\ req' = [req EXCEPT ![p] = NoReq]
  /\ UNCHANGED <<queue, device, intr>> /\ Rest

-----------------------------------------------------------------------------
(* virtio_disk.c                                                           *)
Least(S) == CHOOSE d \in S : \A e \in S : d <= e

alloc3_desc ==
  LET a == Least(free)
      b == Least(free \ {a})
  IN <<a, b, Least(free \ {a, b})>>

free_chain(d) == {d, desc[d].next, desc[desc[d].next].next}

\* The chain for a request: header with the direction, data, status.  b->disk is
\* set, so the requester sleeps on b.
Submit(p) ==
  LET i == alloc3_desc b == req[p].b
  IN /\ free' = free \ {i[1], i[2], i[3]}
     /\ desc' = [desc EXCEPT ![i[1]] = [NoDesc EXCEPT !.write = req[p].write, !.next = i[2]],
                             ![i[2]] = [NoDesc EXCEPT !.addr = b, !.next = i[3]]]
     /\ buf' = [buf EXCEPT ![b].disk = TRUE]
     /\ info' = [info EXCEPT ![i[1]] = b]
     /\ avail' = Append(avail, i[1])
     /\ req' = [req EXCEPT ![p].head = i[1]]
     /\ Goto(p, "rw", "rwwait") /\ asleep' = asleep \cup {p}

\* virtio_disk_rw up to its sleep: alloc3_desc takes three descriptors, or gives
\* back the one or two it got, which wakes the others that wait for some.
virtio_disk_rw(p) ==
  /\ pc[p] = "rw" /\ ~intr
  /\ IF Cardinality(free) >= 3 THEN Submit(p)
     ELSE /\ pc' = [(IF free = {} THEN pc ELSE Awake("descwait", None, "rw")) EXCEPT ![p] = "descwait"]
          /\ UNCHANGED <<buf, queue, req, asleep>>
  /\ UNCHANGED <<lru, device, intr, num, panicked>>

Finish(p) ==
  LET chain == free_chain(req[p].head)
  IN /\ info' = [info EXCEPT ![req[p].head] = None]
     /\ free' = free \cup chain
     /\ desc' = [d \in 1..num |-> IF d \in chain THEN NoDesc ELSE desc[d]]
     /\ pc' = [Awake("descwait", None, "rw") EXCEPT ![p] = "hold"]
     /\ buf' = [buf EXCEPT ![req[p].b].valid = TRUE]
     /\ req' = [req EXCEPT ![p].head = None, ![p].write = FALSE]
     /\ UNCHANGED <<lru, avail, device, intr>> /\ Rest

\* Mutant of virtio_disk_rwDone: any wakeup will do.
virtio_disk_rwDoneEarly(p) == pc[p] = "rwwait" /\ ~intr /\ Finish(p)

\* Woken, the requester looks at b->disk again; once it is clear it frees the
\* chain and wakes who waits for descriptors.
virtio_disk_rwDone(p) ==
  /\ pc[p] = "rwwait" /\ p \notin asleep /\ ~intr
  /\ IF buf[req[p].b].disk
     THEN asleep' = asleep \cup {p} /\ UNCHANGED <<bio, queue, device, intr, num, pc, req, panicked>>
     ELSE Finish(p)

\* virtio_disk_intr acknowledges, then hands back every used entry.
virtio_disk_intr ==
  /\ irq /\ ~intr /\ irq' = FALSE /\ intr' = TRUE
  /\ UNCHANGED <<bio, queue, taken, used, fresh, pc, req>> /\ Rest

\* Mutant of virtio_disk_intrEntry: the requester is not woken.
virtio_disk_intrEntryQuiet ==
  /\ intr /\ used # <<>>
  /\ buf' = [buf EXCEPT ![info[Head(used)]].disk = FALSE] /\ used' = Tail(used)
  /\ UNCHANGED <<lru, queue, taken, irq, intr, fresh, pc, req>> /\ Rest

\* Mutant of virtio_disk_intrEntry: used_idx does not move on.
virtio_disk_intrEntrySame ==
  /\ intr /\ used # <<>>
  /\ LET b == info[Head(used)]
     IN /\ buf' = [buf EXCEPT ![b].disk = FALSE]
        /\ asleep' = {p \in asleep : req[p].b # b}
  /\ UNCHANGED <<lru, queue, device, intr, pc, req, num, panicked>>

\* The device is done with the buffer, and whoever sleeps on it is woken.
virtio_disk_intrEntry ==
  /\ intr /\ used # <<>>
  /\ LET b == info[Head(used)]
     IN /\ buf' = [buf EXCEPT ![b].disk = FALSE]
        /\ asleep' = {p \in asleep : req[p].b # b}
  /\ used' = Tail(used)
  /\ UNCHANGED <<lru, queue, taken, irq, intr, fresh, pc, req, num, panicked>>

\* The device may report an error, whatever it has done; the driver panics.
virtio_disk_intrStatus ==
  /\ intr /\ used # <<>> /\ panicked' = TRUE
  /\ UNCHANGED <<bio, num, queue, device, intr, pc, req, asleep>>

virtio_disk_intrEnd ==
  /\ intr /\ used = <<>> /\ intr' = FALSE
  /\ UNCHANGED <<bio, queue, device, pc, req>> /\ Rest

-----------------------------------------------------------------------------
(* The device takes requests in order and answers them in any order: it    *)
(* copies the block, writes the used ring and raises its interrupt.        *)
DeviceTake ==
  /\ avail # <<>>
  /\ taken' = taken \cup {Head(avail)} /\ avail' = Tail(avail)
  /\ UNCHANGED <<bio, free, desc, info, used, irq, intr, fresh, pc, req>> /\ Rest

DeviceAnswer(d) ==
  /\ d \in taken
  /\ LET b == desc[desc[d].next].addr
         k == buf[b].blockno
     IN IF desc[d].write
        THEN fresh' = [fresh EXCEPT ![k] = buf[b].fresh] /\ UNCHANGED buf
        ELSE buf' = [buf EXCEPT ![b].fresh = fresh[k]] /\ UNCHANGED fresh
  /\ taken' = taken \ {d} /\ used' = Append(used, d) /\ irq' = TRUE
  /\ UNCHANGED <<lru, queue, intr, pc, req>> /\ Rest

-----------------------------------------------------------------------------
Kernel(p) ==
  acquiresleep(p) \/ virtio_disk_rw(p) \/ virtio_disk_rwDone(p) \/ brelse(p)

Interrupt == virtio_disk_intr \/ virtio_disk_intrEntry \/ virtio_disk_intrEnd
Descs == UNION {1..n : n \in Nums}
Device == DeviceTake \/ \E d \in Descs : DeviceAnswer(d)

Next ==
  \/ /\ ~panicked
     /\ \/ Interrupt \/ virtio_disk_intrStatus \/ Device
        \/ \E p \in Procs :
             \/ Kernel(p) \/ bwrite(p) \/ bpin(p) \/ bunpin(p) \/ releasesleep(p)
             \/ \E k \in Blocks : bget(p, k) \/ bgetNoBuffers(p, k)
  \/ panicked /\ UNCHANGED vars

Live == ~panicked
\* Every process that can run does, the device answers every request, interrupts
\* are taken, and a process that spins on vdisk_lock gets it some time.
Spec ==
  /\ Init /\ [][Next]_vars
  /\ \A p \in Procs : WF_vars(Live /\ Kernel(p)) /\ WF_vars(Live /\ releasesleep(p))
                      /\ SF_vars(Live /\ virtio_disk_rwDone(p))
  /\ WF_vars(Live /\ Interrupt) /\ WF_vars(Live /\ DeviceTake)
  /\ \A d \in Descs : WF_vars(Live /\ DeviceAnswer(d))

-----------------------------------------------------------------------------
\* Every variable has the shape the code gives it.
TypeOK ==
  /\ buf \in [Bufs -> BufStruct]
  /\ lru \in [Bufs -> Bufs] /\ IsInjective(lru)
  /\ free \subseteq 1..num /\ taken \subseteq 1..num
  /\ fresh \in [Blocks -> BOOLEAN]
  /\ \A p \in Procs : req[p].block \in Blocks \cup {None} /\ req[p].b \in Bufs \cup {None}

\* A process that holds a buffer after bread has the block it asked for, as it
\* was last stored by anyone: through recycling, pins, write-backs and reads
\* that another process started.  Two processes that miss a block at once, or one
\* that misses it while another recycles, never cache it twice.
ReadsLatest ==
  /\ \A p \in Procs : pc[p] = "hold" =>
       LET b == buf[req[p].b] IN b.blockno = req[p].block /\ b.lock = p /\ b.fresh
  /\ \A a, b \in Bufs : buf[a].blockno = buf[b].blockno /\ buf[a].blockno # None => a = b

\* refcnt counts the processes between bget and brelse and the log's pin, so a
\* buffer is recycled exactly when nobody needs it.  (With the types of all
\* variables.)
RefcountExact ==
  TypeOK /\ \A b \in Bufs :
    buf[b].refcnt = Cardinality({p \in Procs : req[p].b = b}) + (IF buf[b].pinned THEN 1 ELSE 0)

\* While a request is queued or in the device, its requester sleeps, holds the
\* buffer's lock and has not changed what the descriptors point to.  The
\* descriptors that are not free are the chains of the requests that wait, three
\* each and no two alike: none leaks when a request finds too few, and free_desc's
\* panics cannot happen.
DeviceOwnsBuffer ==
  /\ \A d \in taken \cup Range(avail) :
       \E p \in Procs :
         /\ pc[p] = "rwwait" /\ req[p].head = d /\ info[d] = req[p].b
         /\ desc[desc[d].next].addr = req[p].b /\ desc[d].write = req[p].write
         /\ buf[req[p].b].disk /\ buf[req[p].b].lock = p
  /\ LET waiting == {p \in Procs : pc[p] = "rwwait"}
     IN /\ 1..num \ free = UNION {free_chain(req[p].head) : p \in waiting}
        /\ Cardinality(1..num \ free) = 3 * Cardinality(waiting)

\* Nobody sleeps for what is there: for a sleep lock that is free, for descriptors
\* when three are free, or for a request that virtio_disk_intr has finished.
SleepersNotForgotten ==
  \A p \in Procs :
    /\ pc[p] = "lockwait" => buf[req[p].b].lock # None
    /\ pc[p] = "descwait" => Cardinality(free) < 3
    /\ p \in asleep => buf[req[p].b].disk

\* Every request handed to the device returns: no interrupt is lost between the
\* acknowledgement, the walk over the used ring and the next answer.
RequestsReturn == \A p \in Procs : pc[p] = "rwwait" ~> (pc[p] = "hold" \/ panicked)
=============================================================================
